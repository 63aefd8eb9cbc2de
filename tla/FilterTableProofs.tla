------------------------- MODULE FilterTableProofs -------------------------
(***************************************************************************)
(* Every step of the set, replication and cull jobs, and the steps that    *)
(* mark changes, load, walk, delete and use filtersets, keep the invariant *)
(* of FilterSetsProofs; the initial states satisfy it, and so the table    *)
(* agrees with the rows in every state.                                    *)
(***************************************************************************)
EXTENDS FilterSetsProofs

\* A step of a job that leaves the table, the objects and the marks alone.
LEMMA JobOK ==
    ASSUME FiltersInv, NEW t \in Job, NEW w \in Work, Does(t, w), w.at \in PlaceOf(t), w.at # "walk",
           worker[t].at # "walk", worker[t].at # "mark",
           UNCHANGED <<filtersets, obj, uses, unmarked>>,
           filterRows' \in [FilterName -> Doc], causes' \in [FilterName -> SUBSET Cause], started' \in Int,
           \A m \in FilterName : causes'[m] = {} => causes[m] = {},
           (t # "cull" /\ late' = late) \/ UsedInv',
           filterRows' = filterRows \/ ~filterTxn,
           t = "console" /\ w.at = "compile" => w.d = filterRows'[w.n],
           \A m \in FilterName : RowStep(t, m)
    PROVE  FiltersInv'
<1>0. FilterTypes /\ Places /\ Pointers /\ RefsExact /\ ChangesMarked /\ RowsInv /\ UsedInv  BY Zenon DEF FiltersInv
<1>1. unmarked' \subseteq FilterName  BY <1>0, Zenon DEF FilterTypes
<1>2. /\ FilterTypes' /\ Places' /\ Pointers' /\ RefsExact' /\ ChangesMarked'
      /\ worker'[t] = w /\ \A u \in FilterThread \ {t} : worker'[u] = worker[u]
      /\ t # "cull" /\ late' = late => UsedInv'
  BY <1>0, <1>1, JobMoves, Zenon
<1>3. worker'["console"].at = "compile" => worker'["console"].d = filterRows'[worker'["console"].n]
  <2>1. CASE t = "console"  BY <2>1, <1>2, Zenon
  <2>2. CASE t # "console"
    <3>1. worker'["console"] = worker["console"]  BY <2>2, <1>2, FiniteThreads, Zenon
    <3> QED  BY <3>1, <1>0, ConsoleKept, Zenon
  <2> QED  BY <2>1, <2>2, Zenon
<1>4. RowsInv'  BY <1>0, <1>2, <1>3, RowsStep, Zenon
<1> QED  BY <1>2, <1>4, Zenon DEF FiltersInv

\* What one name's row is written to.
LEMMA RowWritten ==
    ASSUME FilterTypes, NEW n \in FilterName, NEW d \in Doc, filterRows' = [filterRows EXCEPT ![n] = d],
           UNCHANGED <<filtersets, obj>>
    PROVE  /\ filterRows' \in [FilterName -> Doc] /\ filterRows'[n] = d
           /\ \A m \in FilterName \ {n} : SameSet(m)
BY Zenon DEF FilterTypes, SameSet

\* The write of a set job.
LEMMA SetRowOK ==
    ASSUME FiltersInv, SetRow
    PROVE  FiltersInv'
<1>0. FilterTypes /\ RowsInv  BY Zenon DEF FiltersInv
<1>1. "set" \in Job /\ "set" \in FilterThread  BY FiniteThreads, Zenon
<1>2. PICK n \in FilterName : n = worker["set"].n  BY <1>0, <1>1, WorkFields, Zenon
<1>3. PICK d \in Doc : d = worker["set"].d  BY <1>0, <1>1, WorkFields, Zenon
<1>4. /\ worker["set"].at = "row" /\ ~filterTxn
      /\ UNCHANGED <<filtersets, obj, uses, unmarked, late, started>>
  BY Zenon DEF SetRow, WriteRow
<1>5. started' \in Int /\ filterRows \in [FilterName -> Doc] /\ causes \in [FilterName -> SUBSET Cause]
  BY <1>0, <1>4, Zenon DEF FilterTypes
<1>6. CASE filterRows' = [filterRows EXCEPT ![n] = d] /\ Go("set", "compile") /\ causes' = causes
  <2>1. PICK w : w = Stay("set", "compile")  BY Zenon
  <2>2. w \in Work /\ Does("set", w) /\ w.at = "compile" /\ w.n = n /\ w.d = d
    BY <2>1, <1>0, <1>1, <1>2, <1>3, <1>6, GoTo, Zenon
  <2>3. worker'["set"] = w  BY <2>2, <1>0, <1>1, Moves, Zenon
  <2>4. filterRows' \in [FilterName -> Doc] /\ filterRows'[n] = d /\ \A m \in FilterName \ {n} : SameSet(m)
    BY <1>0, <1>4, <1>6, RowWritten, Zenon
  <2>5. \A m \in FilterName \ {n} : RowStep("set", m)
    BY <2>2, <2>3, <2>4, <1>2, Zenon DEF RowStep, Changing
  <2>6. RowStep("set", n)
    <3>1. Changing("set", n)  BY <1>2, <1>4, Zenon DEF Changing
    <3>2. ASSUME RowOK(n) PROVE SoFar("set", n)' /\ (~Changing("set", n)' => Agrees(n)')
      <4>1. Older(n, d)  BY <3>2, <1>2, <1>3, <1>4, Zenon DEF RowOK, SetSoFar
      <4>2. filtersets'[n] # 0 => obj'[filtersets'[n]].seq < d.seq  BY <4>1, <1>4, Zenon DEF Older
      <4>3. SetSoFar(n)'  BY <2>2, <2>3, <2>4, <4>2, Zenon DEF SetSoFar, Older
      <4>4. Changing("set", n)'  BY <2>2, <2>3, Zenon DEF Changing
      <4> QED  BY <4>3, <4>4, Zenon DEF SoFar
    <3> QED  BY <3>1, <3>2, Zenon DEF RowStep
  <2>7. \A m \in FilterName : RowStep("set", m)  BY <2>5, <2>6, Zenon
  <2>8. w.at \in PlaceOf("set") /\ w.at # "walk" /\ worker["set"].at # "walk" /\ worker["set"].at # "mark"
    BY <2>2, <1>4, Threads, Zenon
  <2> QED  BY <2>2, <2>4, <2>7, <2>8, <1>1, <1>4, <1>5, <1>6, JobOK, Zenon
<1>7. CASE Go("set", "resize") /\ causes' = [causes EXCEPT ![n] = @ \cup {"full"}] /\ filterRows' = filterRows
  <2>1. PICK w : w = Stay("set", "resize")  BY Zenon
  <2>2. w \in Work /\ Does("set", w) /\ w.at = "resize" /\ w.n = n /\ w.d = d
    BY <2>1, <1>0, <1>1, <1>2, <1>3, <1>7, GoTo, Zenon
  <2>3. worker'["set"] = w  BY <2>2, <1>0, <1>1, Moves, Zenon
  <2>4. PICK C \in SUBSET Cause : C = {"full"}  BY Zenon DEF Cause
  <2>5. /\ causes' \in [FilterName -> SUBSET Cause]
        /\ \A m \in FilterName : causes'[m] = {} => causes[m] = {}
        /\ causes'[n] # {}
    BY <2>4, <1>5, <1>7, CauseAdded, Zenon
  <2>6. \A m \in FilterName : SameSet(m)  BY <1>4, <1>7, SameAll, Zenon
  <2>7. \A m \in FilterName : RowStep("set", m)
    BY <2>2, <2>3, <2>5, <2>6, <1>2, Zenon DEF RowStep, Changing
  <2>8. w.at \in PlaceOf("set") /\ w.at # "walk" /\ worker["set"].at # "walk" /\ worker["set"].at # "mark"
    BY <2>2, <1>4, Threads, Zenon
  <2> QED  BY <2>2, <2>5, <2>7, <2>8, <1>1, <1>4, <1>5, <1>7, JobOK, Zenon
<1> QED  BY <1>2, <1>3, <1>6, <1>7, Zenon DEF SetRow, WriteRow

\* The resize of a set job: the history says that the map was full.
LEMMA SetResizeOK ==
    ASSUME FiltersInv, Resize("set", "compile")
    PROVE  FiltersInv'
<1>0. FilterTypes /\ RowsInv  BY Zenon DEF FiltersInv
<1>1. "set" \in Job /\ "set" \in FilterThread  BY FiniteThreads, Zenon
<1>2. PICK n \in FilterName : n = worker["set"].n  BY <1>0, <1>1, WorkFields, Zenon
<1>3. /\ worker["set"].at = "resize" /\ Go("set", "compile")
      /\ UNCHANGED <<filterRows, filtersets, obj, leaked, uses, unmarked, causes, late, started>>
  BY Zenon DEF Resize
<1>4. started' \in Int /\ filterRows' \in [FilterName -> Doc] /\ causes' \in [FilterName -> SUBSET Cause]
  BY <1>0, <1>3, Zenon DEF FilterTypes
<1>5. PICK w : w = Stay("set", "compile")  BY Zenon
<1>6. w \in Work /\ Does("set", w) /\ w.at = "compile" /\ w.n = n
  BY <1>0, <1>1, <1>2, <1>3, <1>5, GoTo, Zenon
<1>7. worker'["set"] = w  BY <1>6, <1>0, <1>1, Moves, Zenon
<1>8. \A m \in FilterName : SameSet(m)  BY <1>3, SameAll, Zenon
<1>9. Changing("set", n) /\ ~RowOK(n)  BY <1>2, <1>3, Zenon DEF Changing, RowOK, SetSoFar
<1>10. \A m \in FilterName : RowStep("set", m)
  BY <1>2, <1>6, <1>7, <1>8, <1>9, Zenon DEF RowStep, Changing
<1>11. w.at \in PlaceOf("set") /\ w.at # "walk" /\ worker["set"].at # "walk" /\ worker["set"].at # "mark"
  BY <1>3, <1>6, Threads, Zenon
<1> QED  BY <1>1, <1>3, <1>4, <1>6, <1>10, <1>11, JobOK, Zenon

\* The end of a set job.
LEMMA SetShowOK ==
    ASSUME FiltersInv, SetShow
    PROVE  FiltersInv'
<1>0. FilterTypes /\ RowsInv  BY Zenon DEF FiltersInv
<1>1. "set" \in Job /\ "set" \in FilterThread  BY FiniteThreads, Zenon
<1>3. /\ worker["set"].at = "show" /\ Does("set", Idle)
      /\ UNCHANGED <<filterRows, filtersets, obj, leaked, uses, unmarked, causes, late, started>>
  BY Zenon DEF SetShow, Done
<1>4. started' \in Int /\ filterRows' \in [FilterName -> Doc] /\ causes' \in [FilterName -> SUBSET Cause]
  BY <1>0, <1>3, Zenon DEF FilterTypes
<1>6. Idle \in Work /\ Idle.at = "idle"  BY IdleWork, Zenon
<1>7. worker'["set"] = Idle  BY <1>3, <1>6, <1>0, <1>1, Moves, Zenon
<1>8. \A m \in FilterName : SameSet(m)  BY <1>3, SameAll, Zenon
<1>10. \A m \in FilterName : RowStep("set", m)
  BY <1>3, <1>6, <1>7, <1>8, Zenon DEF RowStep, Changing
<1>11. Idle.at \in PlaceOf("set") /\ Idle.at # "walk" /\ worker["set"].at # "walk" /\ worker["set"].at # "mark"
  BY <1>3, <1>6, Threads, Zenon
<1> QED  BY <1>1, <1>3, <1>4, <1>6, <1>10, <1>11, JobOK, Zenon

-----------------------------------------------------------------------------
(* Replication *)

\* Nothing is changing a name, and a job starts on it.
LEMMA FilterReplBeginOK ==
    ASSUME FiltersInv, NEW n \in Asked, NEW s \in FilterSeqs, FilterReplBegin(n, s)
    PROVE  FiltersInv'
<1>0. FilterTypes /\ RowsInv  BY Zenon DEF FiltersInv
<1>1. "repl" \in Job /\ "repl" \in FilterThread  BY FiniteThreads, Zenon
<1>2. n \in FilterName /\ s \in Nat  BY FilterConstants, Zenon
<1>3. PICK d \in Doc : d = [seq |-> s, doc |-> started + 1]
  <2>1. [seq |-> s, doc |-> started + 1] \in Doc  BY <1>0, <1>2 DEF Doc, FilterTypes
  <2> QED  BY <2>1, Zenon
<1>4. /\ worker["repl"].at = "idle" /\ started' = started + 1
      /\ Does("repl", Doing("seq", n, d, filtersets[n], {}))
      /\ causes' = Overlapping("repl", {n})
      /\ UNCHANGED <<filterRows, filtersets, obj, leaked, uses, unmarked, late>>
  BY <1>3, Zenon DEF FilterReplBegin, Begin
<1>5. started' \in Int /\ filterRows' \in [FilterName -> Doc] /\ filtersets[n] \in Nat
  BY <1>0, <1>2, <1>4 DEF FilterTypes
<1>6. /\ causes' \in [FilterName -> SUBSET Cause]
      /\ \A m \in FilterName : causes'[m] = {} => causes[m] = {}
      /\ causes'[n] = {} => \A u \in Job \ {"repl"} : ~Changing(u, n)
  <2>1. {n} \in SUBSET FilterName  BY <1>2, Zenon
  <2>2. /\ Overlapping("repl", {n}) \in [FilterName -> SUBSET Cause]
        /\ \A m \in FilterName : Overlapping("repl", {n})[m] = {} => causes[m] = {}
        /\ \A m \in {n} : Overlapping("repl", {n})[m] = {} => \A u \in Job \ {"repl"} : ~Changing(u, m)
    BY <1>0, <2>1, Overlaps, Zenon
  <2> QED  BY <1>4, <2>2, Zenon
<1>7. PICK w : w = Doing("seq", n, d, filtersets[n], {})  BY Zenon
<1>8. w \in Work /\ w.at = "seq" /\ w.n = n
  <2>1. w \in Work  BY <1>2, <1>3, <1>5, <1>7, DoingWork, Zenon
  <2> QED  BY <2>1, <1>7, Zenon DEF Doing
<1>9. worker'["repl"] = w  BY <1>0, <1>1, <1>4, <1>7, <1>8, Moves, Zenon
<1>10. \A m \in FilterName : SameSet(m)  BY <1>4, SameAll, Zenon
<1>11. \A m \in FilterName \ {n} : RowStep("repl", m)
  BY <1>4, <1>8, <1>9, <1>10, Zenon DEF RowStep, Changing
<1>12. RowStep("repl", n)
  <2>1. ASSUME RowOK(n), \A u \in Job \ {"repl"} : ~Changing(u, n)
        PROVE  SoFar("repl", n)' /\ (~Changing("repl", n)' => Agrees(n)')
    <3>1. \A u \in Job : ~Changing(u, n)  BY <2>1, <1>4, Zenon DEF Changing
    <3>2. Agrees(n)'  BY <2>1, <3>1, <1>2, <1>10, SameAgrees, Zenon DEF RowOK
    <3>3. ReplSoFar(n)'  BY <3>2, <1>8, <1>9, Zenon DEF ReplSoFar
    <3> QED  BY <3>2, <3>3, Zenon DEF SoFar
  <2> QED  BY <2>1, <1>6, Zenon DEF RowStep
<1>13. \A m \in FilterName : RowStep("repl", m)  BY <1>11, <1>12, Zenon
<1>14. w.at \in PlaceOf("repl") /\ w.at # "walk" /\ worker["repl"].at # "walk" /\ worker["repl"].at # "mark"
  BY <1>4, <1>8, Threads, Zenon
<1>15. Does("repl", w)  BY <1>4, <1>7, Zenon
<1> QED  BY <1>1, <1>4, <1>5, <1>6, <1>8, <1>13, <1>14, <1>15, JobOK, Zenon

\* noit_filter_get_seq reads the number of an object that may be freed.
LEMMA ReplSeqOK ==
    ASSUME FiltersInv, ReplSeq
    PROVE  FiltersInv'
<1>0. FilterTypes /\ RowsInv  BY Zenon DEF FiltersInv
<1>1. "repl" \in Job /\ "repl" \in FilterThread  BY FiniteThreads, Zenon
<1>2. PICK n \in FilterName : n = worker["repl"].n  BY <1>0, <1>1, WorkFields, Zenon
<1>3. /\ worker["repl"].at = "seq"
      /\ Does("repl", Idle) \/ Go("repl", "compile")
      /\ UNCHANGED <<filterRows, filtersets, obj, leaked, uses, unmarked, causes, late, started>>
  <2>1. PICK r : r = worker["repl"]  BY Zenon
  <2> QED  BY Zenon DEF ReplSeq, Done
<1>4. started' \in Int /\ filterRows' \in [FilterName -> Doc] /\ causes' \in [FilterName -> SUBSET Cause]
  BY <1>0, <1>3, Zenon DEF FilterTypes
<1>5. PICK w \in Work : Does("repl", w) /\ (w.at = "idle" \/ (w.at = "compile" /\ w.n = n))
  <2>1. CASE Does("repl", Idle)  BY <2>1, IdleWork, Zenon
  <2>2. CASE Go("repl", "compile")
    <3>1. Stay("repl", "compile") \in Work /\ Does("repl", Stay("repl", "compile"))
          /\ Stay("repl", "compile").at = "compile" /\ Stay("repl", "compile").n = n
      BY <2>2, <1>0, <1>1, <1>2, GoTo, Zenon
    <3> QED  BY <3>1, Zenon
  <2> QED  BY <1>3, <2>1, <2>2, Zenon
<1>7. worker'["repl"] = w  BY <1>5, <1>0, <1>1, Moves, Zenon
<1>8. \A m \in FilterName : SameSet(m)  BY <1>3, SameAll, Zenon
<1>9. \A m \in FilterName \ {n} : RowStep("repl", m)
  BY <1>2, <1>5, <1>7, <1>8, Zenon DEF RowStep, Changing
<1>10. RowStep("repl", n)
  <2>1. Changing("repl", n)  BY <1>2, <1>3, Zenon DEF Changing
  <2>2. ASSUME RowOK(n) PROVE SoFar("repl", n)' /\ (~Changing("repl", n)' => Agrees(n)')
    <3>1. Agrees(n)  BY <2>2, <1>2, <1>3, Zenon DEF RowOK, ReplSoFar
    <3>2. Agrees(n)'  BY <3>1, <1>8, SameAgrees, Zenon
    <3>3. ReplSoFar(n)'  BY <3>2, <1>5, <1>7, Zenon DEF ReplSoFar
    <3> QED  BY <3>2, <3>3, Zenon DEF SoFar
  <2> QED  BY <2>1, <2>2, Zenon DEF RowStep
<1>11. \A m \in FilterName : RowStep("repl", m)  BY <1>9, <1>10, Zenon
<1>12. w.at \in PlaceOf("repl") /\ w.at # "walk" /\ worker["repl"].at # "walk" /\ worker["repl"].at # "mark"
  BY <1>3, <1>5, Threads, Zenon
<1> QED  BY <1>1, <1>3, <1>4, <1>5, <1>11, <1>12, JobOK, Zenon

\* The write of a replication job.
LEMMA ReplRowOK ==
    ASSUME FiltersInv, ReplRow
    PROVE  FiltersInv'
<1>0. FilterTypes /\ RowsInv  BY Zenon DEF FiltersInv
<1>1. "repl" \in Job /\ "repl" \in FilterThread  BY FiniteThreads, Zenon
<1>2. PICK n \in FilterName : n = worker["repl"].n  BY <1>0, <1>1, WorkFields, Zenon
<1>3. PICK d \in Doc : d = worker["repl"].d  BY <1>0, <1>1, WorkFields, Zenon
<1>4. /\ worker["repl"].at = "row" /\ ~filterTxn
      /\ UNCHANGED <<filtersets, obj, uses, unmarked, late, started>>
  BY Zenon DEF ReplRow, WriteRow
<1>5. started' \in Int /\ filterRows \in [FilterName -> Doc] /\ causes \in [FilterName -> SUBSET Cause]
  BY <1>0, <1>4, Zenon DEF FilterTypes
<1>6. CASE filterRows' = [filterRows EXCEPT ![n] = d] /\ Go("repl", "end") /\ causes' = causes
  <2>1. PICK w : w = Stay("repl", "end")  BY Zenon
  <2>2. w \in Work /\ Does("repl", w) /\ w.at = "end" /\ w.n = n
    BY <2>1, <1>0, <1>1, <1>2, <1>6, GoTo, Zenon
  <2>3. worker'["repl"] = w  BY <2>2, <1>0, <1>1, Moves, Zenon
  <2>4. filterRows' \in [FilterName -> Doc] /\ filterRows'[n] = d /\ \A m \in FilterName \ {n} : SameSet(m)
    BY <1>0, <1>4, <1>6, RowWritten, Zenon
  <2>5. \A m \in FilterName \ {n} : RowStep("repl", m)
    BY <2>2, <2>3, <2>4, <1>2, Zenon DEF RowStep, Changing
  <2>6. RowStep("repl", n)
    <3>1. Changing("repl", n)  BY <1>2, <1>4, Zenon DEF Changing
    <3>2. ASSUME RowOK(n) PROVE SoFar("repl", n)' /\ (~Changing("repl", n)' => Agrees(n)')
      <4>1. Holding(n, d)  BY <3>2, <1>2, <1>3, <1>4, Zenon DEF RowOK, ReplSoFar
      <4>2. Agrees(n)'  BY <4>1, <2>4, <1>4, Zenon DEF Holding, Agrees, DocOf
      <4>3. ReplSoFar(n)'  BY <2>2, <2>3, <4>2, Zenon DEF ReplSoFar
      <4> QED  BY <4>2, <4>3, Zenon DEF SoFar
    <3> QED  BY <3>1, <3>2, Zenon DEF RowStep
  <2>7. \A m \in FilterName : RowStep("repl", m)  BY <2>5, <2>6, Zenon
  <2>8. w.at \in PlaceOf("repl") /\ w.at # "walk" /\ worker["repl"].at # "walk" /\ worker["repl"].at # "mark"
    BY <2>2, <1>4, Threads, Zenon
  <2> QED  BY <2>2, <2>4, <2>7, <2>8, <1>1, <1>4, <1>5, <1>6, JobOK, Zenon
<1>7. CASE Go("repl", "resize") /\ causes' = [causes EXCEPT ![n] = @ \cup {"full"}] /\ filterRows' = filterRows
  <2>1. PICK w : w = Stay("repl", "resize")  BY Zenon
  <2>2. w \in Work /\ Does("repl", w) /\ w.at = "resize" /\ w.n = n
    BY <2>1, <1>0, <1>1, <1>2, <1>7, GoTo, Zenon
  <2>3. worker'["repl"] = w  BY <2>2, <1>0, <1>1, Moves, Zenon
  <2>4. PICK C \in SUBSET Cause : C = {"full"}  BY Zenon DEF Cause
  <2>5. /\ causes' \in [FilterName -> SUBSET Cause]
        /\ \A m \in FilterName : causes'[m] = {} => causes[m] = {}
        /\ causes'[n] # {}
    BY <2>4, <1>5, <1>7, CauseAdded, Zenon
  <2>6. \A m \in FilterName : SameSet(m)  BY <1>4, <1>7, SameAll, Zenon
  <2>7. \A m \in FilterName : RowStep("repl", m)
    BY <2>2, <2>3, <2>5, <2>6, <1>2, Zenon DEF RowStep, Changing
  <2>8. w.at \in PlaceOf("repl") /\ w.at # "walk" /\ worker["repl"].at # "walk" /\ worker["repl"].at # "mark"
    BY <2>2, <1>4, Threads, Zenon
  <2> QED  BY <2>2, <2>5, <2>7, <2>8, <1>1, <1>4, <1>5, <1>7, JobOK, Zenon
<1> QED  BY <1>2, <1>3, <1>6, <1>7, Zenon DEF ReplRow, WriteRow

\* The resize of a replication job.
LEMMA ReplResizeOK ==
    ASSUME FiltersInv, Resize("repl", "end")
    PROVE  FiltersInv'
<1>0. FilterTypes /\ RowsInv  BY Zenon DEF FiltersInv
<1>1. "repl" \in Job /\ "repl" \in FilterThread  BY FiniteThreads, Zenon
<1>2. PICK n \in FilterName : n = worker["repl"].n  BY <1>0, <1>1, WorkFields, Zenon
<1>3. /\ worker["repl"].at = "resize" /\ Go("repl", "end")
      /\ UNCHANGED <<filterRows, filtersets, obj, leaked, uses, unmarked, causes, late, started>>
  BY Zenon DEF Resize
<1>4. started' \in Int /\ filterRows' \in [FilterName -> Doc] /\ causes' \in [FilterName -> SUBSET Cause]
  BY <1>0, <1>3, Zenon DEF FilterTypes
<1>5. PICK w : w = Stay("repl", "end")  BY Zenon
<1>6. w \in Work /\ Does("repl", w) /\ w.at = "end" /\ w.n = n
  BY <1>0, <1>1, <1>2, <1>3, <1>5, GoTo, Zenon
<1>7. worker'["repl"] = w  BY <1>6, <1>0, <1>1, Moves, Zenon
<1>8. \A m \in FilterName : SameSet(m)  BY <1>3, SameAll, Zenon
<1>9. Changing("repl", n) /\ ~RowOK(n)  BY <1>2, <1>3, Zenon DEF Changing, RowOK, ReplSoFar
<1>10. \A m \in FilterName : RowStep("repl", m)
  BY <1>2, <1>6, <1>7, <1>8, <1>9, Zenon DEF RowStep, Changing
<1>11. w.at \in PlaceOf("repl") /\ w.at # "walk" /\ worker["repl"].at # "walk" /\ worker["repl"].at # "mark"
  BY <1>3, <1>6, Threads, Zenon
<1> QED  BY <1>1, <1>3, <1>4, <1>6, <1>10, <1>11, JobOK, Zenon

\* The end of a replication job.
LEMMA ReplEndOK ==
    ASSUME FiltersInv, ReplEnd
    PROVE  FiltersInv'
<1>0. FilterTypes /\ RowsInv  BY Zenon DEF FiltersInv
<1>1. "repl" \in Job /\ "repl" \in FilterThread  BY FiniteThreads, Zenon
<1>2. PICK n \in FilterName : n = worker["repl"].n  BY <1>0, <1>1, WorkFields, Zenon
<1>3. /\ worker["repl"].at = "end" /\ Does("repl", Idle)
      /\ UNCHANGED <<filterRows, filtersets, obj, leaked, uses, unmarked, causes, late, started>>
  BY Zenon DEF ReplEnd, Done
<1>4. started' \in Int /\ filterRows' \in [FilterName -> Doc] /\ causes' \in [FilterName -> SUBSET Cause]
  BY <1>0, <1>3, Zenon DEF FilterTypes
<1>6. Idle \in Work /\ Idle.at = "idle"  BY IdleWork, Zenon
<1>7. worker'["repl"] = Idle  BY <1>3, <1>6, <1>0, <1>1, Moves, Zenon
<1>8. \A m \in FilterName : SameSet(m)  BY <1>3, SameAll, Zenon
<1>9. \A m \in FilterName \ {n} : RowStep("repl", m)
  BY <1>2, <1>6, <1>7, <1>8, Zenon DEF RowStep, Changing
<1>10. RowStep("repl", n)
  <2>1. Changing("repl", n)  BY <1>2, <1>3, Zenon DEF Changing
  <2>2. ASSUME RowOK(n) PROVE SoFar("repl", n)' /\ (~Changing("repl", n)' => Agrees(n)')
    <3>1. Agrees(n)  BY <2>2, <1>2, <1>3, Zenon DEF RowOK, ReplSoFar
    <3>2. Agrees(n)'  BY <3>1, <1>8, SameAgrees, Zenon
    <3>3. ReplSoFar(n)'  BY <1>6, <1>7, Zenon DEF ReplSoFar
    <3> QED  BY <3>2, <3>3, Zenon DEF SoFar
  <2> QED  BY <2>1, <2>2, Zenon DEF RowStep
<1>11. \A m \in FilterName : RowStep("repl", m)  BY <1>9, <1>10, Zenon
<1>12. Idle.at \in PlaceOf("repl") /\ Idle.at # "walk" /\ worker["repl"].at # "walk" /\ worker["repl"].at # "mark"
  BY <1>3, <1>6, Threads, Zenon
<1> QED  BY <1>1, <1>3, <1>4, <1>6, <1>11, <1>12, JobOK, Zenon

-----------------------------------------------------------------------------
(* Cull *)

\* The cull: the rows, the uses, the next name, the row of a name it removed.
LEMMA CullScanOK ==
    ASSUME FiltersInv, CullScan
    PROVE  FiltersInv'
<1>0. FilterTypes /\ RowsInv  BY Zenon DEF FiltersInv
<1>1. "cull" \in Job /\ "cull" \in FilterThread  BY FiniteThreads, Zenon
<1>2. PICK L \in SUBSET FilterName : L = {n \in FilterName \ KeptNames : filterRows[n] # Absent}  BY Zenon
<1>3. /\ worker["cull"].at = "idle" /\ started' = started + 1
      /\ Does("cull", Doing("uses", worker["cull"].n, Absent, 0, L))
      /\ UNCHANGED <<filterRows, filtersets, obj, leaked, uses, unmarked, causes, late>>
  BY <1>2, Zenon DEF CullScan, Begin
<1>4. started' \in Int /\ filterRows' \in [FilterName -> Doc] /\ causes' \in [FilterName -> SUBSET Cause]
  BY <1>0, <1>3 DEF FilterTypes
<1>5. PICK w : w = Doing("uses", worker["cull"].n, Absent, 0, L)  BY Zenon
<1>6. w \in Work /\ w.at = "uses"
  <2>1. w \in Work  BY <1>0, <1>1, <1>5, WorkFields, IdleWork, DoingWork, Zenon
  <2> QED  BY <2>1, <1>5, Zenon DEF Doing
<1>7. worker'["cull"] = w  BY <1>0, <1>1, <1>3, <1>5, <1>6, Moves, Zenon
<1>8. \A m \in FilterName : SameSet(m)  BY <1>3, SameAll, Zenon
<1>9. \A m \in FilterName : RowStep("cull", m)  BY <1>3, <1>6, <1>7, <1>8, Zenon DEF RowStep, Changing
<1>10. UsedInv'  BY <1>6, <1>7, Zenon DEF UsedInv
<1>11. w.at \in PlaceOf("cull") /\ w.at # "walk" /\ worker["cull"].at # "walk" /\ worker["cull"].at # "mark"
  BY <1>3, <1>6, Threads, Zenon
<1>12. Does("cull", w)  BY <1>3, <1>5, Zenon
<1> QED  BY <1>1, <1>3, <1>4, <1>6, <1>9, <1>10, <1>11, <1>12, JobOK, Zenon

\* The cull drops the names that checks refer to: from here on a name that is
\* left and in use was first used later.
LEMMA CullUsesOK ==
    ASSUME FiltersInv, CullUses
    PROVE  FiltersInv'
<1>0. FilterTypes /\ RowsInv  BY Zenon DEF FiltersInv
<1>1. "cull" \in Job /\ "cull" \in FilterThread  BY FiniteThreads, Zenon
<1>2. PICK L \in SUBSET FilterName :
        /\ L = IF worker["cull"].left \cap uses = {} THEN {} ELSE worker["cull"].left \ uses
        /\ L \cap uses = {}
  <2>1. PICK M \in SUBSET FilterName : M = worker["cull"].left  BY <1>0, <1>1, WorkFields, Zenon
  <2>2. CASE M \cap uses = {}  BY <2>1, <2>2, Zenon
  <2>3. CASE M \cap uses # {}
    <3>1. M \ uses \in SUBSET FilterName /\ (M \ uses) \cap uses = {}  BY Zenon
    <3> QED  BY <2>1, <2>3, <3>1, Zenon
  <2> QED  BY <2>2, <2>3, Zenon
<1>3. /\ worker["cull"].at = "uses"
      /\ Does("cull", Doing("next", worker["cull"].n, Absent, 0, L))
      /\ UNCHANGED <<filterRows, filtersets, obj, leaked, uses, unmarked, causes, late, started>>
  BY <1>2, Zenon DEF CullUses
<1>4. started' \in Int /\ filterRows' \in [FilterName -> Doc] /\ causes' \in [FilterName -> SUBSET Cause]
  BY <1>0, <1>3, Zenon DEF FilterTypes
<1>5. PICK w : w = Doing("next", worker["cull"].n, Absent, 0, L)  BY Zenon
<1>6. w \in Work /\ w.at = "next" /\ w.left = L
  <2>1. w \in Work  BY <1>0, <1>1, <1>5, WorkFields, IdleWork, DoingWork, Zenon
  <2> QED  BY <2>1, <1>5, Zenon DEF Doing
<1>7. worker'["cull"] = w  BY <1>0, <1>1, <1>3, <1>5, <1>6, Moves, Zenon
<1>8. \A m \in FilterName : SameSet(m)  BY <1>3, SameAll, Zenon
<1>9. \A m \in FilterName : RowStep("cull", m)  BY <1>3, <1>6, <1>7, <1>8, Zenon DEF RowStep, Changing
<1>10. UsedInv'  BY <1>2, <1>3, <1>6, <1>7, Zenon DEF UsedInv
<1>11. w.at \in PlaceOf("cull") /\ w.at # "walk" /\ worker["cull"].at # "walk" /\ worker["cull"].at # "mark"
  BY <1>3, <1>6, Threads, Zenon
<1>12. Does("cull", w)  BY <1>3, <1>5, Zenon
<1> QED  BY <1>1, <1>3, <1>4, <1>6, <1>9, <1>10, <1>11, <1>12, JobOK, Zenon

\* The cull takes the next name.
LEMMA CullNextOK ==
    ASSUME FiltersInv, CullNext
    PROVE  FiltersInv'
<1>0. FilterTypes /\ RowsInv /\ UsedInv  BY Zenon DEF FiltersInv
<1>1. "cull" \in Job /\ "cull" \in FilterThread  BY FiniteThreads, Zenon
<1>2. PICK n \in worker["cull"].left, at \in {"remove", "next"} :
        /\ Does("cull", Doing(at, n, Absent, 0, worker["cull"].left \ {n}))
        /\ causes' = IF at = "remove" THEN Overlapping("cull", {n}) ELSE causes
  <2>1. PICK n \in worker["cull"].left :
           LET timedout == filtersets[n] # 0 /\ obj[filtersets[n]].idle IN
           /\ Does("cull", Doing(IF timedout THEN "remove" ELSE "next", n, Absent, 0, worker["cull"].left \ {n}))
           /\ causes' = IF timedout THEN Overlapping("cull", {n}) ELSE causes
    BY Zenon DEF CullNext
  <2>2. CASE filtersets[n] # 0 /\ obj[filtersets[n]].idle  BY <2>1, <2>2, Zenon
  <2>3. CASE ~(filtersets[n] # 0 /\ obj[filtersets[n]].idle)  BY <2>1, <2>3, Zenon
  <2> QED  BY <2>2, <2>3, Zenon
<1>3. /\ worker["cull"].at = "next"
      /\ UNCHANGED <<filterRows, filtersets, obj, leaked, uses, unmarked, late, started>>
  BY Zenon DEF CullNext
<1>4. n \in FilterName /\ started' \in Int /\ filterRows' \in [FilterName -> Doc]
  BY <1>0, <1>1, <1>3, WorkFields, Zenon DEF FilterTypes
<1>5. PICK w : w = Doing(at, n, Absent, 0, worker["cull"].left \ {n})  BY Zenon
<1>6. w \in Work /\ w.at = at /\ w.n = n /\ w.left = worker["cull"].left \ {n}
  <2>1. worker["cull"].left \ {n} \in SUBSET FilterName  BY <1>0, <1>1, WorkFields, Zenon
  <2>2. w \in Work  BY <1>4, <1>5, <2>1, IdleWork, DoingWork, Zenon
  <2> QED  BY <2>2, <1>5, Zenon DEF Doing
<1>7. worker'["cull"] = w  BY <1>0, <1>1, <1>2, <1>5, <1>6, Moves, Zenon
<1>8. \A m \in FilterName : SameSet(m)  BY <1>3, SameAll, Zenon
<1>9. \A m \in FilterName : ~Changing("cull", m)  BY <1>3, Zenon DEF Changing
<1>10. UsedInv'  BY <1>0, <1>3, <1>6, <1>7, Zenon DEF UsedInv
<1>11. w.at \in PlaceOf("cull") /\ w.at # "walk" /\ worker["cull"].at # "walk" /\ worker["cull"].at # "mark"
  BY <1>3, <1>6, Threads, Zenon
<1>12. Does("cull", w)  BY <1>2, <1>5, Zenon
<1>13. CASE at = "next"
  <2>1. \A m \in FilterName : RowStep("cull", m)  BY <1>6, <1>7, <1>8, <1>9, <1>13, Zenon DEF RowStep, Changing
  <2>2. causes' = causes /\ causes' \in [FilterName -> SUBSET Cause]  BY <1>0, <1>2, <1>13, Zenon DEF FilterTypes
  <2> QED  BY <2>1, <2>2, <1>1, <1>3, <1>4, <1>6, <1>10, <1>11, <1>12, JobOK, Zenon
<1>14. CASE at = "remove"
  <2>1. causes' = Overlapping("cull", {n})  BY <1>2, <1>14, Zenon
  <2>2. /\ causes' \in [FilterName -> SUBSET Cause]
        /\ \A m \in FilterName : causes'[m] = {} => causes[m] = {}
        /\ causes'[n] = {} => \A u \in Job \ {"cull"} : ~Changing(u, n)
    <3>1. {n} \in SUBSET FilterName  BY <1>4, Zenon
    <3>2. /\ Overlapping("cull", {n}) \in [FilterName -> SUBSET Cause]
          /\ \A m \in FilterName : Overlapping("cull", {n})[m] = {} => causes[m] = {}
          /\ \A m \in {n} : Overlapping("cull", {n})[m] = {} => \A u \in Job \ {"cull"} : ~Changing(u, m)
      BY <1>0, <3>1, Overlaps, Zenon
    <3> QED  BY <2>1, <3>2, Zenon
  <2>3. \A m \in FilterName \ {n} : RowStep("cull", m)  BY <1>6, <1>7, <1>8, <1>9, Zenon DEF RowStep, Changing
  <2>4. RowStep("cull", n)
    <3>1. ASSUME RowOK(n), \A u \in Job \ {"cull"} : ~Changing(u, n)
          PROVE  SoFar("cull", n)' /\ (~Changing("cull", n)' => Agrees(n)')
      <4>1. \A u \in Job : ~Changing(u, n)  BY <3>1, <1>4, <1>9, Zenon
      <4>2. Agrees(n)'  BY <3>1, <4>1, <1>4, <1>8, SameAgrees, Zenon DEF RowOK
      <4>3. CullSoFar(n)'  BY <4>2, <1>6, <1>7, <1>14, Zenon DEF CullSoFar
      <4> QED  BY <4>2, <4>3, Zenon DEF SoFar
    <3> QED  BY <3>1, <2>2, Zenon DEF RowStep
  <2>5. \A m \in FilterName : RowStep("cull", m)  BY <2>3, <2>4, Zenon
  <2> QED  BY <2>2, <2>5, <1>1, <1>3, <1>4, <1>6, <1>10, <1>11, <1>12, JobOK, Zenon
<1> QED  BY <1>13, <1>14, Zenon

\* The cull removes the row of the name it took out of the table.
LEMMA CullRowOK ==
    ASSUME FiltersInv, CullRow
    PROVE  FiltersInv'
<1>0. FilterTypes /\ RowsInv /\ UsedInv  BY Zenon DEF FiltersInv
<1>1. "cull" \in Job /\ "cull" \in FilterThread  BY FiniteThreads, Zenon
<1>2. PICK n \in FilterName : n = worker["cull"].n  BY <1>0, <1>1, WorkFields, Zenon
<1>3. /\ worker["cull"].at = "row" /\ ~filterTxn
      /\ filterRows' = [filterRows EXCEPT ![n] = Absent]
      /\ Go("cull", "next")
      /\ UNCHANGED <<filtersets, obj, leaked, uses, unmarked, causes, late, started>>
  BY <1>2, Zenon DEF CullRow
<1>4. started' \in Int /\ causes' \in [FilterName -> SUBSET Cause]  BY <1>0, <1>3, Zenon DEF FilterTypes
<1>5. PICK w : w = Stay("cull", "next")  BY Zenon
<1>6. w \in Work /\ Does("cull", w) /\ w.at = "next" /\ w.n = n /\ w.left = worker["cull"].left
  BY <1>0, <1>1, <1>2, <1>3, <1>5, GoTo
<1>7. worker'["cull"] = w  BY <1>0, <1>1, <1>6, Moves, Zenon
<1>8. filterRows' \in [FilterName -> Doc] /\ filterRows'[n] = Absent /\ \A m \in FilterName \ {n} : SameSet(m)
  BY <1>0, <1>3, IdleWork, RowWritten, Zenon
<1>9. \A m \in FilterName \ {n} : RowStep("cull", m)  BY <1>2, <1>6, <1>7, <1>8, Zenon DEF RowStep, Changing
<1>10. RowStep("cull", n)
  <2>1. Changing("cull", n)  BY <1>2, <1>3, Zenon DEF Changing
  <2>2. ASSUME RowOK(n) PROVE SoFar("cull", n)' /\ (~Changing("cull", n)' => Agrees(n)')
    <3>1. filtersets[n] = 0  BY <2>2, <1>2, <1>3, Zenon DEF RowOK, CullSoFar
    <3>2. Agrees(n)'  BY <3>1, <1>3, <1>8, Zenon DEF Agrees
    <3>3. CullSoFar(n)'  BY <1>6, <1>7, Zenon DEF CullSoFar
    <3> QED  BY <3>2, <3>3, Zenon DEF SoFar
  <2> QED  BY <2>1, <2>2, Zenon DEF RowStep
<1>11. \A m \in FilterName : RowStep("cull", m)  BY <1>9, <1>10, Zenon
<1>12. UsedInv'  BY <1>0, <1>3, <1>6, <1>7, Zenon DEF UsedInv
<1>13. w.at \in PlaceOf("cull") /\ w.at # "walk" /\ worker["cull"].at # "walk" /\ worker["cull"].at # "mark"
  BY <1>3, <1>6, Threads, Zenon
<1> QED  BY <1>1, <1>3, <1>4, <1>6, <1>8, <1>11, <1>12, <1>13, JobOK, Zenon

\* The end of a cull.
LEMMA CullEndOK ==
    ASSUME FiltersInv, CullEnd
    PROVE  FiltersInv'
<1>0. FilterTypes /\ RowsInv  BY Zenon DEF FiltersInv
<1>1. "cull" \in Job /\ "cull" \in FilterThread  BY FiniteThreads, Zenon
<1>3. /\ worker["cull"].at = "next" /\ Does("cull", Idle)
      /\ UNCHANGED <<filterRows, filtersets, obj, leaked, uses, unmarked, causes, started>>
  BY Zenon DEF CullEnd, Done
<1>4. started' \in Int /\ filterRows' \in [FilterName -> Doc] /\ causes' \in [FilterName -> SUBSET Cause]
  BY <1>0, <1>3, Zenon DEF FilterTypes
<1>6. Idle \in Work /\ Idle.at = "idle"  BY IdleWork, Zenon
<1>7. worker'["cull"] = Idle  BY <1>3, <1>6, <1>0, <1>1, Moves, Zenon
<1>8. \A m \in FilterName : SameSet(m)  BY <1>3, SameAll, Zenon
<1>10. \A m \in FilterName : RowStep("cull", m)
  BY <1>3, <1>6, <1>7, <1>8, Zenon DEF RowStep, Changing
<1>11. Idle.at \in PlaceOf("cull") /\ Idle.at # "walk" /\ worker["cull"].at # "walk" /\ worker["cull"].at # "mark"
  BY <1>3, <1>6, Threads, Zenon
<1>12. UsedInv'  BY <1>6, <1>7, Zenon DEF UsedInv
<1> QED  BY <1>1, <1>3, <1>4, <1>6, <1>10, <1>11, <1>12, JobOK, Zenon

\* noit_filter_remove_from_name: the table entry goes with its reference, and
\* whoever walks the rules keeps the object.
LEMMA CullRemoveOK ==
    ASSUME FiltersInv, CullRemove
    PROVE  FiltersInv'
<1>0. FilterTypes /\ Places /\ Pointers /\ RefsExact /\ ChangesMarked /\ RowsInv /\ UsedInv  BY Zenon DEF FiltersInv
<1>1. "cull" \in Job /\ "cull" \in FilterThread  BY FiniteThreads, Zenon
<1>2. PICK n \in FilterName : n = worker["cull"].n  BY <1>0, <1>1, WorkFields, Zenon
<1>3. /\ worker["cull"].at = "remove"
      /\ UNCHANGED <<filterRows, leaked, uses, unmarked, causes, late, started>>
  BY Zenon DEF CullRemove
<1>4. started' \in Int /\ filterRows' \in [FilterName -> Doc] /\ causes' \in [FilterName -> SUBSET Cause]
  BY <1>0, <1>3, Zenon DEF FilterTypes
<1>5. Changing("cull", n)  BY Zenon, <1>2, <1>3 DEF Changing
<1>6. CASE filtersets[n] = 0
  <2>1. Go("cull", "next") /\ UNCHANGED <<filtersets, obj>>  BY <1>2, <1>6, Zenon DEF CullRemove
  <2>2. PICK w : w = Stay("cull", "next")  BY Zenon
  <2>3. w \in Work /\ Does("cull", w) /\ w.at = "next" /\ w.n = n /\ w.left = worker["cull"].left
    BY <1>0, <1>1, <1>2, <2>1, <2>2, GoTo, Zenon
  <2>4. worker'["cull"] = w  BY <1>0, <1>1, <2>3, Moves, Zenon
  <2>5. \A m \in FilterName : SameSet(m)  BY <1>3, <2>1, SameAll, Zenon
  <2>6. \A m \in FilterName \ {n} : RowStep("cull", m)  BY <1>2, <2>3, <2>4, <2>5, Zenon DEF RowStep, Changing
  <2>7. RowStep("cull", n)
    <3>1. ASSUME RowOK(n) PROVE SoFar("cull", n)' /\ (~Changing("cull", n)' => Agrees(n)')
      <4>1. Agrees(n)  BY <3>1, <1>2, <1>3, Zenon DEF RowOK, CullSoFar
      <4>2. Agrees(n)'  BY <4>1, <2>5, SameAgrees, Zenon
      <4>3. CullSoFar(n)'  BY <2>3, <2>4, Zenon DEF CullSoFar
      <4> QED  BY <4>2, <4>3, Zenon DEF SoFar
    <3> QED  BY <3>1, <1>5, Zenon DEF RowStep
  <2>8. \A m \in FilterName : RowStep("cull", m)  BY <2>6, <2>7, Zenon
  <2>9. UsedInv'  BY <1>0, <1>3, <2>3, <2>4, Zenon DEF UsedInv
  <2>10. w.at \in PlaceOf("cull") /\ w.at # "walk" /\ worker["cull"].at # "walk" /\ worker["cull"].at # "mark"
    BY <1>3, <2>3, Threads, Zenon
  <2> QED  BY <1>1, <1>3, <1>4, <2>1, <2>3, <2>8, <2>9, <2>10, JobOK, Zenon
<1>7. CASE filtersets[n] # 0
  <2>1. RemoveFromName(n) /\ Go("cull", "row")  BY <1>2, <1>7, Zenon DEF CullRemove
  <2>2. PICK w : w = Stay("cull", "row")  BY Zenon
  <2>3. w \in Work /\ Does("cull", w) /\ w.at = "row" /\ w.n = n /\ w.left = worker["cull"].left
    BY <1>0, <1>1, <1>2, <2>1, <2>2, GoTo, Zenon
  <2>4. /\ worker' \in [FilterThread -> Work] /\ worker'["cull"] = w
        /\ \A u \in FilterThread \ {"cull"} : worker'[u] = worker[u]
    BY <1>0, <1>1, <2>3, Moves, Zenon
  <2>5. FilterTypes'
    <3>1. obj' \in Seq(Object)  BY <1>0, <2>1, FreeOne, Zenon DEF RemoveFromName, FilterTypes
    <3>2. filtersets' \in [FilterName -> Nat]  BY <1>0, <2>1, Zenon DEF RemoveFromName, FilterTypes
    <3> QED  BY <3>1, <3>2, <2>4, <1>0, <1>3, <1>4, Zenon DEF FilterTypes
  <2>6. Places'
    <3>1. w.at \in PlaceOf("cull")  BY <2>3, Threads, Zenon
    <3> QED  BY <3>1, <2>4, <1>0, Zenon DEF Places
  <2>7. \A t \in FilterThread : worker'[t].at = "walk" <=> worker[t].at = "walk"  BY <1>3, <2>3, <2>4, Zenon
  <2>8. \A t \in FilterThread : worker[t].at = "walk" => worker'[t].o = worker[t].o  BY <1>3, <2>4, Zenon
  <2>9. /\ Pointers' /\ RefsExact'
        /\ filtersets'[n] = 0
        /\ \A m \in FilterName \ {n} :
             /\ filtersets'[m] = filtersets[m]
             /\ filtersets[m] # 0 => /\ obj'[filtersets[m]].seq = obj[filtersets[m]].seq
                                     /\ obj'[filtersets[m]].doc = obj[filtersets[m]].doc
    BY <1>0, <1>7, <2>1, <2>5, <2>7, <2>8, RefRemoved, Zenon
  <2>10. ChangesMarked'
    <3>1. \A m \in unmarked : m \in FilterName  BY <1>0, Zenon DEF FilterTypes
    <3> QED  BY <3>1, <1>0, <1>3, <2>4, <2>9, FiniteThreads DEF ChangesMarked
  <2>11. UsedInv'  BY <1>0, <1>3, <2>3, <2>4, Zenon DEF UsedInv
  <2>12. \A m \in FilterName \ {n} : RowStep("cull", m)
    BY <1>2, <1>3, <2>3, <2>4, <2>9, Zenon DEF RowStep, Changing, SameSet
  <2>13. RowStep("cull", n)
    <3>1. CullSoFar(n)'  BY <2>3, <2>4, <2>9, Zenon DEF CullSoFar
    <3>2. Changing("cull", n)'  BY <2>3, <2>4, Zenon DEF Changing
    <3> QED  BY <3>1, <3>2, <1>5, Zenon DEF RowStep, SoFar
  <2>14. \A m \in FilterName : RowStep("cull", m)  BY <2>12, <2>13, Zenon
  <2>15. worker'["console"] = worker["console"]  BY <2>4, FiniteThreads, Zenon
  <2>16. worker'["console"].at = "compile" => worker'["console"].d = filterRows'[worker'["console"].n]
    BY <1>0, <1>3, <2>15, ConsoleKept, Zenon
  <2>17. RowsInv'  BY <1>0, <1>1, <1>3, <2>4, <2>6, <2>14, <2>16, RowsStep, Zenon
  <2> QED  BY <2>5, <2>6, <2>9, <2>10, <2>11, <2>17, Zenon DEF FiltersInv
<1> QED  BY <1>6, <1>7, Zenon

-----------------------------------------------------------------------------
(* Putting a set into the table *)

\* The table's objects are not freed ones.
LEMMA TableAlive ==
    ASSUME FilterTypes, Pointers, RefsExact, NEW n \in FilterName, filtersets[n] # 0
    PROVE  filtersets[n] \in 1 .. Len(obj) /\ ~Freed(filtersets[n])
<1>0. filtersets[n] \in Nat /\ filtersets[n] <= Len(obj) /\ Len(obj) \in Nat  BY DEF FilterTypes, Pointers
<1>1. PICK p \in 1 .. Len(obj) : p = filtersets[n]  BY <1>0
<1>2. obj[p].ref_cnt = Cardinality(Held(p)) + Cardinality(Walkers(p))  BY RefsByObject, Zenon
<1>3. Held(p) # {}  BY <1>1, Zenon DEF Held
<1>4. obj[p].ref_cnt # 0  BY SMTT(30), <1>2, <1>3, HoldersCount
<1> QED  BY <1>1, <1>4, DeadObject, Zenon DEF Freed

\* noit_filter_compile_add, for the name and the document that a job has at hand.
LEMMA CompileStep ==
    ASSUME FiltersInv, NEW t \in Job, t # "cull", NEW next \in PlaceOf(t), next # "walk", next # "mark",
           "mark" \in PlaceOf(t), NEW n \in FilterName, NEW d \in Doc,
           worker[t].at = "compile", n = worker[t].n, d = worker[t].d,
           CompileAdd(t, n, d, next), UNCHANGED <<filterRows, uses, causes, late, started>>
    PROVE  /\ FilterTypes' /\ Places' /\ Pointers' /\ RefsExact' /\ ChangesMarked' /\ UsedInv'
           /\ \A u \in FilterThread \ {t} : worker'[u] = worker[u]
           /\ worker'[t].n = n /\ worker'[t].d = d
           /\ \A m \in FilterName \ {n} : SameSet(m)
           /\ \/ /\ filtersets[n] # 0 /\ obj[filtersets[n]].seq >= d.seq
                 /\ SameSet(n) /\ worker'[t].at = next
              \/ /\ ~(filtersets[n] # 0 /\ obj[filtersets[n]].seq >= d.seq)
                 /\ filtersets'[n] # 0 /\ worker'[t].at = "mark"
                 /\ obj'[filtersets'[n]].seq = d.seq /\ obj'[filtersets'[n]].doc = d.doc
<1>0. FilterTypes /\ Places /\ Pointers /\ RefsExact /\ ChangesMarked /\ RowsInv /\ UsedInv  BY Zenon DEF FiltersInv
<1>1. t \in FilterThread /\ worker[t] \in Work /\ worker[t].left \in SUBSET FilterName
  BY <1>0, FiniteThreads, WorkFields, Zenon
<1>2. obj \in Seq(Object) /\ Len(obj) \in Nat /\ Len(obj) + 1 \in Nat  BY <1>0 DEF FilterTypes
<1>3. PICK os \in Seq(Object) :
        /\ os = IF filtersets[n] = 0 THEN obj ELSE [obj EXCEPT ![filtersets[n]].idle = FALSE]
        /\ Touched(os)
  <2>1. CASE filtersets[n] = 0  BY <1>2, <2>1, Zenon DEF Touched
  <2>2. CASE filtersets[n] # 0
    <3>1. PICK p \in 1 .. Len(obj) : p = filtersets[n]  BY <1>0, <2>2, TableAlive, Zenon
    <3>2. PICK ps : ps = [obj EXCEPT ![p].idle = FALSE]  BY Zenon
    <3>3. /\ ps \in Seq(Object) /\ Len(ps) = Len(obj)
          /\ \A o \in 1 .. Len(obj) : ps[o].seq = obj[o].seq /\ ps[o].doc = obj[o].doc /\ ps[o].ref_cnt = obj[o].ref_cnt
      <4>1. LET qs == [obj EXCEPT ![p].idle = FALSE] IN
            /\ qs \in Seq(Object) /\ Len(qs) = Len(obj)
            /\ \A o \in 1 .. Len(obj) : qs[o].seq = obj[o].seq /\ qs[o].doc = obj[o].doc /\ qs[o].ref_cnt = obj[o].ref_cnt
        BY <1>2, TouchOne, Zenon
      <4> QED  BY <3>2, <4>1, Zenon
    <3> QED  BY <2>2, <3>1, <3>2, <3>3, Zenon DEF Touched
  <2> QED  BY <2>1, <2>2, Zenon
<1>4. PICK at \in {next, "mark"} : Does(t, Doing(at, n, d, Len(obj) + 1, worker[t].left))
                                  /\ (at = next <=> filtersets[n] # 0 /\ obj[filtersets[n]].seq >= d.seq)
  BY Zenon DEF CompileAdd
<1>5. at \in PlaceOf(t) /\ at # "walk"  BY <1>4, Zenon
<1>6. PICK w : w = Doing(at, n, d, Len(obj) + 1, worker[t].left)  BY Zenon
<1>7. w \in Work /\ w.at = at /\ w.n = n /\ w.d = d /\ w.o = Len(obj) + 1
  <2>1. at \in {"idle", "row", "resize", "compile", "mark", "show", "seq", "end", "uses", "next",
                       "remove", "load", "walk"}
    BY <1>5, Zenon DEF PlaceOf
  <2>2. w \in Work  BY <2>1, <1>1, <1>2, <1>6, DoingWork, Zenon
  <2> QED  BY <2>2, <1>6, Zenon DEF Doing
<1>8. /\ worker' \in [FilterThread -> Work] /\ worker'[t] = w
      /\ \A u \in FilterThread \ {t} : worker'[u] = worker[u]
  BY <1>0, <1>1, <1>4, <1>6, <1>7, Moves, Zenon
<1>9. Places'  BY <1>0, <1>5, <1>7, <1>8, Zenon DEF Places
<1>10. \A u \in FilterThread : worker'[u].at = "walk" <=> worker[u].at = "walk"  BY <1>5, <1>7, <1>8, Zenon
<1>11. \A u \in FilterThread : worker[u].at = "walk" => worker'[u].o = worker[u].o  BY <1>8, Zenon
<1>12. UsedInv'
  <2>1. worker'["cull"] = worker["cull"]  BY <1>8, FiniteThreads, Zenon
  <2> QED  BY <2>1, <1>0, Zenon DEF UsedInv
<1>13. \A m \in unmarked : m \in FilterName  BY Zenon, <1>0 DEF FilterTypes
<1>14. CASE filtersets[n] # 0 /\ obj[filtersets[n]].seq >= d.seq
  <2>1. obj' = Append(os, Dead) /\ UNCHANGED <<filtersets, unmarked>>  BY <1>3, <1>14, Zenon DEF CompileAdd
  <2>2. FilterTypes'
    <3>1. obj' \in Seq(Object)  BY <2>1, Appended, DeadObject, Zenon
    <3> QED  BY <3>1, <2>1, <1>0, <1>8, Zenon DEF FilterTypes
  <2>3. /\ Pointers' /\ RefsExact'
        /\ \A m \in FilterName :
             filtersets[m] # 0 => /\ obj'[filtersets[m]].seq = obj[filtersets[m]].seq
                                  /\ obj'[filtersets[m]].doc = obj[filtersets[m]].doc
    BY Zenon, <1>0, <1>3, <1>10, <1>11, <2>1, <2>2, RefUnused
  <2>4. \A m \in FilterName : SameSet(m)  BY <2>1, <2>3, Zenon DEF SameSet
  <2>5. ChangesMarked'  BY <1>0, <1>8, <2>1, FiniteThreads DEF ChangesMarked
  <2> QED  BY Zenon, <1>4, <1>7, <1>8, <1>9, <1>12, <1>14, <2>2, <2>3, <2>4, <2>5
<1>15. CASE ~(filtersets[n] # 0 /\ obj[filtersets[n]].seq >= d.seq)
  <2>1. PICK x : x = [seq |-> d.seq, doc |-> d.doc, ref_cnt |-> 1, idle |-> FALSE]  BY Zenon
  <2>2. x \in Object /\ x.ref_cnt = 1 /\ x.seq = d.seq /\ x.doc = d.doc
    <3>1. d.seq \in Int /\ d.doc \in Int  BY Zenon DEF Doc
    <3> QED  BY <2>1, <3>1 DEF Object
  <2>3. /\ obj' = Append(Free(os, filtersets[n]), x)
        /\ filtersets' = [filtersets EXCEPT ![n] = Len(obj) + 1]
        /\ unmarked' = unmarked \cup {n}
    BY Zenon, <1>3, <1>15, <2>1 DEF CompileAdd
  <2>4. FilterTypes'
    <3>1. PICK fs \in Seq(Object) : fs = Free(os, filtersets[n])  BY FreeOne, Zenon
    <3>2. obj' \in Seq(Object)  BY <2>2, <2>3, <3>1, Appended, Zenon
    <3>3. filtersets' \in [FilterName -> Nat]  BY <1>0, <1>2, <2>3, Zenon DEF FilterTypes
    <3>4. unmarked' \subseteq FilterName  BY <1>0, <2>3, ZenonT(30) DEF FilterTypes
    <3> QED  BY <3>2, <3>3, <3>4, <1>0, <1>8, Zenon DEF FilterTypes
  <2>5. /\ Pointers' /\ RefsExact'
        /\ filtersets'[n] = Len(obj) + 1 /\ obj'[Len(obj) + 1] = x
        /\ \A m \in FilterName \ {n} :
             /\ filtersets'[m] = filtersets[m]
             /\ filtersets[m] # 0 => /\ obj'[filtersets[m]].seq = obj[filtersets[m]].seq
                                     /\ obj'[filtersets[m]].doc = obj[filtersets[m]].doc
    <3>1. Replaced(os, n, x)  BY <2>3, Zenon DEF Replaced
    <3> QED  BY <3>1, <1>0, <1>3, <1>10, <1>11, <2>2, <2>4, RefReplaced, Zenon DEF OthersKept
  <2>6. \A m \in FilterName \ {n} : SameSet(m)  BY <2>5, Zenon DEF SameSet
  <2>7. at = "mark"  BY <1>4, <1>15, Zenon
  <2>8. ChangesMarked'
    <3>1. ASSUME NEW m \in unmarked', filtersets'[m] # 0
          PROVE  \E u \in Job : worker'[u].at = "mark" /\ worker'[u].n = m /\ worker'[u].o = filtersets'[m]
      <4>1. CASE m = n  BY <4>1, <1>7, <1>8, <2>5, <2>7, Zenon
      <4>2. CASE m # n
        <5>1. m \in unmarked /\ m \in FilterName  BY <4>2, <2>3, <1>13, Zenon
        <5>2. filtersets'[m] = filtersets[m]  BY <4>2, <5>1, <2>5, Zenon
        <5>3. PICK u \in Job : worker[u].at = "mark" /\ worker[u].n = m /\ worker[u].o = filtersets[m]
          BY <3>1, <5>1, <5>2, <1>0, Zenon DEF ChangesMarked
        <5>4. worker'[u] = worker[u]  BY <5>3, <1>8, FiniteThreads, Zenon
        <5> QED  BY <5>2, <5>3, <5>4, Zenon
      <4> QED  BY <4>1, <4>2, Zenon
    <3> QED  BY <3>1, Zenon DEF ChangesMarked
  <2>9. filtersets'[n] # 0  BY <1>2, <2>5
  <2> QED  BY <1>7, <1>8, <1>9, <1>12, <1>15, <2>2, <2>4, <2>5, <2>6, <2>7, <2>8, <2>9, Zenon
<1> QED  BY <1>14, <1>15, Zenon

\* The set job puts its document in the table.
LEMMA SetCompileOK ==
    ASSUME FiltersInv, SetCompile
    PROVE  FiltersInv'
<1>0. FilterTypes /\ RowsInv  BY Zenon DEF FiltersInv
<1>1. "set" \in Job /\ "set" \in FilterThread /\ "show" \in PlaceOf("set") /\ "mark" \in PlaceOf("set")
  BY FiniteThreads, Threads, Zenon
<1>2. PICK n \in FilterName, d \in Doc : n = worker["set"].n /\ d = worker["set"].d  BY <1>0, <1>1, WorkFields, Zenon
<1>3. /\ worker["set"].at = "compile" /\ CompileAdd("set", n, d, "show")
      /\ UNCHANGED <<filterRows, leaked, uses, causes, late, started>>
  BY <1>2, Zenon DEF SetCompile
<1>4. /\ FilterTypes' /\ Places' /\ Pointers' /\ RefsExact' /\ ChangesMarked' /\ UsedInv'
      /\ \A u \in FilterThread \ {"set"} : worker'[u] = worker[u]
      /\ worker'["set"].n = n /\ worker'["set"].d = d
      /\ \A m \in FilterName \ {n} : SameSet(m)
      /\ \/ /\ filtersets[n] # 0 /\ obj[filtersets[n]].seq >= d.seq
            /\ SameSet(n) /\ worker'["set"].at = "show"
         \/ /\ ~(filtersets[n] # 0 /\ obj[filtersets[n]].seq >= d.seq)
            /\ filtersets'[n] # 0 /\ worker'["set"].at = "mark"
            /\ obj'[filtersets'[n]].seq = d.seq /\ obj'[filtersets'[n]].doc = d.doc
  BY SMTT(30), <1>1, <1>2, <1>3, CompileStep
<1>5. \A m \in FilterName \ {n} : RowStep("set", m)  BY <1>2, <1>4, Zenon DEF RowStep, Changing
<1>6. RowStep("set", n)
  <2>1. Changing("set", n)  BY <1>2, <1>3, Zenon DEF Changing
  <2>2. ASSUME RowOK(n) PROVE SoFar("set", n)' /\ (~Changing("set", n)' => Agrees(n)')
    <3>1. filterRows[n] = d /\ Older(n, d)  BY <2>2, <1>2, <1>3, Zenon DEF RowOK, SetSoFar
    <3>2. ~(filtersets[n] # 0 /\ obj[filtersets[n]].seq >= d.seq)
      <4>1. ASSUME filtersets[n] # 0 PROVE ~(obj[filtersets[n]].seq >= d.seq)
        <5>1. PICK p \in 1 .. Len(obj) : p = filtersets[n]  BY <4>1, TableAlive, Zenon DEF FiltersInv
        <5>2. obj[p].seq \in Int /\ d.seq \in Int
          <6>1. obj[p] \in Object  BY <1>0 DEF FilterTypes
          <6> QED  BY <6>1, Zenon DEF Object, Doc
        <5>3. obj[p].seq < d.seq  BY <3>1, <4>1, <5>1, Zenon DEF Older
        <5> QED  BY <5>1, <5>2, <5>3
      <4> QED  BY <4>1, Zenon
    <3>3. /\ filtersets'[n] # 0 /\ worker'["set"].at = "mark"
          /\ obj'[filtersets'[n]].seq = d.seq /\ obj'[filtersets'[n]].doc = d.doc
      BY <1>4, <3>2, Zenon
    <3>4. d = [seq |-> d.seq, doc |-> d.doc]  BY Zenon DEF Doc
    <3>5. Agrees(n)'  BY <1>3, <3>1, <3>3, <3>4, Zenon DEF Agrees, DocOf
    <3>6. SetSoFar(n)'  BY <3>3, <3>5, Zenon DEF SetSoFar
    <3> QED  BY Zenon, <3>5, <3>6 DEF SoFar
  <2> QED  BY <2>1, <2>2, Zenon DEF RowStep
<1>7. \A m \in FilterName : RowStep("set", m)  BY <1>5, <1>6, Zenon
<1>8. worker'["console"] = worker["console"]  BY <1>4, FiniteThreads, Zenon
<1>9. worker'["console"].at = "compile" => worker'["console"].d = filterRows'[worker'["console"].n]
  BY Zenon, <1>0, <1>3, <1>8, ConsoleKept
<1>10. RowsInv'  BY <1>0, <1>1, <1>3, <1>4, <1>7, <1>9, RowsStep, Zenon
<1> QED  BY <1>4, <1>10, Zenon DEF FiltersInv

\* The replication job does.
LEMMA ReplCompileOK ==
    ASSUME FiltersInv, ReplCompile
    PROVE  FiltersInv'
<1>0. FilterTypes /\ RowsInv  BY Zenon DEF FiltersInv
<1>1. "repl" \in Job /\ "repl" \in FilterThread /\ "end" \in PlaceOf("repl") /\ "mark" \in PlaceOf("repl")
  BY FiniteThreads, Threads, Zenon
<1>2. PICK n \in FilterName, d \in Doc : n = worker["repl"].n /\ d = worker["repl"].d  BY <1>0, <1>1, WorkFields, Zenon
<1>3. /\ worker["repl"].at = "compile" /\ CompileAdd("repl", n, d, "end")
      /\ UNCHANGED <<filterRows, leaked, uses, causes, late, started>>
  BY Zenon, <1>2 DEF ReplCompile
<1>4. /\ FilterTypes' /\ Places' /\ Pointers' /\ RefsExact' /\ ChangesMarked' /\ UsedInv'
      /\ \A u \in FilterThread \ {"repl"} : worker'[u] = worker[u]
      /\ worker'["repl"].n = n /\ worker'["repl"].d = d
      /\ \A m \in FilterName \ {n} : SameSet(m)
      /\ \/ SameSet(n) /\ worker'["repl"].at = "end"
         \/ /\ filtersets'[n] # 0 /\ worker'["repl"].at = "mark"
            /\ obj'[filtersets'[n]].seq = d.seq /\ obj'[filtersets'[n]].doc = d.doc
  BY SMTT(30), <1>1, <1>2, <1>3, CompileStep
<1>5. \A m \in FilterName \ {n} : RowStep("repl", m)  BY <1>2, <1>4, Zenon DEF RowStep, Changing
<1>6. RowStep("repl", n)
  <2>1. Changing("repl", n)  BY Zenon, <1>2, <1>3 DEF Changing
  <2>2. Changing("repl", n)'  BY <1>4, Zenon DEF Changing
  <2>3. ASSUME RowOK(n) PROVE ReplSoFar(n)'
    <3>1. Agrees(n)  BY <2>3, <1>2, <1>3, Zenon DEF RowOK, ReplSoFar
    <3>2. CASE SameSet(n) /\ worker'["repl"].at = "end"
      <4>1. Agrees(n)'  BY <3>1, <3>2, SameAgrees, Zenon
      <4> QED  BY <3>2, <4>1, Zenon DEF ReplSoFar
    <3>3. CASE /\ filtersets'[n] # 0 /\ worker'["repl"].at = "mark"
               /\ obj'[filtersets'[n]].seq = d.seq /\ obj'[filtersets'[n]].doc = d.doc
      <4>1. d = [seq |-> d.seq, doc |-> d.doc]  BY Zenon DEF Doc
      <4> QED  BY <1>4, <3>3, <4>1, Zenon DEF ReplSoFar, Holding, DocOf
    <3> QED  BY Zenon, <1>4, <3>2, <3>3
  <2> QED  BY <2>1, <2>2, <2>3, Zenon DEF RowStep, SoFar
<1>7. \A m \in FilterName : RowStep("repl", m)  BY <1>5, <1>6, Zenon
<1>8. worker'["console"] = worker["console"]  BY <1>4, FiniteThreads, Zenon
<1>9. worker'["console"].at = "compile" => worker'["console"].d = filterRows'[worker'["console"].n]
  BY <1>0, <1>3, <1>8, ConsoleKept, Zenon
<1>10. RowsInv'  BY Zenon, <1>0, <1>1, <1>3, <1>4, <1>7, <1>9, RowsStep
<1> QED  BY <1>4, <1>10, Zenon DEF FiltersInv

\* The refresh does, with the row it read in its transaction.
LEMMA RefreshCompileOK ==
    ASSUME FiltersInv, RefreshCompile
    PROVE  FiltersInv'
<1>0. FilterTypes /\ RowsInv  BY Zenon DEF FiltersInv
<1>1. "console" \in Job /\ "console" \in FilterThread /\ "load" \in PlaceOf("console") /\ "mark" \in PlaceOf("console")
  BY FiniteThreads, Threads, Zenon
<1>2. PICK n \in FilterName, d \in Doc : n = worker["console"].n /\ d = worker["console"].d
  BY <1>0, <1>1, WorkFields, Zenon
<1>3. /\ worker["console"].at = "compile" /\ CompileAdd("console", n, d, "load")
      /\ UNCHANGED <<filterRows, leaked, uses, causes, late, started>>
  BY <1>2, Zenon DEF RefreshCompile
<1>4. /\ FilterTypes' /\ Places' /\ Pointers' /\ RefsExact' /\ ChangesMarked' /\ UsedInv'
      /\ \A u \in FilterThread \ {"console"} : worker'[u] = worker[u]
      /\ \A m \in FilterName \ {n} : SameSet(m)
      /\ \/ SameSet(n) /\ worker'["console"].at = "load"
         \/ /\ filtersets'[n] # 0 /\ worker'["console"].at = "mark"
            /\ obj'[filtersets'[n]].seq = d.seq /\ obj'[filtersets'[n]].doc = d.doc
  BY <1>1, <1>2, <1>3, CompileStep
<1>5. filterRows'[n] = d  BY Zenon, <1>0, <1>2, <1>3 DEF RowsInv
<1>6. ASSUME NEW m \in FilterName PROVE RowStep("console", m)
  <2>1. Changing("console", m) /\ Changing("console", m)'  BY Zenon, <1>3, <1>4 DEF Changing
  <2>2. ASSUME RowOK(m) PROVE Agrees(m)'
    <3>1. Agrees(m)  BY <2>2, <1>3, Zenon DEF RowOK, RefreshSoFar
    <3>2. CASE SameSet(m)  BY <3>1, <3>2, SameAgrees, Zenon
    <3>3. CASE m = n /\ ~SameSet(n)
      <4>1. /\ filtersets'[n] # 0
            /\ obj'[filtersets'[n]].seq = d.seq /\ obj'[filtersets'[n]].doc = d.doc
        BY <1>4, <3>3, Zenon
      <4>2. d = [seq |-> d.seq, doc |-> d.doc]  BY Zenon DEF Doc
      <4> QED  BY <1>5, <3>3, <4>1, <4>2, Zenon DEF Agrees, DocOf
    <3> QED  BY <1>4, <3>2, <3>3, Zenon
  <2> QED  BY Zenon, <2>1, <2>2 DEF RowStep, SoFar, RefreshSoFar
<1>7. worker'["console"].at # "compile"  BY <1>4, Zenon
<1>8. RowsInv'  BY <1>0, <1>1, <1>3, <1>4, <1>6, <1>7, RowsStep, Zenon
<1> QED  BY Zenon, <1>4, <1>8 DEF FiltersInv

-----------------------------------------------------------------------------

\* The mark: the object that the table has under the name is not a freed one,
\* so that the thread that put it there marks it.
LEMMA MarkStep ==
    ASSUME FiltersInv, NEW t \in Job, t # "cull", NEW at \in PlaceOf(t), at # "walk", MarkChanged(t, at),
           UNCHANGED <<filterRows, filtersets, obj, leaked, uses, causes, late, started>>
    PROVE  /\ FilterTypes' /\ Places' /\ Pointers' /\ RefsExact' /\ ChangesMarked' /\ UsedInv'
           /\ \A u \in FilterThread \ {t} : worker'[u] = worker[u]
           /\ worker'[t].at = at /\ worker'[t].n = worker[t].n /\ worker'[t].d = worker[t].d
           /\ \A m \in FilterName : SameSet(m)
<1>0. FilterTypes /\ Places /\ Pointers /\ RefsExact /\ ChangesMarked /\ RowsInv /\ UsedInv  BY Zenon DEF FiltersInv
<1>1. t \in FilterThread  BY FiniteThreads, Zenon
<1>2. at \in {"idle", "row", "resize", "compile", "mark", "show", "seq", "end", "uses", "next",
                       "remove", "load", "walk"}
  BY Zenon DEF PlaceOf
<1>3. PICK w : w = Stay(t, at)  BY Zenon
<1>4. w \in Work /\ Does(t, w) /\ w.at = at /\ w.n = worker[t].n /\ w.d = worker[t].d
  BY <1>0, <1>1, <1>2, <1>3, GoTo DEF MarkChanged
<1>5. /\ filterRows' \in [FilterName -> Doc] /\ causes' \in [FilterName -> SUBSET Cause]
      /\ unmarked' \subseteq FilterName /\ started' \in Int
  BY <1>0, Zenon DEF FilterTypes, MarkChanged
<1>6. /\ FilterTypes' /\ Places' /\ Pointers' /\ RefsExact' /\ UsedInv'
      /\ worker'[t] = w /\ \A u \in FilterThread \ {t} : worker'[u] = worker[u]
  <2>1. worker[t].at # "walk"  BY Zenon DEF MarkChanged
  <2> QED  BY <2>1, <1>0, <1>4, <1>5, JobMoves, Zenon
<1>7. ChangesMarked'
  <2>1. ASSUME NEW m \in unmarked', filtersets'[m] # 0
        PROVE  \E u \in Job : worker'[u].at = "mark" /\ worker'[u].n = m /\ worker'[u].o = filtersets'[m]
    <3>1. m \in unmarked /\ m \in FilterName /\ filtersets[m] # 0  BY <2>1, <1>5, Zenon DEF MarkChanged
    <3>2. PICK u \in Job : worker[u].at = "mark" /\ worker[u].n = m /\ worker[u].o = filtersets[m]
      BY <3>1, <1>0, Zenon DEF ChangesMarked
    <3>3. u # t
      <4>1. SUFFICES ASSUME u = t PROVE FALSE  BY Zenon
      <4>2. ~Freed(filtersets[m])  BY <3>1, <1>0, TableAlive, Zenon
      <4>3. ~Freed(worker[t].o)  BY <4>1, <4>2, <3>2, Zenon
      <4>4. unmarked' = unmarked \ {worker[t].n}  BY <4>3, Zenon DEF MarkChanged
      <4> QED  BY <4>1, <4>4, <3>2, <2>1, Zenon
    <3>4. worker'[u] = worker[u]  BY <3>3, <1>6, FiniteThreads, Zenon
    <3> QED  BY <3>2, <3>4, Zenon
  <2> QED  BY <2>1, Zenon DEF ChangesMarked
<1>8. \A m \in FilterName : SameSet(m)  BY SameAll, Zenon
<1> QED  BY <1>4, <1>6, <1>7, <1>8, Zenon

\* The set job marks its change.
LEMMA SetMarkOK ==
    ASSUME FiltersInv, SetMark
    PROVE  FiltersInv'
<1>0. FilterTypes /\ RowsInv  BY Zenon DEF FiltersInv
<1>1. "set" \in Job /\ "set" \in FilterThread /\ "show" \in PlaceOf("set")  BY FiniteThreads, Threads, Zenon
<1>2. PICK n \in FilterName : n = worker["set"].n  BY <1>0, <1>1, WorkFields, Zenon
<1>3. /\ worker["set"].at = "mark" /\ MarkChanged("set", "show")
      /\ UNCHANGED <<filterRows, filtersets, obj, leaked, uses, causes, late, started>>
  BY Zenon DEF SetMark, MarkChanged
<1>4. /\ FilterTypes' /\ Places' /\ Pointers' /\ RefsExact' /\ ChangesMarked' /\ UsedInv'
      /\ \A u \in FilterThread \ {"set"} : worker'[u] = worker[u]
      /\ worker'["set"].at = "show"
      /\ \A m \in FilterName : SameSet(m)
  BY <1>1, <1>3, MarkStep, Zenon
<1>5. \A m \in FilterName \ {n} : RowStep("set", m)  BY <1>2, <1>4, Zenon DEF RowStep, Changing
<1>6. RowStep("set", n)
  <2>1. Changing("set", n)  BY <1>2, <1>3, Zenon DEF Changing
  <2>2. ASSUME RowOK(n) PROVE SoFar("set", n)' /\ Agrees(n)'
    <3>1. Agrees(n)  BY <2>2, <1>2, <1>3, Zenon DEF RowOK, SetSoFar
    <3>2. Agrees(n)'  BY <3>1, <1>4, SameAgrees, Zenon
    <3>3. SetSoFar(n)'  BY <1>4, Zenon DEF SetSoFar
    <3> QED  BY <3>2, <3>3, Zenon DEF SoFar
  <2> QED  BY <2>1, <2>2, Zenon DEF RowStep
<1>7. \A m \in FilterName : RowStep("set", m)  BY <1>5, <1>6, Zenon
<1>8. worker'["console"] = worker["console"]  BY <1>4, FiniteThreads, Zenon
<1>9. worker'["console"].at = "compile" => worker'["console"].d = filterRows'[worker'["console"].n]
  BY <1>0, <1>3, <1>8, ConsoleKept, Zenon
<1>10. RowsInv'  BY <1>0, <1>1, <1>3, <1>4, <1>7, <1>9, RowsStep, Zenon
<1> QED  BY <1>4, <1>10, Zenon DEF FiltersInv

\* The replication job does.
LEMMA ReplMarkOK ==
    ASSUME FiltersInv, ReplMark
    PROVE  FiltersInv'
<1>0. FilterTypes /\ RowsInv  BY Zenon DEF FiltersInv
<1>1. "repl" \in Job /\ "repl" \in FilterThread /\ "row" \in PlaceOf("repl")  BY FiniteThreads, Threads, Zenon
<1>2. PICK n \in FilterName, d \in Doc : n = worker["repl"].n /\ d = worker["repl"].d  BY <1>0, <1>1, WorkFields, Zenon
<1>3. /\ worker["repl"].at = "mark" /\ MarkChanged("repl", "row")
      /\ UNCHANGED <<filterRows, filtersets, obj, leaked, uses, causes, late, started>>
  BY Zenon DEF ReplMark, MarkChanged
<1>4. /\ FilterTypes' /\ Places' /\ Pointers' /\ RefsExact' /\ ChangesMarked' /\ UsedInv'
      /\ \A u \in FilterThread \ {"repl"} : worker'[u] = worker[u]
      /\ worker'["repl"].at = "row" /\ worker'["repl"].n = n /\ worker'["repl"].d = d
      /\ \A m \in FilterName : SameSet(m)
  BY <1>1, <1>2, <1>3, MarkStep, Zenon
<1>5. \A m \in FilterName \ {n} : RowStep("repl", m)  BY <1>2, <1>4, Zenon DEF RowStep, Changing
<1>6. RowStep("repl", n)
  <2>1. Changing("repl", n)  BY <1>2, <1>3, Zenon DEF Changing
  <2>2. Changing("repl", n)'  BY <1>4, Zenon DEF Changing
  <2>3. ASSUME RowOK(n) PROVE SoFar("repl", n)'
    <3>1. Holding(n, d)  BY <2>3, <1>2, <1>3, Zenon DEF RowOK, ReplSoFar
    <3>2. filtersets'[n] # 0 /\ DocOf(filtersets[n])' = d  BY <3>1, <1>3, Zenon DEF Holding, DocOf
    <3>3. ReplSoFar(n)'  BY <1>3, <1>4, <3>2, Zenon DEF ReplSoFar, Holding, DocOf
    <3> QED  BY <3>3, Zenon DEF SoFar
  <2> QED  BY <2>1, <2>2, <2>3, Zenon DEF RowStep
<1>7. \A m \in FilterName : RowStep("repl", m)  BY <1>5, <1>6, Zenon
<1>8. worker'["console"] = worker["console"]  BY <1>4, FiniteThreads, Zenon
<1>9. worker'["console"].at = "compile" => worker'["console"].d = filterRows'[worker'["console"].n]
  BY <1>0, <1>3, <1>8, ConsoleKept, Zenon
<1>10. RowsInv'  BY <1>0, <1>1, <1>3, <1>4, <1>7, <1>9, RowsStep, Zenon
<1> QED  BY <1>4, <1>10, Zenon DEF FiltersInv

\* The refresh does.
LEMMA RefreshMarkOK ==
    ASSUME FiltersInv, RefreshMark
    PROVE  FiltersInv'
<1>0. FilterTypes /\ RowsInv  BY Zenon DEF FiltersInv
<1>1. "console" \in Job /\ "console" \in FilterThread /\ "load" \in PlaceOf("console")  BY FiniteThreads, Threads, Zenon
<1>3. /\ worker["console"].at = "mark" /\ MarkChanged("console", "load")
      /\ UNCHANGED <<filterRows, filtersets, obj, leaked, uses, causes, late, started>>
  BY Zenon DEF RefreshMark, MarkChanged
<1>4. /\ FilterTypes' /\ Places' /\ Pointers' /\ RefsExact' /\ ChangesMarked' /\ UsedInv'
      /\ \A u \in FilterThread \ {"console"} : worker'[u] = worker[u]
      /\ worker'["console"].at = "load"
      /\ \A m \in FilterName : SameSet(m)
  BY <1>1, <1>3, MarkStep, Zenon
<1>6. ASSUME NEW m \in FilterName PROVE RowStep("console", m)
  <2>1. Changing("console", m) /\ Changing("console", m)'  BY <1>3, <1>4, Zenon DEF Changing
  <2>2. ASSUME RowOK(m) PROVE Agrees(m)'
    <3>1. Agrees(m)  BY <2>2, <1>3, Zenon DEF RowOK, RefreshSoFar
    <3> QED  BY <3>1, <1>4, SameAgrees, Zenon
  <2> QED  BY <2>1, <2>2, Zenon DEF RowStep, SoFar, RefreshSoFar
<1>7. worker'["console"].at # "compile"  BY <1>4, Zenon
<1>8. RowsInv'  BY <1>0, <1>1, <1>3, <1>4, <1>6, <1>7, RowsStep, Zenon
<1> QED  BY <1>4, <1>8, Zenon DEF FiltersInv

\* The refresh.
LEMMA RefreshBeginOK ==
    ASSUME FiltersInv, RefreshBegin
    PROVE  FiltersInv'
<1>0. FilterTypes /\ RowsInv  BY Zenon DEF FiltersInv
<1>1. "console" \in Job /\ "console" \in FilterThread  BY FiniteThreads, Zenon
<1>2. PICK L \in SUBSET FilterName : L = {n \in FilterName : filterRows[n] # Absent}  BY Zenon
<1>3. /\ worker["console"].at = "idle" /\ started' = started + 1
      /\ Does("console", Doing("load", worker["console"].n, Absent, 0, L))
      /\ causes' = Overlapping("console", FilterName)
      /\ UNCHANGED <<filterRows, filtersets, obj, leaked, uses, unmarked, late>>
  BY <1>2, Zenon DEF RefreshBegin, Begin
<1>4. started' \in Int /\ filterRows' \in [FilterName -> Doc]  BY <1>0, <1>3 DEF FilterTypes
<1>5. PICK N \in SUBSET FilterName : N = FilterName  BY Zenon
<1>6. /\ causes' \in [FilterName -> SUBSET Cause]
      /\ \A m \in FilterName : causes'[m] = {} => causes[m] = {}
      /\ \A m \in FilterName : causes'[m] = {} => \A u \in Job \ {"console"} : ~Changing(u, m)
  BY <1>0, <1>3, <1>5, Overlaps, Zenon
<1>7. PICK w : w = Doing("load", worker["console"].n, Absent, 0, L)  BY Zenon
<1>8. w \in Work /\ w.at = "load"
  <2>1. w \in Work  BY <1>0, <1>1, <1>7, WorkFields, IdleWork, DoingWork, Zenon
  <2> QED  BY <2>1, <1>7, Zenon DEF Doing
<1>9. worker'["console"] = w  BY <1>0, <1>1, <1>3, <1>7, <1>8, Moves, Zenon
<1>10. \A m \in FilterName : SameSet(m)  BY <1>3, SameAll, Zenon
<1>11. ASSUME NEW m \in FilterName PROVE RowStep("console", m)
  <2>1. Changing("console", m)' /\ ~Changing("console", m)  BY <1>3, <1>8, <1>9, Zenon DEF Changing
  <2>2. ASSUME RowOK(m), \A u \in Job \ {"console"} : ~Changing(u, m) PROVE Agrees(m)'
    BY <2>1, <2>2, <1>10, SameAgrees, Zenon DEF RowOK
  <2> QED  BY <2>1, <2>2, <1>6, Zenon DEF RowStep, SoFar, RefreshSoFar
<1>12. w.at \in PlaceOf("console") /\ w.at # "walk" /\ w.at # "compile"
       /\ worker["console"].at # "walk" /\ worker["console"].at # "mark"
  BY <1>3, <1>8, Threads, Zenon
<1>13. Does("console", w)  BY <1>3, <1>7, Zenon
<1> QED  BY <1>1, <1>3, <1>4, <1>6, <1>8, <1>11, <1>12, <1>13, JobOK, Zenon

\* The refresh takes the next row.
LEMMA RefreshRowOK ==
    ASSUME FiltersInv, RefreshRow
    PROVE  FiltersInv'
<1>0. FilterTypes /\ RowsInv  BY Zenon DEF FiltersInv
<1>1. "console" \in Job /\ "console" \in FilterThread  BY FiniteThreads, Zenon
<1>2. PICK n \in worker["console"].left :
        Does("console", Doing("compile", n, filterRows[n], 0, worker["console"].left \ {n}))
  BY Zenon DEF RefreshRow
<1>3. /\ worker["console"].at = "load"
      /\ UNCHANGED <<filterRows, filtersets, obj, leaked, uses, unmarked, causes, late, started>>
  BY Zenon DEF RefreshRow
<1>4. /\ n \in FilterName /\ filterRows[n] \in Doc
      /\ started' \in Int /\ filterRows' \in [FilterName -> Doc] /\ causes' \in [FilterName -> SUBSET Cause]
  BY <1>0, <1>1, <1>3, WorkFields, Zenon DEF FilterTypes
<1>5. PICK w : w = Doing("compile", n, filterRows[n], 0, worker["console"].left \ {n})  BY Zenon
<1>6. w \in Work /\ w.at = "compile" /\ w.d = filterRows[n] /\ w.n = n
  <2>1. worker["console"].left \ {n} \in SUBSET FilterName  BY <1>0, <1>1, WorkFields, Zenon
  <2>2. w \in Work  BY <1>4, <1>5, <2>1, DoingWork, Zenon
  <2> QED  BY <2>2, <1>5, Zenon DEF Doing
<1>7. worker'["console"] = w  BY <1>0, <1>1, <1>2, <1>5, <1>6, Moves, Zenon
<1>8. \A m \in FilterName : SameSet(m)  BY <1>3, SameAll, Zenon
<1>9. ASSUME NEW m \in FilterName PROVE RowStep("console", m)
  <2>1. Changing("console", m) /\ Changing("console", m)'  BY <1>3, <1>6, <1>7, Zenon DEF Changing
  <2>2. ASSUME RowOK(m) PROVE Agrees(m)'
    <3>1. Agrees(m)  BY <2>2, <1>3, Zenon DEF RowOK, RefreshSoFar
    <3> QED  BY <3>1, <1>8, SameAgrees, Zenon
  <2> QED  BY <2>1, <2>2, Zenon DEF RowStep, SoFar, RefreshSoFar
<1>10. w.at \in PlaceOf("console") /\ w.at # "walk" /\ worker["console"].at # "walk" /\ worker["console"].at # "mark"
  BY <1>3, <1>6, Threads, Zenon
<1>11. Does("console", w) /\ w.d = filterRows'[w.n]  BY <1>2, <1>3, <1>5, <1>6, Zenon
<1> QED  BY <1>1, <1>3, <1>4, <1>6, <1>9, <1>10, <1>11, JobOK, Zenon

\* The end of a refresh.
LEMMA RefreshEndOK ==
    ASSUME FiltersInv, RefreshEnd
    PROVE  FiltersInv'
<1>0. FilterTypes /\ RowsInv  BY Zenon DEF FiltersInv
<1>1. "console" \in Job /\ "console" \in FilterThread  BY FiniteThreads, Zenon
<1>3. /\ worker["console"].at = "load" /\ Does("console", Idle)
      /\ UNCHANGED <<filterRows, filtersets, obj, leaked, uses, unmarked, causes, late, started>>
  BY Zenon DEF RefreshEnd, Done
<1>4. started' \in Int /\ filterRows' \in [FilterName -> Doc] /\ causes' \in [FilterName -> SUBSET Cause]
  BY <1>0, <1>3, Zenon DEF FilterTypes
<1>6. Idle \in Work /\ Idle.at = "idle"  BY IdleWork, Zenon
<1>7. worker'["console"] = Idle  BY <1>3, <1>6, <1>0, <1>1, Moves, Zenon
<1>8. \A m \in FilterName : SameSet(m)  BY <1>3, SameAll, Zenon
<1>9. ASSUME NEW m \in FilterName PROVE RowStep("console", m)
  <2>1. Changing("console", m)  BY <1>3, Zenon DEF Changing
  <2>2. ASSUME RowOK(m) PROVE Agrees(m)'
    <3>1. Agrees(m)  BY <2>2, <1>3, Zenon DEF RowOK, RefreshSoFar
    <3> QED  BY <3>1, <1>8, SameAgrees, Zenon
  <2> QED  BY <2>1, <2>2, Zenon DEF RowStep, SoFar, RefreshSoFar
<1>10. Idle.at \in PlaceOf("console") /\ Idle.at # "walk" /\ worker["console"].at # "walk" /\ worker["console"].at # "mark"
       /\ Idle.at # "compile"
  BY <1>3, <1>6, Threads, Zenon
<1> QED  BY <1>1, <1>3, <1>4, <1>6, <1>9, <1>10, JobOK, Zenon

-----------------------------------------------------------------------------
(* Applying, showing, deleting and using filtersets *)

\* A thread that is no job, or the console, takes a reference and walks.
LEMMA WalkBegins ==
    ASSUME FiltersInv, NEW a \in FilterThread, a \in Applier \/ a = "console", NEW n \in FilterName,
           worker[a].at = "idle", filtersets[n] # 0,
           obj' \in Seq(Object), Len(obj') = Len(obj),
           obj'[filtersets[n]].ref_cnt = obj[filtersets[n]].ref_cnt + 1,
           obj'[filtersets[n]].seq = obj[filtersets[n]].seq, obj'[filtersets[n]].doc = obj[filtersets[n]].doc,
           \A o \in 1 .. Len(obj) \ {filtersets[n]} : obj'[o] = obj[o],
           Does(a, Doing("walk", n, Absent, filtersets[n], {})),
           UNCHANGED <<filterRows, filtersets, uses, unmarked, causes, late, started>>
    PROVE  FiltersInv'
<1>0. FilterTypes /\ Places /\ Pointers /\ RefsExact /\ ChangesMarked /\ RowsInv /\ UsedInv  BY Zenon DEF FiltersInv
<1>1. PICK w : w = Doing("walk", n, Absent, filtersets[n], {})  BY Zenon
<1>2. w \in Work /\ w.at = "walk" /\ w.o = filtersets[n]
  <2>1. filtersets[n] \in Nat  BY <1>0, Zenon DEF FilterTypes
  <2>2. w \in Work  BY <1>1, <2>1, IdleWork, DoingWork, Zenon
  <2> QED  BY <2>2, <1>1, Zenon DEF Doing
<1>3. /\ worker' \in [FilterThread -> Work] /\ worker'[a] = w
      /\ \A u \in FilterThread \ {a} : worker'[u] = worker[u]
  BY <1>0, <1>1, <1>2, Moves, Zenon
<1>4. FilterTypes'  BY <1>0, <1>3, Zenon DEF FilterTypes
<1>5. Places'
  <2>1. w.at \in PlaceOf(a)  BY <1>2, Threads, Zenon
  <2> QED  BY <2>1, <1>0, <1>3, Zenon DEF Places
<1>6. Pointers' /\ RefsExact'
  BY <1>0, <1>2, <1>3, <1>4, RefTaken, Zenon
<1>7. a # "set" /\ a # "repl" /\ a # "cull"  BY FilterConstants, Zenon
<1>8. ChangesMarked'  BY <1>0, <1>3, FiniteThreads DEF ChangesMarked
<1>9. UsedInv'
  <2>1. worker'["cull"] = worker["cull"]  BY <1>3, <1>7, FiniteThreads, Zenon
  <2> QED  BY <2>1, <1>0, Zenon DEF UsedInv
<1>10. RowsInv'
  <2>1. \A m \in FilterName : SameSet(m)
    <3>1. ASSUME NEW m \in FilterName, filtersets[m] # 0
          PROVE  obj'[filtersets[m]].seq = obj[filtersets[m]].seq /\ obj'[filtersets[m]].doc = obj[filtersets[m]].doc
      <4>1. filtersets[m] \in 1 .. Len(obj)  BY <3>1, <1>0, TableAlive, Zenon
      <4> QED  BY <4>1, Zenon
    <3> QED  BY <3>1, Zenon DEF SameSet
  <2>2. \A u \in Job \ {"console"} : worker'[u] = worker[u]  BY <1>3, <1>7, FiniteThreads, Zenon DEF Job
  <2>3. \/ worker'["console"] = worker["console"]
        \/ worker["console"].at \in {"idle", "walk"} /\ worker'["console"].at \in {"idle", "walk"}
    BY <1>2, <1>3, FiniteThreads, Zenon
  <2> QED  BY <2>1, <2>2, <2>3, <1>0, RowsStill, Zenon
<1> QED  BY <1>4, <1>5, <1>6, <1>8, <1>9, <1>10, Zenon DEF FiltersInv

\* It drops its reference; the last one frees the object.
LEMMA WalkEnds ==
    ASSUME FiltersInv, NEW a \in FilterThread, a \in Applier \/ a = "console",
           worker[a].at = "walk", obj' = Free(obj, worker[a].o), Does(a, Idle),
           UNCHANGED <<filterRows, filtersets, uses, unmarked, causes, late, started>>
    PROVE  FiltersInv'
<1>0. FilterTypes /\ Places /\ Pointers /\ RefsExact /\ ChangesMarked /\ RowsInv /\ UsedInv  BY Zenon DEF FiltersInv
<1>2. Idle \in Work /\ Idle.at = "idle"  BY IdleWork, Zenon
<1>3. /\ worker' \in [FilterThread -> Work] /\ worker'[a] = Idle
      /\ \A u \in FilterThread \ {a} : worker'[u] = worker[u]
  BY <1>0, <1>2, Moves, Zenon
<1>4. FilterTypes'
  <2>1. obj' \in Seq(Object)  BY <1>0, FreeOne, Zenon DEF FilterTypes
  <2> QED  BY <1>0, <1>3, <2>1, Zenon DEF FilterTypes
<1>5. Places'
  <2>1. Idle.at \in PlaceOf(a)  BY <1>2, Threads, Zenon
  <2> QED  BY <2>1, <1>0, <1>3, Zenon DEF Places
<1>6. /\ Pointers' /\ RefsExact'
      /\ \A n \in FilterName : filtersets[n] # 0 => /\ obj'[filtersets[n]].seq = obj[filtersets[n]].seq
                                                    /\ obj'[filtersets[n]].doc = obj[filtersets[n]].doc
  BY <1>0, <1>2, <1>3, <1>4, RefDropped, Zenon
<1>7. a # "set" /\ a # "repl" /\ a # "cull"  BY FilterConstants, Zenon
<1>8. ChangesMarked'  BY <1>0, <1>3, FiniteThreads DEF ChangesMarked
<1>9. UsedInv'
  <2>1. worker'["cull"] = worker["cull"]  BY <1>3, <1>7, FiniteThreads, Zenon
  <2> QED  BY <2>1, <1>0, Zenon DEF UsedInv
<1>10. RowsInv'
  <2>1. \A m \in FilterName : SameSet(m)  BY <1>6, Zenon DEF SameSet
  <2>2. \A u \in Job \ {"console"} : worker'[u] = worker[u]  BY <1>3, <1>7, FiniteThreads, Zenon DEF Job
  <2>3. \/ worker'["console"] = worker["console"]
        \/ worker["console"].at \in {"idle", "walk"} /\ worker'["console"].at \in {"idle", "walk"}
    BY <1>2, <1>3, FiniteThreads, Zenon
  <2> QED  BY <2>1, <2>2, <2>3, <1>0, RowsStill, Zenon
<1> QED  BY <1>4, <1>5, <1>6, <1>8, <1>9, <1>10, Zenon DEF FiltersInv

\* noit_apply_filterset.
LEMMA ApplyOK ==
    ASSUME FiltersInv, NEW a \in Applier, (\E n \in Asked : ApplyBegin(a, n)) \/ ApplyEnd(a)
    PROVE  FiltersInv'
<1>0. FilterTypes /\ Pointers /\ RefsExact  BY Zenon DEF FiltersInv
<1>1. a \in FilterThread  BY FiniteThreads, Zenon
<1>2. ASSUME NEW n \in Asked, ApplyBegin(a, n) PROVE FiltersInv'
  <2>1. n \in FilterName /\ filtersets[n] # 0  BY <1>2, FilterConstants, Zenon DEF ApplyBegin
  <2>2. PICK p \in 1 .. Len(obj) : p = filtersets[n]  BY <1>0, <2>1, TableAlive, Zenon
  <2>3. obj \in Seq(Object)  BY <1>0, Zenon DEF FilterTypes
  <2>5. obj' = Taken(obj, p)  BY <1>2, <2>2, Zenon DEF ApplyBegin, Taken
  <2>6. /\ obj' \in Seq(Object) /\ Len(obj') = Len(obj)
        /\ obj'[p].ref_cnt = obj[p].ref_cnt + 1 /\ obj'[p].seq = obj[p].seq /\ obj'[p].doc = obj[p].doc
        /\ \A o \in 1 .. Len(obj) \ {p} : obj'[o] = obj[o]
    BY <2>3, <2>5, TakeOne, Zenon
  <2>7. /\ worker[a].at = "idle" /\ Does(a, Doing("walk", n, Absent, filtersets[n], {}))
        /\ UNCHANGED <<filterRows, filtersets, uses, unmarked, causes, late, started>>
    BY <1>2, Zenon DEF ApplyBegin
  <2> QED  BY <1>1, <2>1, <2>2, <2>6, <2>7, WalkBegins, Zenon
<1>3. ASSUME ApplyEnd(a) PROVE FiltersInv'
  BY <1>1, <1>3, WalkEnds, Zenon DEF ApplyEnd, Done
<1> QED  BY <1>2, <1>3, Zenon

\* noit_console_filter_show_running, also when it leaves the lock held.
LEMMA ShowOK ==
    ASSUME FiltersInv, (\E n \in Asked : ShowRunning(n)) \/ ShowRunningEnd
    PROVE  FiltersInv'
<1>0. FilterTypes /\ Pointers /\ RefsExact  BY Zenon DEF FiltersInv
<1>1. "console" \in FilterThread  BY FiniteThreads, Zenon
<1>2. ASSUME NEW n \in Asked, ShowRunning(n) PROVE FiltersInv'
  <2>0. n \in FilterName  BY FilterConstants, Zenon
  <2>1. CASE filtersets[n] = 0
    <3>1. started' \in Int /\ UNCHANGED <<filterRows, filtersets, obj, worker, uses, unmarked, causes, late>>
      BY <1>0, <1>2, <2>1, Zenon DEF ShowRunning, FilterTypes
    <3> QED  BY <3>1, StillOK, Zenon
  <2>2. CASE filtersets[n] # 0
    <3>2. PICK p \in 1 .. Len(obj) : p = filtersets[n]  BY <1>0, <2>0, <2>2, TableAlive, Zenon
    <3>3. obj \in Seq(Object)  BY <1>0, Zenon DEF FilterTypes
    <3>4. LET ps == [obj EXCEPT ![p].ref_cnt = @ + 1] IN
          /\ ps \in Seq(Object) /\ Len(ps) = Len(obj)
          /\ ps[p].ref_cnt = obj[p].ref_cnt + 1 /\ ps[p].seq = obj[p].seq /\ ps[p].doc = obj[p].doc
          /\ \A o \in 1 .. Len(obj) \ {p} : ps[o] = obj[o]
      BY <3>3, CountOne, Zenon
    <3>5. obj' = [obj EXCEPT ![p].ref_cnt = @ + 1]  BY <1>2, <2>2, <3>2, Zenon DEF ShowRunning
    <3>6. /\ obj' \in Seq(Object) /\ Len(obj') = Len(obj)
          /\ obj'[p].ref_cnt = obj[p].ref_cnt + 1 /\ obj'[p].seq = obj[p].seq /\ obj'[p].doc = obj[p].doc
          /\ \A o \in 1 .. Len(obj) \ {p} : obj'[o] = obj[o]
      BY <3>4, <3>5, Zenon
    <3>7. /\ worker["console"].at = "idle" /\ Does("console", Doing("walk", n, Absent, filtersets[n], {}))
          /\ UNCHANGED <<filterRows, filtersets, uses, unmarked, causes, late, started>>
      BY <1>2, <2>2, Zenon DEF ShowRunning
    <3> QED  BY <1>1, <2>0, <2>2, <3>2, <3>6, <3>7, WalkBegins, Zenon
  <2> QED  BY <2>1, <2>2, Zenon
<1>3. ASSUME ShowRunningEnd PROVE FiltersInv'
  BY <1>1, <1>3, WalkEnds, Zenon DEF ShowRunningEnd, Done
<1> QED  BY <1>2, <1>3, Zenon

\* A REST delete removes the row alone, which the history records.
LEMMA FilterDeleteOK ==
    ASSUME FiltersInv, NEW n \in Asked, FilterDelete(n)
    PROVE  FiltersInv'
<1>0. FilterTypes /\ Places /\ Pointers /\ RefsExact /\ ChangesMarked /\ RowsInv /\ UsedInv  BY Zenon DEF FiltersInv
<1>1. n \in FilterName  BY FilterConstants, Zenon
<1>2. /\ ~filterTxn /\ started' = started + 1
      /\ filterRows' = [filterRows EXCEPT ![n] = Absent]
      /\ causes' = [causes EXCEPT ![n] = @ \cup {"deleted"}]
      /\ UNCHANGED <<filtersets, obj, worker, leaked, uses, unmarked, late>>
  BY Zenon DEF FilterDelete, Begin
<1>3. filterRows' \in [FilterName -> Doc] /\ \A m \in FilterName \ {n} : SameSet(m)
  BY <1>0, <1>1, <1>2, IdleWork, RowWritten, Zenon
<1>4. PICK C \in SUBSET Cause : C = {"deleted"}  BY Zenon DEF Cause
<1>5. /\ causes' \in [FilterName -> SUBSET Cause]
      /\ \A m \in FilterName : causes'[m] = {} => causes[m] = {}
      /\ causes'[n] # {}
  <2>1. causes \in [FilterName -> SUBSET Cause]  BY <1>0, Zenon DEF FilterTypes
  <2> QED  BY <1>1, <1>2, <1>4, <2>1, CauseAdded, Zenon
<1>6. FilterTypes' /\ Places' /\ Pointers' /\ RefsExact' /\ ChangesMarked' /\ UsedInv'
  <2>1. started' \in Int  BY <1>0, <1>2 DEF FilterTypes
  <2>2. FilterTypes'  BY <1>0, <1>2, <1>3, <1>5, <2>1, Zenon DEF FilterTypes
  <2>3. Places' /\ Pointers' /\ ChangesMarked' /\ UsedInv'
    BY <1>0, <1>2, Zenon DEF Places, Pointers, ChangesMarked, UsedInv
  <2>4. RefsExact'  BY <1>0, <1>2, Zenon DEF RefsExact
  <2> QED  BY <2>2, <2>3, <2>4, Zenon
<1>7. worker'["console"].at # "compile"  BY <1>2, Zenon DEF filterTxn
<1>8. \A m \in FilterName : causes'[m] = {} => causes[m] = {} /\ SameSet(m)  BY <1>3, <1>5, Zenon
<1>9. RowsInv'  BY <1>0, <1>2, <1>7, <1>8, RowsStill, Zenon
<1> QED  BY <1>6, <1>9, Zenon DEF FiltersInv

\* Checks come and go, and time passes.
LEMMA UsesOK ==
    ASSUME FiltersInv, NEW n \in Asked, Use(n) \/ Unuse(n) \/ TimePasses(n)
    PROVE  FiltersInv'
<1>0. FilterTypes /\ Places /\ Pointers /\ RefsExact /\ ChangesMarked /\ RowsInv /\ UsedInv  BY Zenon DEF FiltersInv
<1>1. n \in FilterName  BY FilterConstants, Zenon
<1>2. ASSUME Use(n) \/ Unuse(n) PROVE FiltersInv'
  <2>1. UNCHANGED <<filterRows, filtersets, obj, worker, leaked, unmarked, causes, started>>
    BY <1>2, Zenon DEF Use, Unuse
  <2>2. FilterTypes'
    <3>1. uses' \subseteq FilterName  BY <1>0, <1>1, <1>2, Zenon DEF Use, Unuse, FilterTypes
    <3> QED  BY <1>0, <2>1, <3>1, Zenon DEF FilterTypes
  <2>3. Places' /\ Pointers' /\ ChangesMarked'  BY <1>0, <2>1, Zenon DEF Places, Pointers, ChangesMarked
  <2>4. RefsExact'  BY <1>0, <2>1, Zenon DEF RefsExact
  <2>5. UsedInv'
    <3>1. CASE Unuse(n)  BY <1>0, <3>1, Zenon DEF Unuse, UsedInv
    <3>2. CASE Use(n) /\ worker["cull"].at \in {"idle", "uses"}  BY <2>1, <3>2, Zenon DEF UsedInv
    <3>3. CASE Use(n) /\ worker["cull"].at \notin {"idle", "uses"}
      <4>1. uses' = uses \cup {n} /\ late' = late \cup {n}  BY <3>3, Zenon DEF Use
      <4> QED  BY <1>0, <2>1, <4>1, Zenon DEF UsedInv
    <3> QED  BY <1>2, <3>1, <3>2, <3>3, Zenon
  <2>6. \A m \in FilterName : causes'[m] = {} => causes[m] = {} /\ SameSet(m)  BY <2>1, SameAll, Zenon
  <2>7. RowsInv'  BY <1>0, <2>1, <2>6, RowsStill, Zenon
  <2> QED  BY <2>2, <2>3, <2>4, <2>5, <2>7, Zenon DEF FiltersInv
<1>3. ASSUME TimePasses(n) PROVE FiltersInv'
  <2>1. /\ filtersets[n] # 0
        /\ UNCHANGED <<filterRows, filtersets, worker, leaked, uses, unmarked, causes, late, started>>
    BY <1>3, Zenon DEF TimePasses
  <2>2. PICK p \in 1 .. Len(obj) : p = filtersets[n]  BY <1>0, <1>1, <2>1, TableAlive, Zenon
  <2>3. obj \in Seq(Object) /\ TRUE \in BOOLEAN  BY <1>0, Zenon DEF FilterTypes
  <2>4. LET ps == [obj EXCEPT ![p].idle = TRUE] IN
        /\ ps \in Seq(Object) /\ Len(ps) = Len(obj)
        /\ \A o \in 1 .. Len(obj) : ps[o].seq = obj[o].seq /\ ps[o].doc = obj[o].doc /\ ps[o].ref_cnt = obj[o].ref_cnt
    BY <2>3, TouchOne, Zenon
  <2>5. obj' = [obj EXCEPT ![p].idle = TRUE]  BY <1>3, <2>2, Zenon DEF TimePasses
  <2>6. /\ obj' \in Seq(Object) /\ Len(obj') = Len(obj)
        /\ \A o \in 1 .. Len(obj) : obj'[o].seq = obj[o].seq /\ obj'[o].doc = obj[o].doc /\ obj'[o].ref_cnt = obj[o].ref_cnt
    BY <2>4, <2>5, Zenon
  <2>7. FilterTypes'  BY <1>0, <2>1, <2>6, Zenon DEF FilterTypes
  <2>8. Pointers' /\ RefsExact'  BY <1>0, <2>1, <2>6, <2>7, RefsKept, Zenon
  <2>9. Places' /\ ChangesMarked' /\ UsedInv'  BY <1>0, <2>1, Zenon DEF Places, ChangesMarked, UsedInv
  <2>10. \A m \in FilterName : SameSet(m)
    <3>1. ASSUME NEW m \in FilterName, filtersets[m] # 0
          PROVE  obj'[filtersets[m]].seq = obj[filtersets[m]].seq /\ obj'[filtersets[m]].doc = obj[filtersets[m]].doc
      <4>1. filtersets[m] \in 1 .. Len(obj)  BY <3>1, <1>0, TableAlive, Zenon
      <4> QED  BY <4>1, <2>6, Zenon
    <3> QED  BY <3>1, <2>1, Zenon DEF SameSet
  <2>11. RowsInv'  BY <1>0, <2>1, <2>10, RowsStill, Zenon
  <2> QED  BY <2>7, <2>8, <2>9, <2>11, Zenon DEF FiltersInv
<1> QED  BY <1>2, <1>3, Zenon

-----------------------------------------------------------------------------
(* The initial states *)

\* A finite set can be listed, ...
LEMMA Listable ==
    ASSUME NEW S, IsFiniteSet(S)
    PROVE  Injection(1 .. Cardinality(S), S) # {}
<1>1. ExistsBijection(1 .. Cardinality(S), S)  BY FS_CardinalityType, Zenon
<1> QED  BY <1>1, Zenon DEF ExistsBijection, Bijection

\* ... and an injection of 1 .. Cardinality(S) into S lists every element once.
LEMMA Listed ==
    ASSUME NEW S, IsFiniteSet(S), NEW f \in Injection(1 .. Cardinality(S), S)
    PROVE  /\ Cardinality(S) \in Nat /\ f \in [1 .. Cardinality(S) -> S]
           /\ \A i, j \in 1 .. Cardinality(S) : f[i] = f[j] => i = j
           /\ \A x \in S : \E i \in 1 .. Cardinality(S) : f[i] = x
<1>1. PICK k : k = Cardinality(S)  BY Zenon
<1>2. k \in Nat  BY <1>1, FS_CardinalityType, Zenon
<1>6. f \in [1 .. k -> S] /\ IsInjective(f)  BY <1>1, Zenon DEF Injection
<1>7. Cardinality(1 .. k) = k
  <2>1. 1 \in Int /\ k \in Int  BY <1>2
  <2>2. Cardinality(1 .. k) = IF 1 > k THEN 0 ELSE k - 1 + 1  BY <2>1, FS_Interval, Zenon
  <2> QED  BY <2>2, <1>2
<1>8. f \in Surjection(1 .. k, S)  BY <1>1, <1>7, FS_Injection, Zenon
<1>9. \A x \in S : \E i \in 1 .. k : f[i] = x  BY <1>8, Zenon DEF Surjection
<1>10. \A i, j \in 1 .. k : f[i] = f[j] => i = j  BY <1>6, Zenon DEF IsInjective
<1> QED  BY <1>1, <1>2, <1>6, <1>9, <1>10, Zenon

\* Once noit_filters_init has loaded the rows the invariant holds.
LEMMA FiltersStart == FilterSetsInit => FiltersInv
<1> SUFFICES ASSUME FilterSetsInit PROVE FiltersInv  BY Zenon
<1>1. PICK N \in {FilterName, FilterName \ Asked} :
         filterRows = [n \in FilterName |-> IF n \in N THEN [seq |-> 0, doc |-> 0] ELSE Absent]
  BY Zenon DEF FilterSetsInit
<1>2. PICK S : S = {n \in FilterName : filterRows[n] # Absent}  BY Zenon
<1>3. S \subseteq FilterName /\ IsFiniteSet(S)  BY <1>2, FilterConstants, FS_Subset, Zenon
<1>4. PICK k, f : k = Cardinality(S) /\ f = LoadOrder(filterRows)  BY Zenon
<1>5. /\ k \in Nat /\ f \in [1 .. k -> S]
      /\ \A i, j \in 1 .. k : f[i] = f[j] => i = j
      /\ \A x \in S : \E i \in 1 .. k : f[i] = x
  <2>1. Injection(1 .. Cardinality(S), S) # {}  BY <1>3, Listable, Zenon
  <2>2. LoadOrder(filterRows) = CHOOSE g \in Injection(1 .. Cardinality(S), S) : TRUE  BY <1>2, Zenon DEF LoadOrder
  <2>3. f \in Injection(1 .. Cardinality(S), S)  BY <1>4, <2>1, <2>2, Zenon
  <2> QED  BY <1>3, <1>4, <2>3, Listed
<1>6. filterRows \in [FilterName -> Doc]
  <2>1. [seq |-> 0, doc |-> 0] \in Doc  BY DEF Doc
  <2> QED  BY <1>1, <2>1, IdleWork, Zenon
<1>7. Len(f) = k /\ f \in Seq(S)  BY <1>5
<1>8. f = LoadOrder(filterRows)  BY <1>4, Zenon
<1>0. filtersets = LoadedTable(filterRows) /\ obj = LoadedObjects(filterRows)  BY Zenon DEF FilterSetsInit
<1>21. obj = [i \in 1 .. k |-> [seq |-> filterRows[f[i]].seq, doc |-> filterRows[f[i]].doc,
                                ref_cnt |-> 1, idle |-> FALSE]]
  BY <1>0, <1>7, <1>8, Zenon DEF LoadedObjects
<1>9. \A n \in FilterName : /\ filterRows[n] = Absent => filtersets[n] = 0
                            /\ filterRows[n] # Absent => filtersets[n] \in 1 .. k /\ f[filtersets[n]] = n
  <2>1. ASSUME NEW n \in FilterName, filterRows[n] # Absent
        PROVE  filtersets[n] \in 1 .. k /\ f[filtersets[n]] = n
    <3>1. n \in S  BY <1>2, <2>1, Zenon
    <3>2. \E i \in 1 .. Len(LoadOrder(filterRows)) : LoadOrder(filterRows)[i] = n  BY <1>5, <1>7, <1>8, <3>1, Zenon
    <3>3. filtersets[n] = CHOOSE i \in 1 .. Len(LoadOrder(filterRows)) : LoadOrder(filterRows)[i] = n
      BY <1>0, <2>1, Zenon DEF LoadedTable
    <3>4. filtersets[n] \in 1 .. Len(LoadOrder(filterRows)) /\ LoadOrder(filterRows)[filtersets[n]] = n
      BY <3>2, <3>3, Zenon
    <3> QED  BY <3>4, <1>7, <1>8, Zenon
  <2>2. ASSUME NEW n \in FilterName, filterRows[n] = Absent PROVE filtersets[n] = 0
    BY <1>0, <2>2, Zenon DEF LoadedTable
  <2> QED  BY <2>1, <2>2, Zenon
<1>10. /\ Len(obj) = k /\ obj \in Seq(Object) /\ DOMAIN obj = 1 .. k
       /\ \A i \in 1 .. k : /\ obj[i].seq = filterRows[f[i]].seq /\ obj[i].doc = filterRows[f[i]].doc
                            /\ obj[i].ref_cnt = 1
  <2>1. \A i \in 1 .. k : [seq |-> filterRows[f[i]].seq, doc |-> filterRows[f[i]].doc,
                           ref_cnt |-> 1, idle |-> FALSE] \in Object
    <3>1. ASSUME NEW i \in 1 .. k
          PROVE  [seq |-> filterRows[f[i]].seq, doc |-> filterRows[f[i]].doc, ref_cnt |-> 1, idle |-> FALSE] \in Object
      <4>1. f[i] \in FilterName  BY <1>3, <1>5, Zenon
      <4>2. filterRows[f[i]] \in Doc  BY <1>6, <4>1, Zenon
      <4>3. filterRows[f[i]].seq \in Int /\ filterRows[f[i]].doc \in Int  BY <4>2, Zenon DEF Doc
      <4> QED  BY <4>3 DEF Object
    <3> QED  BY <3>1, Zenon
  <2>2. obj \in [1 .. k -> Object]  BY <1>21, <2>1, Zenon
  <2>3. obj \in Seq(Object) /\ Len(obj) = k  BY <1>5, <2>2
  <2> QED  BY <1>21, <2>2, <2>3, Zenon
<1>11. /\ worker = [t \in FilterThread |-> Idle] /\ uses = S /\ unmarked = {} /\ late = {}
       /\ causes = [n \in FilterName |-> {}] /\ started = 0
  BY <1>2, Zenon DEF FilterSetsInit
<1>12. \A t \in FilterThread : worker[t] = Idle /\ worker[t].at = "idle"  BY <1>11, IdleWork, Zenon
<1>13. FilterTypes
  <2>1. filtersets \in [FilterName -> Nat]
    <3>1. \A n \in FilterName : filtersets[n] \in Nat  BY <1>5, <1>9
    <3>2. filtersets = [n \in FilterName |-> filtersets[n]]  BY <1>0 DEF LoadedTable
    <3> QED  BY <3>1, <3>2, Zenon
  <2>2. worker \in [FilterThread -> Work]  BY <1>11, IdleWork, Zenon
  <2>3. causes \in [FilterName -> SUBSET Cause]  BY <1>11, Zenon
  <2> QED  BY <2>1, <2>2, <2>3, <1>3, <1>6, <1>10, <1>11 DEF FilterTypes
<1>14. Places
  <2>1. ASSUME NEW t \in FilterThread PROVE worker[t].at \in PlaceOf(t)
    <3>1. worker[t].at = "idle"  BY <1>12, Zenon
    <3> QED  BY <3>1, Zenon DEF PlaceOf
  <2> QED  BY <2>1, Zenon DEF Places
<1>15. Pointers
  <2>1. \A n \in FilterName : filtersets[n] <= Len(obj)  BY <1>5, <1>9, <1>10
  <2>2. \A n, m \in FilterName : filtersets[n] = filtersets[m] /\ filtersets[n] # 0 => n = m  BY <1>9, Zenon
  <2>3. \A t \in FilterThread : worker[t].at # "walk"  BY <1>12, Zenon
  <2> QED  BY <2>1, <2>2, <2>3, Zenon DEF Pointers
<1>16. RefsExact
  <2>1. ASSUME NEW o \in 1 .. k
        PROVE  obj[o].ref_cnt = Cardinality({n \in FilterName : filtersets[n] = o})
                   + Cardinality({t \in FilterThread : worker[t].at = "walk" /\ worker[t].o = o})
    <3>1. PICK n \in S : n = f[o]  BY <1>5, Zenon
    <3>2. n \in FilterName /\ filterRows[n] # Absent  BY <1>2, <3>1, Zenon
    <3>3. filtersets[n] \in 1 .. k /\ f[filtersets[n]] = n  BY <1>9, <3>2, Zenon
    <3>4. filtersets[n] = o  BY <1>5, <3>1, <3>3, Zenon
    <3>5. \A m \in FilterName : filtersets[m] = o => m = n
      <4>1. ASSUME NEW m \in FilterName, filtersets[m] = o PROVE m = n
        <5>1. filtersets[m] = filtersets[n] /\ filtersets[n] # 0  BY <3>3, <3>4, <4>1
        <5> QED  BY <5>1, <3>2, <1>15, Zenon DEF Pointers
      <4> QED  BY <4>1, Zenon
    <3>6. PICK A : A = {m \in FilterName : filtersets[m] = o}  BY Zenon
    <3>7. PICK B : B = {t \in FilterThread : worker[t].at = "walk" /\ worker[t].o = o}  BY Zenon
    <3>8. A = {n} /\ B = {}  BY <1>12, <3>2, <3>4, <3>5, <3>6, <3>7, Zenon
    <3>9. Cardinality(A) = 1 /\ Cardinality(B) = 0  BY <3>8, FS_Singleton, FS_EmptySet, Zenon
    <3>10. obj[o].ref_cnt = Cardinality(A) + Cardinality(B)  BY <1>10, <3>9
    <3> QED  BY <3>6, <3>7, <3>10, Zenon
  <2> QED  BY <2>1, <1>10, Zenon DEF RefsExact
<1>17. ChangesMarked  BY <1>11, Zenon DEF ChangesMarked
<1>18. UsedInv
  <2>1. worker["cull"].at = "idle"  BY <1>12, FiniteThreads, Zenon
  <2> QED  BY <2>1, Zenon DEF UsedInv
<1>19. \A t \in Job : worker[t].at = "idle"  BY <1>12, FiniteThreads, Zenon
<1>20. RowsInv
  <2>1. ASSUME NEW n \in FilterName PROVE Agrees(n)
    <3>1. CASE filterRows[n] = Absent  BY <3>1, <1>9, Zenon DEF Agrees
    <3>2. CASE filterRows[n] # Absent
      <4>1. PICK o \in 1 .. k : o = filtersets[n] /\ f[o] = n  BY <1>9, <3>2, Zenon
      <4>2. obj[o].seq = filterRows[n].seq /\ obj[o].doc = filterRows[n].doc  BY <1>10, <4>1, Zenon
      <4>3. filterRows[n] = [seq |-> filterRows[n].seq, doc |-> filterRows[n].doc]
        <5>1. filterRows[n] \in Doc  BY <1>6, Zenon
        <5> QED  BY <5>1, Zenon DEF Doc
      <4>4. filtersets[n] # 0  BY <4>1
      <4> QED  BY <4>1, <4>2, <4>3, <4>4, Zenon DEF Agrees, DocOf
    <3> QED  BY <3>1, <3>2, Zenon
  <2>2. ASSUME NEW n \in FilterName PROVE RowOK(n)
    <3>1. \A t \in Job : ~Changing(t, n)
      <4>1. ASSUME NEW t \in Job PROVE ~Changing(t, n)
        <5>1. worker[t].at = "idle"  BY <1>19, Zenon
        <5> QED  BY <5>1, Zenon DEF Changing
      <4> QED  BY <4>1, Zenon
    <3>2. worker["set"].at = "idle" /\ worker["repl"].at = "idle" /\ worker["cull"].at = "idle" /\ worker["console"].at = "idle"
      BY <1>19, Zenon DEF Job
    <3>3. SetSoFar(n) /\ ReplSoFar(n) /\ CullSoFar(n) /\ RefreshSoFar(n)
      BY <3>2, Zenon DEF SetSoFar, ReplSoFar, CullSoFar, RefreshSoFar
    <3> QED  BY <3>1, <3>3, <2>1, Zenon DEF RowOK
  <2>3. worker["console"].at = "idle"  BY <1>19, Zenon DEF Job
  <2> QED  BY <2>2, <2>3, Zenon DEF RowsInv
<1> QED  BY <1>13, <1>14, <1>15, <1>16, <1>17, <1>18, <1>20, Zenon DEF FiltersInv

-----------------------------------------------------------------------------
(* The theorems *)

\* Every step keeps the invariant.
LEMMA FiltersStep == FiltersInv /\ [FilterSetsNext]_filterSetsVars => FiltersInv'
<1> SUFFICES ASSUME FiltersInv, [FilterSetsNext]_filterSetsVars PROVE FiltersInv'  BY Zenon
<1>1. ASSUME NEW n \in Asked, NEW s \in FilterSeqs, SetBegin(n, s) \/ FilterReplBegin(n, s) PROVE FiltersInv'
  BY <1>1, SetBeginOK, FilterReplBeginOK, Zenon
<1>2. CASE FilterSetStep  BY <1>2, SetRowOK, SetResizeOK, SetCompileOK, SetMarkOK, SetShowOK, Zenon DEF FilterSetStep
<1>3. CASE FilterReplStep
  BY <1>3, ReplSeqOK, ReplCompileOK, ReplMarkOK, ReplRowOK, ReplResizeOK, ReplEndOK, Zenon DEF FilterReplStep
<1>4. ASSUME NEW n \in Asked, FilterDelete(n) PROVE FiltersInv'  BY <1>4, FilterDeleteOK, Zenon
<1>5. CASE CullScan \/ CullStep
  BY <1>5, CullScanOK, CullUsesOK, CullNextOK, CullRemoveOK, CullRowOK, CullEndOK, Zenon DEF CullStep
<1>6. CASE RefreshBegin \/ RefreshStep
  BY <1>6, RefreshBeginOK, RefreshRowOK, RefreshCompileOK, RefreshMarkOK, RefreshEndOK, Zenon DEF RefreshStep
<1>7. ASSUME NEW a \in Applier, (\E n \in Asked : ApplyBegin(a, n)) \/ ApplyEnd(a) PROVE FiltersInv'
  BY <1>7, ApplyOK, Zenon
<1>8. CASE (\E n \in Asked : ShowRunning(n)) \/ ShowRunningEnd  BY <1>8, ShowOK, Zenon
<1>9. ASSUME NEW n \in Asked, Use(n) \/ Unuse(n) \/ TimePasses(n) PROVE FiltersInv'  BY <1>9, UsesOK, Zenon
<1>10. CASE UNCHANGED filterSetsVars
  <2>1. /\ UNCHANGED <<filterRows, filtersets, obj, worker, uses, unmarked, causes, late>>
        /\ started' \in Int
    BY <1>10, Zenon DEF filterSetsVars, FiltersInv, FilterTypes
  <2> QED  BY <2>1, StillOK, Zenon
<1> QED  BY <1>1, <1>2, <1>3, <1>4, <1>5, <1>6, <1>7, <1>8, <1>9, <1>10, Zenon DEF FilterSetsNext

\* The invariant of the filtersets holds in every state.
THEOREM FiltersInductive == FilterSetsSpec => []FiltersInv
BY FiltersStart, FiltersStep, PTL DEF FilterSetsSpec

\* The table of filtersets, the counts, the marks and the rows agree, for any
\* number of filtersets, of threads that apply them and of jobs.
THEOREM TableAndRowsAgree == FilterSetsSpec => []FilterTableAgrees
<1>1. FiltersInv => FilterTableAgrees
  <2> SUFFICES ASSUME FiltersInv PROVE FilterTableAgrees  BY Zenon
  <2>1. RefsExact /\ ChangesMarked /\ RowsInv  BY Zenon DEF FiltersInv
  <2>2. RowsExplained  BY <2>1, Zenon DEF RowsInv, RowOK, Agrees, RowsExplained
  <2> QED  BY <2>1, <2>2, Zenon DEF FilterTableAgrees
<1> QED  BY <1>1, FiltersInductive, PTL

\* A step takes a used filterset out of the table only when it was not in use
\* while the cull went through the checks.
LEMMA UsedStep ==
    ASSUME FiltersInv, [FilterSetsNext]_filterSetsVars,
           NEW m \in uses, filtersets[m] # 0, filtersets'[m] = 0
    PROVE  m \in late
<1>0. FilterTypes /\ Places /\ UsedInv  BY Zenon DEF FiltersInv
<1>1. m \in FilterName /\ filtersets \in [FilterName -> Nat] /\ Len(obj) \in Nat
  BY <1>0 DEF FilterTypes
<1>2. filtersets' # filtersets  BY Zenon
<1>3. ASSUME NEW t, NEW n \in FilterName, NEW d, NEW next, CompileAdd(t, n, d, next) PROVE FALSE
  <2>1. filtersets' = [filtersets EXCEPT ![n] = Len(obj) + 1]  BY <1>2, <1>3, Zenon DEF CompileAdd
  <2>2. filtersets'[m] = Len(obj) + 1 \/ filtersets'[m] = filtersets[m]  BY <1>1, <2>1, Zenon
  <2> QED  BY <1>1, <2>2
<1>4. \A t \in FilterThread : worker[t].n \in FilterName  BY <1>0, WorkFields, Zenon
<1>5. ~SetCompile /\ ~ReplCompile /\ ~RefreshCompile
  BY <1>3, <1>4, FiniteThreads, Zenon DEF SetCompile, ReplCompile, RefreshCompile
<1>6. ~FilterSetStep
  <2>1. ~SetRow  BY <1>2, Zenon DEF SetRow
  <2>2. ~Resize("set", "compile")  BY <1>2, Zenon DEF Resize
  <2>3. ~SetMark /\ ~SetShow  BY <1>2, Zenon DEF SetMark, SetShow
  <2> QED  BY <1>5, <2>1, <2>2, <2>3, Zenon DEF FilterSetStep
<1>7. ~FilterReplStep
  <2>1. ~ReplSeq  BY <1>2, Zenon DEF ReplSeq
  <2>2. ~Resize("repl", "end")  BY <1>2, Zenon DEF Resize
  <2>3. ~ReplMark /\ ~ReplRow /\ ~ReplEnd  BY <1>2, Zenon DEF ReplMark, ReplRow, ReplEnd
  <2> QED  BY <1>5, <2>1, <2>2, <2>3, Zenon DEF FilterReplStep
<1>8. ~RefreshBegin /\ ~RefreshStep
  <2>1. ~RefreshBegin /\ ~RefreshRow  BY <1>2, Zenon DEF RefreshBegin, RefreshRow
  <2>2. ~RefreshMark /\ ~RefreshEnd  BY <1>2, Zenon DEF RefreshMark, RefreshEnd
  <2> QED  BY <1>5, <2>1, <2>2, Zenon DEF RefreshStep
<1>9. ~CullScan /\ ~CullUses /\ ~CullNext /\ ~CullRow /\ ~CullEnd
  BY <1>2, Zenon DEF CullScan, CullUses, CullNext, CullRow, CullEnd
<1>10. \A n \in Asked : \A s \in FilterSeqs : ~SetBegin(n, s) /\ ~FilterReplBegin(n, s)
  BY <1>2, Zenon DEF SetBegin, FilterReplBegin
<1>11. \A n \in Asked : ~FilterDelete(n) /\ ~ShowRunning(n) /\ ~Use(n) /\ ~Unuse(n) /\ ~TimePasses(n)
  BY <1>2, Zenon DEF FilterDelete, ShowRunning, Use, Unuse, TimePasses
<1>12. ~ShowRunningEnd /\ \A a \in Applier : ~ApplyEnd(a) /\ \A n \in Asked : ~ApplyBegin(a, n)
  BY <1>2, Zenon DEF ShowRunningEnd, ApplyBegin, ApplyEnd
<1>13. CullRemove
  <2>1. FilterSetsNext  BY <1>2, Zenon DEF filterSetsVars
  <2> QED  BY <2>1, <1>6, <1>7, <1>8, <1>9, <1>10, <1>11, <1>12, Zenon DEF FilterSetsNext, CullStep
<1>14. worker["cull"].at = "remove" /\ worker["cull"].n = m
  <2>1. worker["cull"].n \in FilterName  BY <1>4, FiniteThreads, Zenon
  <2>2. filtersets' = [filtersets EXCEPT ![worker["cull"].n] = 0]  BY <1>2, <1>13, Zenon DEF CullRemove, RemoveFromName
  <2>3. m # worker["cull"].n => filtersets'[m] = filtersets[m]  BY <1>1, <2>1, <2>2, Zenon
  <2> QED  BY <2>3, <1>13, Zenon DEF CullRemove
<1> QED  BY <1>0, <1>14, Zenon DEF UsedInv

\* A filterset that some check refers to is taken out only by a cull that had
\* gone through the checks before this one was there.
THEOREM UsedFiltersetsKept == FilterSetsSpec => UsedKept
<1>1. FiltersInv /\ [FilterSetsNext]_filterSetsVars =>
        [\A n \in uses : filtersets[n] # 0 /\ filtersets'[n] = 0 => n \in late]_filterSetsVars
  BY UsedStep, Zenon
<1> QED  BY <1>1, FiltersInductive, PTL DEF FilterSetsSpec, UsedKept
=============================================================================
