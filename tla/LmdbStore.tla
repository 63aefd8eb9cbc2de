----------------------------- MODULE LmdbStore ------------------------------
(***************************************************************************)
(* The database of checks (noit_lmdb_tools.c, the writers of               *)
(* noit_check_lmdb.c): rows under composed keys, written by several        *)
(* threads in LMDB transactions under the shared side of the instance's    *)
(* lock, and the growth of a map that ran full, under its exclusive side.  *)
(* A row is told from the others of its check by a type, a namespace and a *)
(* name, each text a sequence of letters.                                  *)
(***************************************************************************)
EXTENDS Integers, Sequences, FiniteSets, SequencesExt

CONSTANTS
  Writer,            \* threads
  CheckOf,           \* the check each of them writes
  RowTypes,          \* 'A' attributes, 'C' configuration
  RowTexts,          \* namespaces and names
  RowSets,           \* sets of rows a check may be given
  InitialMap,        \* rows the map holds at first
  MaxWrites

NOIT_LMDB_RESIZE_FACTOR == 2

LmdbAssumption ==
  /\ InitialMap \in Nat \ {0} /\ MaxWrites \in Nat
  /\ \A R \in RowSets : \A r \in R :
       r.type \in RowTypes /\ r.ns \in RowTexts \cup {<<>>} /\ r.name \in RowTexts
ASSUME LmdbAssumption

VARIABLES
  lmdb,              \* the keys committed
  mapsize,           \* rows the map holds
  mapgen,            \* the instance's generation
  writers,           \* thread -> what it is doing
  wanted,            \* check -> the rows it was last given
  writes             \* operations begun so far

lmdbVars == <<lmdb, mapsize, mapgen, writers, wanted, writes>>

-----------------------------------------------------------------------------
\* noit_lmdb_make_check_key: the check, the type, and the two texts after
\* their lengths.
noit_lmdb_make_check_key(c, r) ==
  <<c, r.type, Len(r.ns)>> \o r.ns \o <<Len(r.name)>> \o r.name

\* noit_lmdb_check_data_from_key.
noit_lmdb_check_data_from_key(key) ==
  LET n == key[3]
      ns == SubSeq(key, 4, 3 + n)
      k == key[4 + n]
  IN  [id |-> key[1], type |-> key[2], ns |-> ns,
       name |-> SubSeq(key, 5 + n, 4 + n + k)]

\* noit_lmdb_check_keys_to_hash_table: the keys that begin with the check.
noit_lmdb_check_keys_to_hash_table(c) == {key \in lmdb : key[1] = c}

KeysOf(c, R) == {noit_lmdb_make_check_key(c, r) : r \in R}

IdleWriter == [pc |-> "idle"]

WritersInside == {w \in Writer : writers[w].pc = "write"}

LmdbInit ==
  /\ lmdb = {} /\ mapsize = InitialMap /\ mapgen = 0 /\ writes = 0
  /\ writers = [w \in Writer |-> IdleWriter]
  /\ wanted = [c \in {CheckOf[w] : w \in Writer} |-> {}]

-----------------------------------------------------------------------------
\* put_retry: the shared lock, and the keys there are, read in a transaction
\* of their own.
Locked(w, R) ==
  writers' = [writers EXCEPT ![w] =
    [pc |-> "write", rows |-> R,
     conf_table |-> noit_lmdb_check_keys_to_hash_table(CheckOf[w])]]

ConfigureBegins(w, R) ==
  /\ writers[w].pc = "idle" /\ writes < MaxWrites
  /\ writes' = writes + 1
  /\ Locked(w, R)
  /\ UNCHANGED <<lmdb, mapsize, mapgen, wanted>>

Retry(w) ==
  /\ writers[w].pc = "retry"
  /\ Locked(w, writers[w].rows)
  /\ UNCHANGED <<lmdb, mapsize, mapgen, wanted, writes>>

\* The write transaction: the rows are put, what else was there is deleted.
\* A map that runs full aborts it; the generation is noted before the lock is
\* given back.
Write(w) ==
  LET c == CheckOf[w]
      put == KeysOf(c, writers[w].rows)
  IN  /\ writers[w].pc = "write"
      /\ IF Cardinality(lmdb \cup put) > mapsize
         THEN /\ writers' = [writers EXCEPT ![w] =
                    [pc |-> "resize", rows |-> writers[w].rows, seen |-> mapgen]]
              /\ UNCHANGED <<lmdb, wanted>>
         ELSE /\ lmdb' = (lmdb \cup put) \ (writers[w].conf_table \ put)
              /\ wanted' = [wanted EXCEPT ![c] = writers[w].rows]
              /\ writers' = [writers EXCEPT ![w] = IdleWriter]
      /\ UNCHANGED <<mapsize, mapgen, writes>>

\* noit_lmdb_resize_instance: once nobody holds the lock, and only by the
\* first of those that met the same map full.
noit_lmdb_resize_instance(w) ==
  /\ writers[w].pc = "resize" /\ WritersInside = {}
  /\ IF writers[w].seen = mapgen
     THEN /\ mapsize' = mapsize * NOIT_LMDB_RESIZE_FACTOR
          /\ mapgen' = mapgen + 1
     ELSE UNCHANGED <<mapsize, mapgen>>
  /\ writers' = [writers EXCEPT ![w] = [pc |-> "retry", rows |-> @.rows]]
  /\ UNCHANGED <<lmdb, wanted, writes>>

\* noit_check_lmdb_remove_check_from_db: all under the exclusive lock.
noit_check_lmdb_remove_check_from_db(w) ==
  /\ writers[w].pc = "idle" /\ WritersInside = {} /\ writes < MaxWrites
  /\ writes' = writes + 1
  /\ lmdb' = lmdb \ noit_lmdb_check_keys_to_hash_table(CheckOf[w])
  /\ wanted' = [wanted EXCEPT ![CheckOf[w]] = {}]
  /\ UNCHANGED <<mapsize, mapgen, writers>>

LmdbNext ==
  \E w \in Writer :
    \/ \E R \in RowSets : ConfigureBegins(w, R)
    \/ Retry(w)
    \/ Write(w)
    \/ noit_lmdb_resize_instance(w)
    \/ noit_check_lmdb_remove_check_from_db(w)

-----------------------------------------------------------------------------
(* What is read back of a check, row by row through its keys, is what it    *)
(* was last given: no row of an earlier configuration is left, none of      *)
(* another check is taken for one of its own, and no two rows share a key,  *)
(* whatever transactions ran full and were tried again.                     *)
RowsReadBack ==
  \A c \in DOMAIN wanted :
    {noit_lmdb_check_data_from_key(key) :
       key \in noit_lmdb_check_keys_to_hash_table(c)}
      = {[id |-> c, type |-> r.type, ns |-> r.ns, name |-> r.name] : r \in wanted[c]}

(* Several writers that meet the same map full make it grow once: it never  *)
(* grows past what the largest transaction could have needed twice over.    *)
LargestNeed ==
  LET largest == CHOOSE n \in {Cardinality(R) : R \in RowSets} :
                   \A R \in RowSets : Cardinality(R) <= n
  IN  largest * (Cardinality(DOMAIN wanted) + 1)

GrowsOnce == mapsize = InitialMap \/ mapsize < NOIT_LMDB_RESIZE_FACTOR * LargestNeed

=============================================================================
