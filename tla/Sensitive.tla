------------------------------ MODULE Sensitive ------------------------------
(***************************************************************************)
(* The sensitive field registry of sensitive.rs and its use by             *)
(* parse_test_decoding() in walcapture.rs: which fields of a captured row  *)
(* change are replaced by "[REDACTED]" before the event is sent.           *)
(*                                                                         *)
(* One table is modelled (the cache is keyed by schema and table, and a    *)
(* change is matched against its own table's entries only). A row image is *)
(* a function from the columns present in it to their values. The registry *)
(* table changes at any time; the cache follows it when the five-minute    *)
(* timer reloads it, in two steps: the query, and the assignment under the *)
(* write lock.                                                             *)
(***************************************************************************)
EXTENDS Naturals, Sequences, FiniteSets, SequencesExt

CONSTANTS
  Fields,        \* column names
  Values,        \* column values
  Redacted,      \* the string "[REDACTED]"
  None,          \* Option::None
  GlobalPaths,   \* VIBE_SENSITIVE_FIELDS, a set of paths
  InitialEntries, \* the rows of sensitive_fields at the start
  Entries         \* the rows that are inserted and deleted later

VARIABLES
  sensitive_fields,  \* the table vibe_audit.sensitive_fields
  db_fields,         \* the cache, entries in the order the query gave them
  loading,           \* refresh_cache between query and assignment, or None
  event              \* the event waiting in tx.send, or None

vars == <<sensitive_fields, db_fields, loading, event>>

\* A path is a field name written with or without the prefix "$.".
Paths == [dollar : BOOLEAN, name : Fields]

Docs == UNION {[D -> Values] : D \in SUBSET Fields}

\* A row change: INSERT has no old image, DELETE no new one. UPDATE has the
\* old image that REPLICA IDENTITY provides: every column that is not null
\* (FULL), the key columns, or none. A new image has every column.
Changes ==
  {[old |-> o, new |-> n] : o \in Docs \union {None}, n \in [Fields -> Values]}
    \union {[old |-> o, new |-> None] : o \in Docs}

AllEntries == Entries \union InitialEntries

ASSUME EntriesAssumption ==
  /\ AllEntries \subseteq [path : Paths, redact_in_log : BOOLEAN]
  /\ IsFiniteSet(AllEntries)
  /\ GlobalPaths \subseteq Paths
ASSUME ValuesAssumption == Redacted \notin Values /\ None \notin Docs

-----------------------------------------------------------------------------
(***************************************************************************)
(* diff_fields, all_fields, detect, redact.                                *)
(***************************************************************************)

\* Keys of new that old lacks or has with another value, then keys of old
\* that new lacks.
diff_fields(old, new) ==
  {f \in DOMAIN new : ~(f \in DOMAIN old /\ old[f] = new[f])}
    \union {f \in DOMAIN old : f \notin DOMAIN new}

\* The match on (&old_data, &new_data) in parse_test_decoding().
ChangedFields(c) ==
  IF c.old = None THEN DOMAIN c.new
  ELSE IF c.new = None THEN DOMAIN c.old
  ELSE diff_fields(c.old, c.new)

\* A global field is compared as it was written in the environment variable;
\* column names do not begin with "$.".
GlobalMatch(f) == \E g \in GlobalPaths : ~g.dollar /\ g.name = f

\* A registry entry is compared after trimming "$.".
DbMatch(entry, f) == entry.path.name = f

\* detect(): the global fields first; otherwise the first entry that matches
\* decides. A match carries whether it asks for redaction.
DbRedact(cache, f) ==
  \E i \in 1..Len(cache) :
    /\ DbMatch(cache[i], f) /\ cache[i].redact_in_log
    /\ \A j \in 1..i-1 : ~DbMatch(cache[j], f)

detect(cache, changed) ==
  {[field |-> f, redact |-> GlobalMatch(f) \/ DbRedact(cache, f)] :
     f \in {g \in changed : \/ GlobalMatch(g)
                            \/ \E i \in 1..Len(cache) : DbMatch(cache[i], g)}}

\* Faulty: redacted values become null.
redactToNull(doc, matches) ==
  IF doc = None THEN None
  ELSE [f \in DOMAIN doc |->
          IF [field |-> f, redact |-> TRUE] \in matches THEN None ELSE doc[f]]

\* redact(): only fields that the image has.
redact(doc, matches) ==
  IF doc = None THEN None
  ELSE [f \in DOMAIN doc |->
          IF [field |-> f, redact |-> TRUE] \in matches THEN Redacted
          ELSE doc[f]]

\* Faulty: the old image is not redacted.
CaptureEventNewOnly(cache, c) ==
  LET matches == detect(cache, ChangedFields(c)) IN
  [old_data       |-> c.old,
   new_data       |-> redact(c.new, matches),
   changed_fields |-> ChangedFields(c),
   sensitive_fields_touched |-> {m.field : m \in matches}]

\* build_data_change_event(), as far as values are concerned.
CaptureEvent(cache, c) ==
  LET matches == detect(cache, ChangedFields(c)) IN
  [old_data       |-> redact(c.old, matches),
   new_data       |-> redact(c.new, matches),
   changed_fields |-> ChangedFields(c),
   sensitive_fields_touched |-> {m.field : m \in matches}]

-----------------------------------------------------------------------------
\* main() runs refresh_cache() before the capture starts; if that fails the
\* cache is still empty.
Init ==
  /\ sensitive_fields = InitialEntries
  /\ db_fields \in SetToSeqs(InitialEntries) \union {<< >>}
  /\ loading = None
  /\ event = None

\* INSERT and DELETE on vibe_audit.sensitive_fields; json_path is unique.
Tag(entry) ==
  /\ \A e \in sensitive_fields : e.path # entry.path
  /\ sensitive_fields' = sensitive_fields \union {entry}
  /\ UNCHANGED <<db_fields, loading, event>>

Untag(entry) ==
  /\ entry \in sensitive_fields
  /\ sensitive_fields' = sensitive_fields \ {entry}
  /\ UNCHANGED <<db_fields, loading, event>>

\* refresh_cache() up to the write lock. The query has no ORDER BY.
RefreshQuery ==
  /\ loading = None
  /\ loading' \in SetToSeqs(sensitive_fields)
  /\ UNCHANGED <<sensitive_fields, db_fields, event>>

\* Faulty: a cache that has entries is never replaced.
RefreshStoreOnce ==
  /\ loading # None
  /\ db_fields' = IF db_fields = << >> THEN loading ELSE db_fields
  /\ loading' = None
  /\ UNCHANGED <<sensitive_fields, event>>

\* *cache = map
RefreshStore ==
  /\ loading # None
  /\ db_fields' = loading
  /\ loading' = None
  /\ UNCHANGED <<sensitive_fields, event>>

\* parse_test_decoding() of one change, up to tx.send().await.
Capture(c) ==
  /\ event = None
  /\ event' = CaptureEvent(db_fields, c)
  /\ UNCHANGED <<sensitive_fields, db_fields, loading>>

\* The channel has taken the event.
Sent ==
  /\ event # None
  /\ event' = None
  /\ UNCHANGED <<sensitive_fields, db_fields, loading>>

-----------------------------------------------------------------------------
Next ==
  \/ \E entry \in Entries : Tag(entry) \/ Untag(entry)
  \/ RefreshQuery
  \/ RefreshStore
  \/ \E c \in Changes : Capture(c)
  \/ Sent

Spec == Init /\ [][Next]_vars

(***************************************************************************)
(* The refresh timer runs in a task of its own; the processor empties the  *)
(* channel. (A refresh that fails leaves everything as it was: it is a     *)
(* stutter, and the fairness says that the database is there at last.)     *)
(***************************************************************************)
FairSpec == Spec /\ WF_vars(RefreshQuery) /\ WF_vars(RefreshStore) /\ WF_vars(Sent)

-----------------------------------------------------------------------------
(***************************************************************************)
(* Correctness properties.                                                 *)
(***************************************************************************)

Images == UNION {[D -> Values \union {Redacted}] : D \in SUBSET Fields}

\* The shape of the state.
TypeOK ==
  /\ sensitive_fields \subseteq AllEntries
  /\ db_fields \in Seq(AllEntries)
  /\ loading = None \/ loading \in Seq(AllEntries)
  /\ event = None \/ event \in [old_data : Images \union {None},
                                  new_data : Images \union {None},
                                  changed_fields : SUBSET Fields,
                                  sensitive_fields_touched : SUBSET Fields]

\* An image shows the value of f.
Shows(doc, f) == doc # None /\ f \in DOMAIN doc /\ doc[f] # Redacted

\* The entries, all of them, ask for f to be redacted, and there is one.
MustRedact(entries, f) ==
  /\ \E e \in entries : DbMatch(e, f)
  /\ \A e \in entries : DbMatch(e, f) => e.redact_in_log

\* Neither image of the event shows f.
Hides(e, f) == ~Shows(e.old_data, f) /\ ~Shows(e.new_data, f)

\* Whatever the order of the cached entries, a changed field that they agree
\* to redact leaves parse_test_decoding() with both its values hidden.
ChangedFieldsRedacted ==
  [][event' # event /\ event' # None =>
       \A f \in event'.changed_fields :
         (GlobalMatch(f) \/ MustRedact({db_fields[i] : i \in 1..Len(db_fields)}, f))
           => Hides(event', f)]_vars

\* A field that stays marked in the registry is, after the next refresh,
\* hidden in every event about its change: a refresh that read the table
\* before the mark does not undo it.
TagTakesEffect ==
  \A f \in Fields :
    []MustRedact(sensitive_fields, f)
      ~> [](event # None /\ f \in event.changed_fields => Hides(event, f))
=============================================================================
