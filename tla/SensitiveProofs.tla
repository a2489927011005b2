--------------------------- MODULE SensitiveProofs ---------------------------
(***************************************************************************)
(* Proof that a changed field is redacted whenever the cache agrees to it, *)
(* for any set of columns, values and registry entries, and whatever order *)
(* the registry query returns its rows in.                                 *)
(***************************************************************************)
EXTENDS Sensitive, FiniteSetTheorems, SequenceTheorems, WellFoundedInduction, TLAPS

-----------------------------------------------------------------------------
(***************************************************************************)
(* The cache holds registry entries, in some order.                        *)
(***************************************************************************)

\* What the cache, the registry and a refresh under way are made of.
CacheOK ==
  /\ sensitive_fields \subseteq AllEntries
  /\ db_fields \in Seq(AllEntries)
  /\ loading = None \/ loading \in Seq(AllEntries)

\* An order of some entries is a sequence of entries.
LEMMA OrderIsSeq ==
  ASSUME NEW S, S \subseteq AllEntries, NEW s \in SetToSeqs(S)
  PROVE  s \in Seq(AllEntries)
  <1>1. IsFiniteSet(S)
    BY EntriesAssumption, FS_Subset
  <1>2. Cardinality(S) \in Nat
    BY <1>1, FS_CardinalityType
  <1>3. s \in [1..Cardinality(S) -> S]
    BY DEF SetToSeqs
  <1>4. s \in [1..Cardinality(S) -> AllEntries]
    BY <1>3
  <1> QED
    BY <1>2, <1>4

\* Every behaviour keeps CacheOK.
LEMMA CacheInv == Spec => []CacheOK
  <1>1. Init => CacheOK
    <2> SUFFICES ASSUME Init PROVE CacheOK
      OBVIOUS
    <2>1. InitialEntries \subseteq AllEntries
      BY DEF AllEntries
    <2>2. db_fields \in Seq(AllEntries)
      <3>1. CASE db_fields = << >>
        BY <3>1
      <3>2. CASE db_fields \in SetToSeqs(InitialEntries)
        BY <2>1, <3>2, OrderIsSeq
      <3> QED
        BY <3>1, <3>2 DEF Init
    <2> QED
      BY <2>1, <2>2 DEF Init, CacheOK
  <1>2. CacheOK /\ [Next]_vars => CacheOK'
    <2> SUFFICES ASSUME CacheOK, [Next]_vars PROVE CacheOK'
      OBVIOUS
    <2>1. CASE \E entry \in Entries : Tag(entry) \/ Untag(entry)
      <3>1. PICK entry \in Entries : Tag(entry) \/ Untag(entry)
        BY <2>1
      <3>2. entry \in AllEntries
        BY DEF AllEntries
      <3>3. sensitive_fields' \subseteq AllEntries
        BY <3>1, <3>2 DEF Tag, Untag, CacheOK
      <3> QED
        BY <3>1, <3>3 DEF Tag, Untag, CacheOK
    <2>2. CASE RefreshQuery
      <3>1. loading' \in SetToSeqs(sensitive_fields) /\ sensitive_fields \subseteq AllEntries
        BY <2>2 DEF RefreshQuery, CacheOK
      <3>2. loading' \in Seq(AllEntries)
        BY <3>1, OrderIsSeq
      <3> QED
        BY <2>2, <3>2 DEF RefreshQuery, CacheOK
    <2>3. CASE RefreshStore
      BY <2>3 DEF RefreshStore, CacheOK
    <2>4. CASE \/ \E c \in Changes : Capture(c)
               \/ Sent
               \/ UNCHANGED vars
      BY <2>4 DEF Capture, Sent, vars, CacheOK
    <2> QED
      BY <2>1, <2>2, <2>3, <2>4 DEF Next
  <1> QED
    BY <1>1, <1>2, PTL DEF Spec

-----------------------------------------------------------------------------
(***************************************************************************)
(* detect() and redact().                                                  *)
(***************************************************************************)

\* A set of indices that is not empty has a least one.
LEMMA LeastIndex ==
  ASSUME NEW T, T \subseteq Nat, T # {}
  PROVE  \E x \in T : \A y \in T : ~(y < x)
  <1>1. PICK x \in T : \A y \in T : ~(<<y, x>> \in OpToRel(<, Nat))
    BY NatLessThanWellFounded, WFMin
  <1>2. \A y \in T : y < x => <<y, x>> \in OpToRel(<, Nat)
    BY DEF OpToRel
  <1> QED
    BY <1>1, <1>2

\* Where all entries for a field ask for redaction, so does the first.
LEMMA FirstEntryDecides ==
  ASSUME NEW cache \in Seq(AllEntries), NEW f,
         MustRedact({cache[i] : i \in 1..Len(cache)}, f)
  PROVE  DbRedact(cache, f)
  <1> DEFINE T == {i \in 1..Len(cache) : DbMatch(cache[i], f)}
  <1>1. T \subseteq Nat /\ T # {}
    BY DEF MustRedact
  <1>2. PICK i \in T : \A j \in T : ~(j < i)
    BY <1>1, LeastIndex
  <1>3. i \in 1..Len(cache) /\ DbMatch(cache[i], f) /\ Len(cache) \in Nat
    OBVIOUS
  <1>4. cache[i].redact_in_log
    BY <1>3 DEF MustRedact
  <1>5. \A j \in 1..i-1 : ~DbMatch(cache[j], f)
    <2> SUFFICES ASSUME NEW j \in 1..i-1, DbMatch(cache[j], f) PROVE FALSE
      OBVIOUS
    <2>1. j \in 1..Len(cache) /\ j < i
      BY <1>3
    <2> QED
      BY <1>2, <2>1
  <1> QED
    BY <1>3, <1>4, <1>5 DEF DbRedact

\* A field in the matches, with redaction, is hidden in both images.
LEMMA MatchedIsHidden ==
  ASSUME NEW doc, NEW matches, NEW f, [field |-> f, redact |-> TRUE] \in matches
  PROVE  ~Shows(redact(doc, matches), f)
  BY DEF Shows, redact

\* CaptureEvent hides a changed field that is to be redacted.
LEMMA CaptureHides ==
  ASSUME NEW cache \in Seq(AllEntries), NEW c, NEW f \in ChangedFields(c),
         GlobalMatch(f) \/ MustRedact({cache[i] : i \in 1..Len(cache)}, f)
  PROVE  Hides(CaptureEvent(cache, c), f)
  <1> DEFINE matches == detect(cache, ChangedFields(c))
  <1>1. \/ GlobalMatch(f)
        \/ \E i \in 1..Len(cache) : DbMatch(cache[i], f)
    BY DEF MustRedact
  <1>2. GlobalMatch(f) \/ DbRedact(cache, f)
    BY FirstEntryDecides
  <1>3. [field |-> f, redact |-> TRUE] \in matches
    BY <1>1, <1>2 DEF detect
  <1>4. /\ CaptureEvent(cache, c).old_data = redact(c.old, matches)
        /\ CaptureEvent(cache, c).new_data = redact(c.new, matches)
    BY DEF CaptureEvent
  <1> HIDE DEF matches
  <1> QED
    BY <1>3, <1>4, MatchedIsHidden DEF Hides

-----------------------------------------------------------------------------
\* A changed field that is global, or that the cached entries agree to redact,
\* is hidden in the old and in the new image of every event captured.
THEOREM RedactionIsSafe == Spec => ChangedFieldsRedacted
  <1> DEFINE Step ==
        event' # event /\ event' # None =>
          \A f \in event'.changed_fields :
            (GlobalMatch(f) \/ MustRedact({db_fields[i] : i \in 1..Len(db_fields)}, f))
              => Hides(event', f)
  <1>1. CacheOK /\ [Next]_vars => [Step]_vars
    <2> SUFFICES ASSUME CacheOK, Next, event' # event, event' # None,
                        NEW f \in event'.changed_fields,
                        \/ GlobalMatch(f)
                        \/ MustRedact({db_fields[i] : i \in 1..Len(db_fields)}, f)
                 PROVE  Hides(event', f)
      BY DEF vars
    <2>1. PICK c \in Changes : Capture(c)
      BY DEF Next, Tag, Untag, RefreshQuery, RefreshStore, Sent
    <2>2. event' = CaptureEvent(db_fields, c)
      BY <2>1 DEF Capture
    <2>3. f \in ChangedFields(c)
      BY <2>2 DEF CaptureEvent
    <2>4. db_fields \in Seq(AllEntries)
      BY DEF CacheOK
    <2> QED
      BY <2>2, <2>3, <2>4, CaptureHides
  <1> QED
    BY <1>1, CacheInv, PTL DEF Spec, ChangedFieldsRedacted

-----------------------------------------------------------------------------
(***************************************************************************)
(* The shape of the captured events.                                       *)
(***************************************************************************)

\* The images a change can have.
LEMMA ChangeImages ==
  ASSUME NEW c \in Changes
  PROVE  /\ c.old \in Docs \union {None} /\ c.new \in Docs \union {None}
         /\ c.old = None => c.new \in Docs
  <1>1. ASSUME NEW n \in [Fields -> Values] PROVE n \in Docs
    BY DEF Docs
  <1>2. CASE \E o \in Docs \union {None}, n \in [Fields -> Values] :
               c = [old |-> o, new |-> n]
    BY <1>1, <1>2
  <1>3. CASE \E o \in Docs : c = [old |-> o, new |-> None]
    BY <1>3, ValuesAssumption
  <1> QED
    BY <1>2, <1>3 DEF Changes

\* diff_fields() and all_fields() name columns of the table.
LEMMA ChangedAreFields ==
  ASSUME NEW c \in Changes
  PROVE  ChangedFields(c) \subseteq Fields
  <1>1. \A d \in Docs : DOMAIN d \subseteq Fields
    BY DEF Docs
  <1> QED
    BY <1>1, ChangeImages DEF ChangedFields, diff_fields

\* redact() changes values only, and only to "[REDACTED]".
LEMMA RedactType ==
  ASSUME NEW doc \in Docs \union {None}, NEW matches
  PROVE  redact(doc, matches) \in Images \union {None}
  <1>1. CASE doc = None
    BY <1>1 DEF redact
  <1>2. CASE doc # None
    <2>1. PICK D \in SUBSET Fields : doc \in [D -> Values]
      BY <1>2 DEF Docs
    <2>2. redact(doc, matches) \in [D -> Values \union {Redacted}]
      BY <1>2, <2>1 DEF redact
    <2> QED
      BY <2>2 DEF Images
  <1> QED
    BY <1>1, <1>2

\* The matches are of changed fields.
LEMMA DetectsChanged ==
  ASSUME NEW cache, NEW changed
  PROVE  {m.field : m \in detect(cache, changed)} \subseteq changed
  BY DEF detect

\* What is captured from a change is an event of its type.
LEMMA CaptureType ==
  ASSUME NEW cache, NEW c \in Changes
  PROVE  CaptureEvent(cache, c) \in [old_data : Images \union {None},
                                     new_data : Images \union {None},
                                     changed_fields : SUBSET Fields,
                                     sensitive_fields_touched : SUBSET Fields]
  <1> DEFINE matches == detect(cache, ChangedFields(c))
             touched == {m.field : m \in matches}
  <1>1. ChangedFields(c) \subseteq Fields
    BY ChangedAreFields
  <1>2. touched \subseteq Fields
    BY <1>1, DetectsChanged
  <1>3. /\ redact(c.old, matches) \in Images \union {None}
        /\ redact(c.new, matches) \in Images \union {None}
    BY ChangeImages, RedactType
  <1>4. CaptureEvent(cache, c) = [old_data |-> redact(c.old, matches),
                                  new_data |-> redact(c.new, matches),
                                  changed_fields |-> ChangedFields(c),
                                  sensitive_fields_touched |-> touched]
    BY DEF CaptureEvent
  <1> HIDE DEF matches, touched
  <1> QED
    BY <1>1, <1>2, <1>3, <1>4

\* The state always has its type: an event's images have columns of the table
\* only, with their values or "[REDACTED]".
THEOREM TypeCorrect == Spec => []TypeOK
  <1> DEFINE EventOK ==
        event = None \/ event \in [old_data : Images \union {None},
                                   new_data : Images \union {None},
                                   changed_fields : SUBSET Fields,
                                   sensitive_fields_touched : SUBSET Fields]
  <1>1. Init => EventOK
    BY DEF Init
  <1>2. EventOK /\ [Next]_vars => EventOK'
    <2> SUFFICES ASSUME EventOK, [Next]_vars PROVE EventOK'
      OBVIOUS
    <2>1. ASSUME NEW c \in Changes, Capture(c) PROVE EventOK'
      BY <2>1, CaptureType DEF Capture
    <2>2. CASE Sent
      BY <2>2 DEF Sent
    <2>3. CASE UNCHANGED event
      BY <2>3
    <2> QED
      BY <2>1, <2>2, <2>3 DEF Next, Tag, Untag, RefreshQuery, RefreshStore, vars
  <1>3. CacheOK /\ EventOK => TypeOK
    BY DEF CacheOK, TypeOK
  <1> QED
    BY <1>1, <1>2, <1>3, CacheInv, PTL DEF Spec
=============================================================================
