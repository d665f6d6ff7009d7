------------------------------ MODULE Mappings ------------------------------
(***************************************************************************)
(* The add-on's routing table (app/mapping.py), its editors in app/main.py *)
(* and the list of satellites that asked and had no route.  A row sends a  *)
(* satellite and wake word to a list of snapclients, here one value of     *)
(* Targets.  The order of rows counts: of two alike ones the first wins.   *)
(* Names that _norm() reduces to nothing are left out.                     *)
(***************************************************************************)
EXTENDS Naturals, Sequences, SequencesExt

CONSTANTS
    Satellites,       \* satellite ids, as somebody spelled them
    Within,           \* <<a, b>>: _norm(a) is contained in _norm(b)
    WakeWords,        \* wake words, as somebody spelled them
    Alike,            \* <<v, w>>: _norm(v) = _norm(w)
    Targets,          \* lists of snapclients
    Star,             \* the wake word "*"
    NoWord,           \* a request without a wake word
    NotMapped, NoMatch,  \* SatelliteNotMappedError, NoMatchingMappingError
    NoForm,           \* the form was not opened by Edit
    Cap,              \* 12, the length of unmapped_seen
    MaxRows           \* bound: rows

Words == WakeWords \cup {Star}
Keys == Satellites \X Words

ASSUME WithinAssumption ==
    /\ Within \subseteq Satellites \X Satellites
    /\ \A s \in Satellites : <<s, s>> \in Within
    /\ \A r, s, t \in Satellites : <<r, s>> \in Within /\ <<s, t>> \in Within => <<r, t>> \in Within
ASSUME AlikeAssumption ==
    /\ Alike \subseteq Words \X Words
    /\ \A w \in Words : <<w, w>> \in Alike /\ (<<Star, w>> \in Alike => w = Star)
ASSUME CapAssumption == Cap \in Nat \ {0}
ASSUME NoFormAssumption == NoForm \notin Keys

VARIABLES
    mappings,       \* the rows, [sat, word, to]
    unmapped_seen   \* satellites in the order of their first failure

vars == <<mappings, unmapped_seen>>

Rows == [sat : Satellites, word : Words, to : Targets]
KeyOf(m) == <<m.sat, m.word>>

-----------------------------------------------------------------------------
(* resolve().                                                              *)

\* A list comprehension: the rows of the table that are to be kept, in order.
Filter(table, keep) ==
    LET kept[n \in 0 .. Len(table)] ==
          IF n = 0 THEN <<>>
          ELSE IF table[n] \in keep THEN Append(kept[n - 1], table[n]) ELSE kept[n - 1]
    IN  kept[Len(table)]

Own(table, s) == Filter(table, {m \in Rows : m.sat = s})
Loose(table, s) ==
    Filter(table, {m \in Rows : <<s, m.sat>> \in Within \/ <<m.sat, s>> \in Within})

\* A slip: the first of several loose matches is as good as any.
GuessingCandidates(table, s) ==
    IF Own(table, s) # <<>> THEN Own(table, s)
    ELSE IF Loose(table, s) # <<>> THEN <<Head(Loose(table, s))>> ELSE <<>>

Candidates(table, s) ==
    IF Own(table, s) # <<>> THEN Own(table, s)
    ELSE IF Len(Loose(table, s)) = 1 THEN Loose(table, s) ELSE <<>>

Specific(rows, w) == Filter(rows, {m \in Rows : <<m.word, w>> \in Alike})
Wildcard(rows) == Filter(rows, {m \in Rows : m.word = Star})

resolve(table, s, w) ==
    LET rows == Candidates(table, s) IN
    CASE rows = <<>> -> NotMapped
      [] rows # <<>> /\ Specific(rows, w) # <<>> -> Head(Specific(rows, w)).to
      [] rows # <<>> /\ Specific(rows, w) = <<>> /\ Wildcard(rows) # <<>> -> Head(Wildcard(rows)).to
      [] OTHER -> NoMatch

-----------------------------------------------------------------------------
(* upsert(), delete() and the form of ui_mappings_add().                   *)

delete(table, key) == Filter(table, {m \in Rows : KeyOf(m) # key})

\* A slip: every row of the satellite makes way for the new one.
ClearingUpsert(table, key, to) ==
    Append(Filter(table, {m \in Rows : m.sat # key[1]}),
           [sat |-> key[1], word |-> key[2], to |-> to])

upsert(table, key, to) ==
    Append(delete(table, key), [sat |-> key[1], word |-> key[2], to |-> to])

\* A slip: the row the form came from goes even if its key did not move.
Unmoved(key, orig) == orig # NoForm
Moved(key, orig) == orig # NoForm /\ orig # key

SaveForm(table, key, to, orig) ==
    IF Moved(key, orig) THEN delete(upsert(table, key, to), orig) ELSE upsert(table, key, to)

-----------------------------------------------------------------------------
Init == mappings = <<>> /\ unmapped_seen = <<>>

\* POST and DELETE /mappings, and Delete in the UI.
ApiUpsert(key, to) ==
    /\ mappings' = upsert(mappings, key, to)
    /\ Len(mappings') <= MaxRows
    /\ UNCHANGED unmapped_seen

ApiDelete(key) ==
    /\ mappings' = delete(mappings, key)
    /\ UNCHANGED unmapped_seen

\* The form may have been open for any time: its original row may be gone.
UiAdd(key, to, orig) ==
    /\ mappings' = SaveForm(mappings, key, to, orig)
    /\ Len(mappings') <= MaxRows
    /\ UNCHANGED unmapped_seen

\* _note_unmapped(): a dict keeps the place of a key it already has.
Untrimmed(seen) == seen                                              \* a slip
Trimmed(seen) == IF Len(seen) > Cap THEN Tail(seen) ELSE seen
note_unmapped(s) ==
    unmapped_seen' = IF Contains(unmapped_seen, s) THEN unmapped_seen
                     ELSE Trimmed(Append(unmapped_seen, s))

\* announce notes only a satellite that has no candidates; hold and release note
\* one whose rows do not fit the wake word as well.
Refused(s, w) ==
    /\ \/ resolve(mappings, s, w) = NotMapped
       \/ resolve(mappings, s, w) = NoMatch
    /\ note_unmapped(s)
    /\ UNCHANGED mappings

Next ==
    \/ \E key \in Keys, to \in Targets :
          ApiUpsert(key, to) \/ \E orig \in Keys \cup {NoForm} : UiAdd(key, to, orig)
    \/ \E key \in Keys : ApiDelete(key)
    \/ \E s \in Satellites, w \in Words \cup {NoWord} : Refused(s, w)

Spec == Init /\ [][Next]_vars

-----------------------------------------------------------------------------
(* Properties.  They quantify over the edits and requests that each table  *)
(* can meet next.                                                          *)

RowSet(table) == {table[i] : i \in DOMAIN table}

\* No two rows share a key; the unmapped list is capped, without duplicates.
TypeOK ==
    /\ mappings \in Seq(Rows)
    /\ \A i, j \in DOMAIN mappings : KeyOf(mappings[i]) = KeyOf(mappings[j]) => i = j
    /\ unmapped_seen \in Seq(Satellites)
    /\ Len(unmapped_seen) <= Cap
    /\ IsInjective(unmapped_seen)

\* What was saved is what is routed from then on, for the wake word as it was
\* typed, whatever row the form came from -- unless a row with another spelling
\* of that wake word is left, which wins by being older (mapping.py:51-55).
SaveTakesEffect ==
    \A key \in Keys, to \in Targets, orig \in Keys \cup {NoForm} :
        LET table == SaveForm(mappings, key, to, orig)
            rivals == {m \in RowSet(table) : m.sat = key[1] /\ m.word # key[2] /\ <<m.word, key[2]>> \in Alike}
        IN  rivals = {} => resolve(table, key[1], key[2]) = to

\* Saving a form replaces the row of its key and drops the row it came from, and
\* no other row ("the original would survive as an orphan, silently
\* double-routing that satellite", main.py:931-932).
SaveTouchesItsRowsOnly ==
    \A key \in Keys, to \in Targets, orig \in Keys \cup {NoForm} :
        LET others(table) == Filter(table, {m \in Rows : KeyOf(m) \notin {key, orig}})
            table == SaveForm(mappings, key, to, orig)
        IN  /\ others(table) = others(mappings)
            /\ RowSet(table) \ RowSet(others(table)) = {[sat |-> key[1], word |-> key[2], to |-> to]}

\* The answer is never a guess: it comes from a row of the satellite itself or,
\* if it has none, from the only row alike in name ("an ambiguous match would
\* route audio to the wrong room", mapping.py:35-36); a wildcard row answers
\* only if no row names the wake word; and of several that do, the oldest.
NeverWrongRoom ==
    \A s \in Satellites, w \in Words \cup {NoWord} :
        LET rows == DOMAIN mappings
            own == {i \in rows : mappings[i].sat = s}
            alike == {i \in rows : {<<s, mappings[i].sat>>, <<mappings[i].sat, s>>} \cap Within # {}}
            fits == {i \in rows : <<mappings[i].word, w>> \in Alike}
            eligible == {i \in rows : i \in own \/ (own = {} /\ alike = {i})}
            best == IF eligible \cap fits # {} THEN eligible \cap fits
                    ELSE {i \in eligible : mappings[i].word = Star}
            answer == resolve(mappings, s, w)
        IN  IF best = {} THEN answer \in {NotMapped, NoMatch}
            ELSE \E i \in best : answer = mappings[i].to /\ \A j \in best : i <= j
=============================================================================
