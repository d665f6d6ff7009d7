-------------------------- MODULE AnnouncingProofs --------------------------
(***************************************************************************)
(* Proofs about module Announcing, for any number of satellites, calls,    *)
(* breaks and reloads.                                                     *)
(***************************************************************************)
EXTENDS Announcing, TLAPS

-----------------------------------------------------------------------------
(* Never wedged.                                                           *)

Inv == TypeOK /\ NoStuckOn

\* No sensor is on at first.
LEMMA InitInv == Init => Inv
  BY MappedAssumption DEF Init, Inv, TypeOK, NoStuckOn

\* Signals that a service call sends change its own satellite's sensors only.
LEMMA EndsLemma ==
    ASSUME Inv, NEW c \in Calls, Ends(c), UNCHANGED <<known, listening, sat>>
    PROVE  /\ NoStuckOn'
           /\ sensor' \in [Satellites -> {"unavailable", "off", "on"}]
           /\ \A s \in Satellites : sensor'[s] # "unavailable" => s \in known
           /\ active' \subseteq active
           /\ pc' \in [Calls -> {"idle", "awaiting", "over"}]
  <1>1. /\ sensor' \in [Satellites -> {"unavailable", "off", "on"}]
        /\ \A s \in Satellites : sensor'[s] # "unavailable" => s \in known
        /\ active' = active \ {sat[c]}
        /\ pc' = [pc EXCEPT ![c] = "over"]
        /\ pc' \in [Calls -> {"idle", "awaiting", "over"}]
    BY DEF Inv, TypeOK, Ends, SetState, Discards
  <1>2. NoStuckOn'
    <2> SUFFICES ASSUME NEW s \in Satellites, sensor'[s] = "on" \/ s \in active'
                 PROVE  \E d \in Calls : sat[d] = s /\ pc'[d] = "awaiting"
      BY DEF NoStuckOn
    <2>1. sat[c] # s
      BY <1>1 DEF Inv, TypeOK, Ends, SetState
    <2>2. sensor[s] = "on" \/ s \in active
      BY <1>1, <2>1 DEF Inv, TypeOK, Ends, SetState
    <2>3. PICK d \in Calls : sat[d] = s /\ pc[d] = "awaiting"
      BY <2>2 DEF Inv, NoStuckOn
    <2> QED
      BY <1>1, <2>1, <2>3 DEF Inv, TypeOK
  <1> QED
    BY <1>1, <1>2

\* Every step preserves the invariant.
LEMMA NextInv == Inv /\ [Next]_vars => Inv'
  <1> SUFFICES ASSUME Inv, [Next]_vars PROVE Inv'
    OBVIOUS
  <1> USE MappedAssumption
  <1>1. ASSUME NEW c \in Calls, Announce(c) PROVE Inv'
    <2>1. TypeOK'
      BY <1>1 DEF Inv, TypeOK, Announce, SetState, Adds, Underway
    <2>2. NoStuckOn'
      <3> SUFFICES ASSUME NEW s \in Satellites, sensor'[s] = "on" \/ s \in active'
                   PROVE  \E d \in Calls : sat[d] = s /\ pc'[d] = "awaiting"
        BY <1>1 DEF NoStuckOn, Announce
      <3>1. CASE s = sat[c]
        BY <1>1, <3>1 DEF Inv, TypeOK, Announce
      <3>2. CASE s # sat[c]
        <4>1. sensor[s] = "on" \/ s \in active
          BY <1>1, <3>2 DEF Inv, TypeOK, Announce, SetState, Adds
        <4>2. PICK d \in Calls : sat[d] = s /\ pc[d] = "awaiting"
          BY <4>1 DEF Inv, NoStuckOn
        <4> QED
          BY <1>1, <4>2 DEF Inv, TypeOK, Announce
      <3> QED
        BY <3>1, <3>2
    <2> QED
      BY <2>1, <2>2 DEF Inv
  <1>2. ASSUME NEW c \in Calls, Returns(c) \/ BreaksOff(c) PROVE Inv'
    <2>1. /\ Ends(c) /\ UNCHANGED <<known, listening, sat, addon>>
          /\ troubled' \in {troubled, troubled \cup {sat[c]}}
      BY <1>2 DEF Returns, BreaksOff
    <2> QED
      BY <2>1, EndsLemma DEF Inv, TypeOK
  <1>3. ASSUME NEW c \in Calls,
               Plays(c) \/ PlaybackEnds(c) \/ AnswerFails(c) \/ LeavesBehind(c)
        PROVE  Inv'
    BY <1>3
    DEF Inv, TypeOK, NoStuckOn, Plays, PlaybackEnds, AnswerFails, LeavesBehind, entityVars
  <1>4. ASSUME NEW s \in Satellites, SatelliteAdded(s) PROVE Inv'
    BY <1>4 DEF Inv, TypeOK, NoStuckOn, SatelliteAdded, callVars
  <1>5. CASE SharedAdded
    BY <1>5 DEF Inv, TypeOK, NoStuckOn, SharedAdded, callVars
  <1>6. CASE Reload
    BY <1>6 DEF Inv, TypeOK, NoStuckOn, Reload, callVars
  <1>7. CASE Rest \/ UNCHANGED vars
    BY <1>7 DEF Inv, TypeOK, NoStuckOn, Rest, vars, entityVars, callVars
  <1> QED
    BY <1>1, <1>2, <1>3, <1>4, <1>5, <1>6, <1>7 DEF Next

\* A satellite is never wedged in "replying" (services.py:147-148): a sensor is on
\* only while a call for its satellite is under way, through failures, lost calls,
\* overlapping answers, entities that are still being added, and reloads.
THEOREM NeverWedged == Spec => []NoStuckOn
  <1>1. Inv => NoStuckOn
    BY DEF Inv
  <1> QED
    BY <1>1, InitInv, NextInv, PTL DEF Spec

\* The types, and that the shared sensor lists nobody before it has connected.
THEOREM AnnouncingTyping == Spec => []TypeOK
  <1>1. Inv => TypeOK
    BY DEF Inv
  <1> QED
    BY <1>1, InitInv, NextInv, PTL DEF Spec

-----------------------------------------------------------------------------
(* Off means over.                                                         *)

Busy(c) == pc[c] = "awaiting" \/ Underway(c)

\* A satellite without trouble has one call under way at most, and waits for it; no
\* answer of its own has been left to snapserver.
Single ==
    /\ \A c \in Calls : addon[c] # "none" => pc[c] # "idle"
    /\ \A c \in Calls : addon[c] = "left" => sat[c] \in troubled
    /\ \A c \in Calls : Underway(c) /\ sat[c] \notin troubled => pc[c] = "awaiting"
    /\ \A c, d \in Calls :
          sat[c] = sat[d] /\ sat[c] \notin troubled /\ Busy(c) /\ Busy(d) => c = d

\* Every step preserves it.
LEMMA NextSingle == TypeOK /\ Single /\ [Next]_vars => Single'
  <1> SUFFICES ASSUME TypeOK, Single, [Next]_vars PROVE Single'
    OBVIOUS
  <1>1. ASSUME NEW c \in Calls, Announce(c) PROVE Single'
    <2>1. /\ sat' = sat /\ troubled \subseteq troubled'
          /\ \A d \in Calls \ {c} : pc'[d] = pc[d] /\ addon'[d] = addon[d]
          /\ pc'[c] = "awaiting" /\ addon'[c] \in {"queued", "failed"}
      BY <1>1 DEF Announce, TypeOK
    <2>2. sat[c] \notin troubled' => \A d \in Calls : sat[d] = sat[c] => ~Busy(d)
      BY <1>1 DEF Announce, Busy, Underway
    <2> QED
      BY <2>1, <2>2 DEF Single, Busy, Underway
  <1>2. ASSUME NEW c \in Calls, Returns(c) PROVE Single'
    BY <1>2 DEF Returns, Answered, Ends, Single, Busy, Underway, TypeOK
  <1>3. ASSUME NEW c \in Calls, BreaksOff(c) PROVE Single'
    BY <1>3 DEF BreaksOff, Ends, Single, Busy, Underway, TypeOK
  <1>4. ASSUME NEW c \in Calls,
               Plays(c) \/ PlaybackEnds(c) \/ AnswerFails(c) \/ LeavesBehind(c)
        PROVE  Single'
    BY <1>4
    DEF Plays, PlaybackEnds, AnswerFails, LeavesBehind, Single, Busy, Underway, TypeOK
  <1>5. CASE UNCHANGED <<pc, sat, addon, troubled>>
    BY <1>5 DEF Single, Busy, Underway
  <1> QED
    BY <1>1, <1>2, <1>3, <1>4, <1>5
    DEF Next, SatelliteAdded, SharedAdded, Reload, Rest, vars, callVars

\* Only the end of a call of its own turns a satellite's sensors off.
LEMMA OffLemma ==
    ASSUME TypeOK, [Next]_vars, NEW s \in Satellites, GoesOff(s)
    PROVE  \E c \in Calls : sat[c] = s /\ (Returns(c) \/ BreaksOff(c))
  <1>1. ASSUME NEW c \in Calls, Announce(c) PROVE FALSE
    BY <1>1 DEF Announce, GoesOff, SetState, Adds, TypeOK
  <1>2. ASSUME NEW c \in Calls, Returns(c) \/ BreaksOff(c) PROVE sat[c] = s
    BY <1>2 DEF Returns, BreaksOff, Ends, GoesOff, SetState, Discards, TypeOK
  <1>3. ASSUME NEW c \in Calls,
               Plays(c) \/ PlaybackEnds(c) \/ AnswerFails(c) \/ LeavesBehind(c)
        PROVE  FALSE
    BY <1>3 DEF Plays, PlaybackEnds, AnswerFails, LeavesBehind, GoesOff, entityVars
  <1>4. ASSUME NEW t \in Satellites, SatelliteAdded(t) PROVE FALSE
    BY <1>4 DEF SatelliteAdded, GoesOff, TypeOK
  <1>5. CASE SharedAdded
    BY <1>5 DEF SharedAdded, GoesOff
  <1>6. CASE Reload
    BY <1>6 DEF Reload, GoesOff
  <1>7. CASE Rest \/ UNCHANGED vars
    BY <1>7 DEF Rest, GoesOff, vars, entityVars
  <1> QED
    BY <1>1, <1>2, <1>3, <1>4, <1>5, <1>6, <1>7 DEF Next

\* What a step does, given the invariants.
LEMMA OffStep ==
    ASSUME TypeOK, Single, [Next]_vars,
           NEW s \in Satellites, GoesOff(s), s \notin troubled',
           NEW d \in Calls, sat[d] = s
    PROVE  ~Underway(d)'
  <1>1. PICK c \in Calls : sat[c] = s /\ (Returns(c) \/ BreaksOff(c))
    BY OffLemma
  <1>2. Returns(c)
    BY <1>1 DEF BreaksOff, TypeOK
  <1>3. pc[c] = "awaiting" /\ ~Underway(c) /\ addon' = addon /\ troubled' = troubled
    BY <1>1, <1>2 DEF Returns, Answered, Underway, Single
  <1> QED
    BY <1>1, <1>3 DEF Single, Busy, Underway

\* A sensor that goes off tells a satellite that its answer is over
\* (binary_sensor.py:5-7), unless one of its calls ever overlapped another, broke off
\* before its request was over, or failed with the group left on its answer: refused
\* calls, failures that give the group back, and reloads do no harm.
THEOREM OffIsOver == Spec => OffMeansOver
  <1>1. Init => Single
    BY DEF Init, Single, Busy, Underway
  <1>2. Spec => [](TypeOK /\ Single)
    BY <1>1, NextSingle, AnnouncingTyping, PTL DEF Spec
  <1> DEFINE Step ==
        \A s \in Satellites :
           GoesOff(s) /\ s \notin troubled' => \A c \in Calls : sat[c] = s => ~Underway(c)'
  <1>3. TypeOK /\ Single /\ [Next]_vars => [Step]_vars
    BY OffStep
  <1>4. Spec => [][Step]_vars
    BY <1>2, <1>3, PTL DEF Spec
  <1> QED
    BY <1>4 DEF OffMeansOver
=============================================================================
