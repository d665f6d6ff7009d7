---------------------------- MODULE RosterProofs ----------------------------
(***************************************************************************)
(* Proofs about module Roster: for any number of satellites, areas, wake   *)
(* words, changes, mishaps and reloads, the newest roster is never simply  *)
(* forgotten.                                                              *)
(***************************************************************************)
EXTENDS Roster, TLAPS

\* The inductive invariant: what is to be proved needs only the types.
RosterInv == TypeOK /\ NothingForgotten

-----------------------------------------------------------------------------
(* What collect() returns.                                                 *)

\* Whatever the registries hold, collect() returns a roster.
LEMMA CollectType ==
  ASSUME reg \in [Satellites -> Facts], title \in [Areas -> Titles]
  PROVE  Collect \in Rosters
<1>1. ASSUME NEW s \in Satellites
      PROVE  [area |-> AreaName(AreaOf(s)), status |-> Status(s), word |-> reg[s].word] \in Entries
  <2>1. reg[s] \in Facts
    OBVIOUS
  <2>2. AreaOf(s) \in Areas \cup {NoArea}
    BY <2>1 DEF AreaOf, Facts
  <2>3. AreaName(AreaOf(s)) \in {<<>>} \cup (Areas \X Titles)
    BY <2>2 DEF AreaName
  <2>4. Status(s) \in {"online", "offline", "unknown", "disabled"}
    BY DEF Status, Availability
  <2>5. QED BY <2>1, <2>3, <2>4 DEF Entries, Facts
<1>2. Known \in SUBSET Satellites
  BY DEF Known
<1>3. Collect \in [Known -> Entries]
  BY <1>1, <1>2 DEF Collect
<1>4. QED BY <1>2, <1>3 DEF Rosters

\* Taking a POST out leaves a sequence of rosters.
LEMMA WithoutType ==
  ASSUME posts \in Seq(Rosters \ {Empty}), NEW i \in DOMAIN posts
  PROVE  /\ Without(i) \in Seq(Rosters \ {Empty})
         /\ Len(Without(i)) = Len(posts) - 1
         /\ i # Len(posts) => /\ Without(i) # <<>>
                              /\ Without(i)[Len(Without(i))] = posts[Len(posts)]
         /\ Len(posts) = 1 => Without(i) = <<>>
<1> DEFINE n == Len(posts) - 1
           w == Without(i)
<1>1. n \in Nat /\ i \in 1 .. n + 1 /\ DOMAIN w = 1 .. n
  BY DEF Without
<1>2. \A j \in 1 .. n : w[j] \in Rosters \ {Empty}
  BY <1>1 DEF Without
<1>3. w \in Seq(Rosters \ {Empty}) /\ Len(w) = n
  BY <1>1, <1>2 DEF Without
<1>4. ASSUME i # Len(posts) PROVE w # <<>> /\ w[n] = posts[Len(posts)]
  <2>1. n > 0 /\ ~(n < i)
    BY <1>1, <1>4
  <2>2. QED BY <1>1, <1>3, <2>1 DEF Without
<1>5. ASSUME Len(posts) = 1 PROVE w = <<>>
  BY <1>3, <1>5
<1>6. QED BY <1>3, <1>4, <1>5

\* A change that the roster does not show.
LEMMA SameCollect ==
  ASSUME reg \in [Satellites -> Facts], reg' \in [Satellites -> Facts],
         title' = title, Known' = Known,
         \A s \in Known : /\ AreaOf(s)' = AreaOf(s) /\ Status(s)' = Status(s)
                          /\ reg'[s].word = reg[s].word
  PROVE  Collect' = Collect
BY DEF Collect, AreaName, Known

-----------------------------------------------------------------------------
(* One lemma for each part of Next.                                        *)

\* The entry may forget nothing as long as a change in Home Assistant that shows in
\* the roster arms the timer, or is one of those that nobody watches.
LEMMA ChangeLemma ==
  ASSUME RosterInv, loaded' = loaded, running' = running, ready' = ready,
         posts' = posts, shown' = shown,
         timer => timer', missed => missed',
         loaded => timer' \/ missed' \/ Collect' = Collect
  PROVE  NothingForgotten'
BY DEF RosterInv, NothingForgotten, TypeOK

\* What such a change has to leave well-typed.
LEMMA ChangeType ==
  ASSUME TypeOK, Silent, reg' \in [Satellites -> Facts], title' \in [Areas -> Titles],
         timer' \in BOOLEAN, missed' \in BOOLEAN, changes' \in Nat
  PROVE  TypeOK'
BY DEF TypeOK, Silent

\* Registry events.
LEMMA RegistryLemma ==
  ASSUME RosterInv, NEW s \in Satellites, NEW a \in Areas \cup {NoArea}, NEW d \in BOOLEAN,
         EntityCreated(s) \/ EntityRemoved(s) \/ EntityMoved(s, a) \/ Disabled(s, d)
  PROVE  RosterInv'
<1>1. TypeOK'
  <2>1. reg' \in [Satellites -> Facts]
    <3>1. CASE EntityCreated(s)
      BY <3>1 DEF RosterInv, TypeOK, EntityCreated, Facts
    <3>2. CASE EntityRemoved(s)
      BY <3>2 DEF RosterInv, TypeOK, EntityRemoved, Facts
    <3>3. CASE EntityMoved(s, a)
      BY <3>3 DEF RosterInv, TypeOK, EntityMoved, Facts
    <3>4. CASE Disabled(s, d)
      BY <3>4 DEF RosterInv, TypeOK, Disabled, Facts
    <3>5. QED BY <3>1, <3>2, <3>3, <3>4
  <2>2. title' \in [Areas -> Titles]
    BY DEF RosterInv, TypeOK, EntityCreated, EntityRemoved, EntityMoved, Disabled, Titles
  <2>3. timer' \in BOOLEAN
    BY DEF RosterInv, TypeOK, EntityCreated, EntityRemoved, EntityMoved, Disabled, Schedules
  <2>4. missed' \in BOOLEAN
    BY DEF RosterInv, TypeOK, EntityCreated, EntityRemoved, EntityMoved, Disabled
  <2>5. changes' \in Nat
    BY DEF RosterInv, TypeOK, EntityCreated, EntityRemoved, EntityMoved, Disabled, Changes
  <2>6. Silent
    BY DEF EntityCreated, EntityRemoved, EntityMoved, Disabled
  <2>7. QED BY <2>1, <2>2, <2>3, <2>4, <2>5, <2>6, ChangeType DEF RosterInv
<1>2. /\ loaded' = loaded /\ running' = running /\ ready' = ready
      /\ posts' = posts /\ shown' = shown
  BY DEF RosterInv, TypeOK, EntityCreated, EntityRemoved, EntityMoved, Disabled,
         Schedules, Silent
<1>3. loaded => timer' \/ missed'
  BY DEF RosterInv, TypeOK, EntityCreated, EntityRemoved, EntityMoved, Disabled,
         Schedules, EntityEventAffects, EntityFields
<1>4. timer => timer'
  BY DEF EntityCreated, EntityRemoved, EntityMoved, Disabled, Schedules
<1>5. missed => missed'
  BY DEF EntityCreated, EntityRemoved, EntityMoved, Disabled
<1>6. loaded => timer' \/ missed' \/ Collect' = Collect
  BY <1>3
<1>7. NothingForgotten'
  BY <1>2, <1>4, <1>5, <1>6, ChangeLemma
<1>8. QED BY <1>1, <1>7 DEF RosterInv

\* A device that moves matters only if it carries a satellite.
LEMMA DeviceLemma ==
  ASSUME RosterInv, NEW s \in Satellites, NEW a \in Areas \cup {NoArea}, DeviceMoved(s, a)
  PROVE  RosterInv'
<1>1. TypeOK'
  <2>1. reg' \in [Satellites -> Facts]
    BY DEF RosterInv, TypeOK, DeviceMoved, Facts, States
  <2>2. title' \in [Areas -> Titles]
    BY DEF RosterInv, TypeOK, DeviceMoved, Titles
  <2>3. timer' \in BOOLEAN
    BY DEF RosterInv, TypeOK, DeviceMoved, Schedules
  <2>4. missed' \in BOOLEAN
    BY DEF RosterInv, TypeOK, DeviceMoved
  <2>5. changes' \in Nat
    BY DEF RosterInv, TypeOK, DeviceMoved, Changes
  <2>6. Silent
    BY DEF DeviceMoved
  <2>7. QED BY <2>1, <2>2, <2>3, <2>4, <2>5, <2>6, ChangeType DEF RosterInv
<1>2. /\ loaded' = loaded /\ running' = running /\ ready' = ready
      /\ posts' = posts /\ shown' = shown
  BY DEF RosterInv, TypeOK, DeviceMoved, Schedules, Silent
<1>3. loaded => timer' \/ Collect' = Collect
  <2>1. CASE reg[s].known
    BY <2>1 DEF RosterInv, TypeOK, DeviceMoved, Schedules, DeviceEventAffects, DeviceFields
  <2>2. CASE ~reg[s].known
    <3>1. \A x \in Known : reg'[x] = reg[x]
      BY <2>2 DEF RosterInv, TypeOK, DeviceMoved, Known
    <3>2. Known' = Known
      BY DEF RosterInv, TypeOK, DeviceMoved, Known, Facts
    <3>3. title' = title
      BY DEF DeviceMoved
    <3>4. \A x \in Known : /\ AreaOf(x)' = AreaOf(x) /\ Status(x)' = Status(x)
                           /\ reg'[x].word = reg[x].word
      BY <3>1 DEF AreaOf, Status
    <3>5. Collect' = Collect
      BY <1>1, <3>2, <3>3, <3>4, SameCollect DEF RosterInv, TypeOK
    <3>6. QED BY <3>5
  <2>3. QED BY <2>1, <2>2
<1>4. timer => timer'
  BY DEF DeviceMoved, Schedules
<1>5. missed => missed'
  BY DEF DeviceMoved
<1>6. loaded => timer' \/ missed' \/ Collect' = Collect
  BY <1>3
<1>7. NothingForgotten'
  BY <1>2, <1>4, <1>5, <1>6, ChangeLemma
<1>8. QED BY <1>1, <1>7 DEF RosterInv

\* A state matters only if it changes what _availability() says, and the state of an
\* entity that is disabled or removed not at all.
LEMMA StateLemma ==
  ASSUME RosterInv, NEW s \in Satellites, NEW st \in States,
         Reports(s, st) \/ (st = "none" /\ StateRemoved(s))
  PROVE  RosterInv'
<1>1. TypeOK'
  <2>1. reg' \in [Satellites -> Facts]
    BY DEF RosterInv, TypeOK, Reports, StateRemoved, Facts, States
  <2>2. title' \in [Areas -> Titles]
    BY DEF RosterInv, TypeOK, Reports, StateRemoved, Titles
  <2>3. timer' \in BOOLEAN
    BY DEF RosterInv, TypeOK, Reports, StateRemoved, Schedules
  <2>4. missed' \in BOOLEAN
    BY DEF RosterInv, TypeOK, Reports, StateRemoved
  <2>5. changes' \in Nat
    BY DEF RosterInv, TypeOK, Reports, StateRemoved, Changes
  <2>6. Silent
    BY DEF Reports, StateRemoved
  <2>7. QED BY <2>1, <2>2, <2>3, <2>4, <2>5, <2>6, ChangeType DEF RosterInv
<1>2. /\ loaded' = loaded /\ running' = running /\ ready' = ready
      /\ posts' = posts /\ shown' = shown
  BY DEF RosterInv, TypeOK, Reports, StateRemoved, Schedules, Silent
<1>3. loaded => timer' \/ Collect' = Collect
  <2>1. /\ reg' = [reg EXCEPT ![s].state = st] /\ title' = title
        /\ timer' = (timer \/ (loaded /\ StateEventAffects(reg[s].state, st)))
    BY DEF Reports, StateRemoved, Schedules
  <2>2. CASE StateEventAffects(reg[s].state, st)
    BY <2>1, <2>2 DEF RosterInv, TypeOK
  <2>3. CASE ~StateEventAffects(reg[s].state, st)
    <3>1. Availability(reg[s].state) = Availability(st)
      BY <2>3 DEF StateEventAffects
    <3>2. \A x \in Satellites : /\ reg'[x].known = reg[x].known
                                /\ reg'[x].area = reg[x].area /\ reg'[x].room = reg[x].room
                                /\ reg'[x].disabled = reg[x].disabled
                                /\ reg'[x].word = reg[x].word
                                /\ reg'[x].state = IF x = s THEN st ELSE reg[x].state
      BY <2>1 DEF RosterInv, TypeOK, Facts
    <3>3. \A x \in Satellites : Availability(reg'[x].state) = Availability(reg[x].state)
      BY <3>1, <3>2
    <3>4. Known' = Known
      BY <3>2 DEF Known
    <3>5. \A x \in Known : /\ AreaOf(x)' = AreaOf(x) /\ Status(x)' = Status(x)
                           /\ reg'[x].word = reg[x].word
      BY <3>2, <3>3 DEF AreaOf, Status, Known
    <3>6. QED BY <1>1, <2>1, <3>4, <3>5, SameCollect DEF RosterInv, TypeOK
  <2>4. QED BY <2>2, <2>3
<1>4. timer => timer'
  BY DEF Reports, StateRemoved, Schedules
<1>5. missed => missed'
  BY DEF Reports, StateRemoved
<1>6. loaded => timer' \/ missed' \/ Collect' = Collect
  BY <1>3
<1>7. NothingForgotten'
  BY <1>2, <1>4, <1>5, <1>6, ChangeLemma
<1>8. QED BY <1>1, <1>7 DEF RosterInv

\* The wake word of a select.
LEMMA WordLemma ==
  ASSUME RosterInv, NEW s \in Satellites, NEW w \in Words, WordChosen(s, w)
  PROVE  RosterInv'
<1>1. TypeOK'
  <2>1. reg' \in [Satellites -> Facts]
    BY DEF RosterInv, TypeOK, WordChosen, Facts, States
  <2>2. title' \in [Areas -> Titles]
    BY DEF RosterInv, TypeOK, WordChosen, Titles
  <2>3. timer' \in BOOLEAN
    BY DEF RosterInv, TypeOK, WordChosen, Schedules
  <2>4. missed' \in BOOLEAN
    BY DEF RosterInv, TypeOK, WordChosen
  <2>5. changes' \in Nat
    BY DEF RosterInv, TypeOK, WordChosen, Changes
  <2>6. Silent
    BY DEF WordChosen
  <2>7. QED BY <2>1, <2>2, <2>3, <2>4, <2>5, <2>6, ChangeType DEF RosterInv
<1>2. /\ loaded' = loaded /\ running' = running /\ ready' = ready
      /\ posts' = posts /\ shown' = shown
  BY DEF WordChosen, Silent
<1>3. timer => timer'
  BY DEF WordChosen, Schedules
<1>4. missed => missed'
  BY DEF WordChosen
<1>5. loaded => timer' \/ missed' \/ Collect' = Collect
  BY DEF WordChosen, Schedules
<1>6. NothingForgotten'
  BY <1>2, <1>3, <1>4, <1>5, ChangeLemma
<1>7. QED BY <1>1, <1>6 DEF RosterInv

\* The name of an area, which nobody watches.
LEMMA AreaLemma ==
  ASSUME RosterInv, NEW a \in Areas, AreaRenamed(a)
  PROVE  RosterInv'
<1>1. TypeOK'
  <2>1. reg' \in [Satellites -> Facts]
    BY DEF RosterInv, TypeOK, AreaRenamed, Facts, States
  <2>2. title' \in [Areas -> Titles]
    BY DEF RosterInv, TypeOK, AreaRenamed, Titles
  <2>3. timer' \in BOOLEAN
    BY DEF RosterInv, TypeOK, AreaRenamed, Schedules
  <2>4. missed' \in BOOLEAN
    BY DEF RosterInv, TypeOK, AreaRenamed
  <2>5. changes' \in Nat
    BY DEF RosterInv, TypeOK, AreaRenamed, Changes
  <2>6. Silent
    BY DEF AreaRenamed
  <2>7. QED BY <2>1, <2>2, <2>3, <2>4, <2>5, <2>6, ChangeType DEF RosterInv
<1>2. /\ loaded' = loaded /\ running' = running /\ ready' = ready
      /\ posts' = posts /\ shown' = shown
  BY DEF AreaRenamed, Silent
<1>3. timer => timer'
  BY DEF AreaRenamed, Schedules
<1>4. missed => missed'
  BY DEF AreaRenamed
<1>5. loaded => timer' \/ missed' \/ Collect' = Collect
  BY DEF AreaRenamed, Schedules
<1>6. NothingForgotten'
  BY <1>2, <1>3, <1>4, <1>5, ChangeLemma
<1>7. QED BY <1>1, <1>6 DEF RosterInv

\* A push sends what the registries say now, or has nothing to send.
LEMMA PushLemma ==
  ASSUME RosterInv, Push
  PROVE  RosterInv'
<1>1. Collect' = Collect
  BY DEF Push, haVars, Collect, Known, AreaName, AreaOf, Status, Availability
<1>2. Collect \in Rosters
  BY CollectType DEF RosterInv, TypeOK
<1>3. posts' = IF Collect = Empty THEN posts ELSE Append(posts, Collect)
  BY DEF Push, Sent
<1>4. posts' \in Seq(Rosters \ {Empty})
  BY <1>2, <1>3 DEF RosterInv, TypeOK
<1>5. TypeOK'
  <2>1. ready' \in Nat
    BY DEF RosterInv, TypeOK, Push
  <2>2. missed' \in BOOLEAN
    BY DEF Push
  <2>3. UNCHANGED <<haVars, running, loaded, timer, reloads, shown, mishaps>>
    BY DEF Push
  <2>4. QED BY <1>4, <2>1, <2>2, <2>3 DEF RosterInv, TypeOK, haVars
<1>6. Collect = Empty \/ (posts' # <<>> /\ posts'[Len(posts')] = Collect)
  BY <1>2, <1>3 DEF RosterInv, TypeOK
<1>7. NothingForgotten'
  BY <1>1, <1>6 DEF NothingForgotten
<1>8. QED BY <1>5, <1>7 DEF RosterInv

\* The newest POST stays the last, unless it is lost or overtakes.
LEMMA PostLemma ==
  ASSUME RosterInv, NEW i \in DOMAIN posts, Delivered(i) \/ Lost(i)
  PROVE  RosterInv'
<1>1. Collect' = Collect
  BY DEF Delivered, Lost, haVars, Collect, Known, AreaName, AreaOf, Status, Availability
<1>2. posts' = Without(i) /\ UNCHANGED haVars /\ UNCHANGED entryVars
  BY DEF Delivered, Lost
<1>3. posts \in Seq(Rosters \ {Empty})
  BY DEF RosterInv, TypeOK
<1>4. TypeOK'
  <2>1. mishaps' \in Nat
    BY DEF RosterInv, TypeOK, Delivered, Lost
  <2>2. missed' \in BOOLEAN
    BY DEF RosterInv, TypeOK, Delivered, Lost
  <2>3. posts' \in Seq(Rosters \ {Empty})
    BY <1>2, <1>3, WithoutType
  <2>4. shown' \in Rosters
    BY <1>3 DEF RosterInv, TypeOK, Delivered, Lost
  <2>5. QED BY <1>2, <2>1, <2>2, <2>3, <2>4 DEF RosterInv, TypeOK, haVars, entryVars
<1>5. timer' = timer /\ ready' = ready /\ loaded' = loaded /\ running' = running
  BY <1>2 DEF entryVars
<1>6. missed => missed'
  BY DEF Delivered, Lost
<1>7. ASSUME i = Len(posts), ~missed' PROVE Len(posts) = 1 /\ shown' = posts[Len(posts)]
  BY <1>3, <1>7 DEF Delivered, Lost
<1>8. ASSUME loaded, running, ~timer, ~(ready > 0), ~missed, Collect # Empty
      PROVE  posts[Len(posts)] = Collect
  BY <1>3, <1>8 DEF RosterInv, NothingForgotten
<1>9. NothingForgotten'
  <2> SUFFICES ASSUME loaded, running, ~timer, ~(ready > 0), ~missed, Collect # Empty, ~missed'
               PROVE  IF posts' = <<>> THEN shown' = Collect ELSE posts'[Len(posts')] = Collect
    BY <1>1, <1>5, <1>6 DEF NothingForgotten
  <2>1. CASE i = Len(posts)
    BY <1>2, <1>3, <1>7, <1>8, <2>1, WithoutType
  <2>2. CASE i # Len(posts)
    BY <1>2, <1>3, <1>8, <2>2, WithoutType
  <2>3. QED BY <2>1, <2>2
<1>10. QED BY <1>4, <1>9 DEF RosterInv

\* The timer, the start of Home Assistant, and the life of the entry.
LEMMA EntryLemma ==
  ASSUME RosterInv, TimerFires \/ Started \/ Unload \/ Setup
  PROVE  RosterInv'
<1>1. Collect' = Collect
  BY DEF TimerFires, Started, Unload, Setup,
         haVars, Collect, Known, AreaName, AreaOf, Status, Availability
<1>2. <<>> \in Seq(Rosters \ {Empty})
  OBVIOUS
<1>3. TypeOK'
  <2>1. running' \in BOOLEAN /\ loaded' \in BOOLEAN /\ timer' \in BOOLEAN
    BY DEF RosterInv, TypeOK, TimerFires, Started, Unload, Setup
  <2>2. ready' \in Nat /\ reloads' \in Nat
    BY DEF RosterInv, TypeOK, TimerFires, Started, Unload, Setup, FirstPush
  <2>3. posts' \in Seq(Rosters \ {Empty})
    BY <1>2 DEF RosterInv, TypeOK, TimerFires, Started, Unload, Setup
  <2>4. UNCHANGED <<haVars, shown, missed, mishaps>>
    BY DEF TimerFires, Started, Unload, Setup
  <2>5. QED BY <2>1, <2>2, <2>3, <2>4 DEF RosterInv, TypeOK, haVars
<1>4. NothingForgotten'
  <2>1. CASE TimerFires
    BY <2>1 DEF RosterInv, TypeOK, NothingForgotten, TimerFires
  <2>2. CASE Started
    BY <2>2 DEF RosterInv, TypeOK, NothingForgotten, Started
  <2>3. CASE Unload
    BY <2>3 DEF NothingForgotten, Unload
  <2>4. CASE Setup
    BY <2>4 DEF RosterInv, TypeOK, NothingForgotten, Setup, FirstPush
  <2>5. QED BY <2>1, <2>2, <2>3, <2>4
<1>5. QED BY <1>3, <1>4 DEF RosterInv

-----------------------------------------------------------------------------
(* The theorems.                                                           *)

\* Nothing is under way at first, and Home Assistant is still starting.
LEMMA InitLemma == Init => RosterInv
<1> SUFFICES ASSUME Init PROVE RosterInv
  OBVIOUS
<1>1. reg \in [Satellites -> Facts]
  BY DEF Init, Facts, States
<1>2. Empty \in Rosters
  <2>1. Empty \in [{} -> Entries]
    BY DEF Empty
  <2>2. QED BY <2>1 DEF Rosters
<1>3. <<>> \in Seq(Rosters \ {Empty})
  OBVIOUS
<1>4. QED BY <1>1, <1>2, <1>3 DEF Init, RosterInv, TypeOK, NothingForgotten, Titles

\* Every step preserves the invariant.
LEMMA NextLemma == RosterInv /\ [Next]_vars => RosterInv'
<1> SUFFICES ASSUME RosterInv, [Next]_vars PROVE RosterInv'
  OBVIOUS
<1>1. CASE UNCHANGED vars
  BY <1>1 DEF RosterInv, TypeOK, NothingForgotten, vars, haVars, entryVars,
              Collect, Known, AreaName, AreaOf, Status, Availability
<1>2. ASSUME NEW s \in Satellites, NEW a \in Areas \cup {NoArea}, NEW d \in BOOLEAN,
             EntityCreated(s) \/ EntityRemoved(s) \/ EntityMoved(s, a) \/ Disabled(s, d)
      PROVE  RosterInv'
  BY <1>2, RegistryLemma
<1>3. ASSUME NEW s \in Satellites, NEW a \in Areas \cup {NoArea}, DeviceMoved(s, a)
      PROVE  RosterInv'
  BY <1>3, DeviceLemma
<1>4. ASSUME NEW s \in Satellites, NEW st \in States, Reports(s, st) \/ (st = "none" /\ StateRemoved(s))
      PROVE  RosterInv'
  BY <1>4, StateLemma
<1>5. ASSUME NEW s \in Satellites, NEW w \in Words, WordChosen(s, w) PROVE RosterInv'
  BY <1>5, WordLemma
<1>6. ASSUME NEW a \in Areas, AreaRenamed(a) PROVE RosterInv'
  BY <1>6, AreaLemma
<1>7. CASE Push
  BY <1>7, PushLemma
<1>8. ASSUME NEW i \in DOMAIN posts, Delivered(i) \/ Lost(i) PROVE RosterInv'
  BY <1>8, PostLemma
<1>9. CASE TimerFires \/ Started \/ Unload \/ Setup
  BY <1>9, EntryLemma
<1>10. "none" \in States /\ NoArea \in Areas \cup {NoArea} /\ TRUE \in BOOLEAN
  BY DEF States
<1>11. QED
  BY <1>1, <1>2, <1>3, <1>4, <1>5, <1>6, <1>7, <1>8, <1>9, <1>10 DEF Next, Rest

\* Spec keeps the invariant.
LEMMA RosterInvariance == Spec => []RosterInv
  BY InitLemma, NextLemma, PTL DEF Spec

\* Types: rosters on the way are never empty, and list known satellites only.
THEOREM RosterTyping == Spec => []TypeOK
<1>1. RosterInv => TypeOK
  BY DEF RosterInv
<1>2. QED BY <1>1, RosterInvariance, PTL

\* The listeners of __init__.py with the predicates of roster.py: whatever happens
\* in Home Assistant, in whatever order, a streamer with an old roster is about to
\* get a new one, but for the exceptions that NothingForgotten names.
THEOREM RosterNotForgotten == Spec => []NothingForgotten
<1>1. RosterInv => NothingForgotten
  BY DEF RosterInv
<1>2. QED BY <1>1, RosterInvariance, PTL
=============================================================================
