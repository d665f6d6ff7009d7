------------------------------- MODULE Roster -------------------------------
(***************************************************************************)
(* The satellite roster (roster.py, __init__.py of the integration): a     *)
(* config entry tells its streamer which satellites Home Assistant knows.  *)
(* Registry and state events arm a debounce timer, the timer starts a push *)
(* in the background, and a push sends what the registries say at that     *)
(* moment.  The roster is a cache in another process; this module is about *)
(* whether it can be left behind.                                          *)
(***************************************************************************)
EXTENDS Naturals, Sequences

CONSTANTS
    Satellites,     \* assist_satellite entities, each on a device of its own
    Areas,
    NoArea,
    Words,          \* wake words
    Kinds,          \* the kinds of change that happen
    MaxChanges,     \* bound: changes in Home Assistant
    MaxMishaps,     \* bound: pushes lost or overtaken
    MaxReloads      \* bound: times the entry is unloaded

ASSUME AreaAssumption == NoArea \notin Areas
ASSUME RosterBounds == MaxChanges \in Nat /\ MaxMishaps \in Nat /\ MaxReloads \in Nat

VARIABLES
    reg,        \* per satellite: what collect() reads about it and its device
    title,      \* the name of each area
    running,    \* hass.state == CoreState.running
    loaded,     \* the entry is set up and listens
    timer,      \* push_timer[0] is armed
    ready,      \* pushes that have been started and have not collected yet
    posts,      \* rosters on their way to the streamer, in the order they were sent
    shown,      \* the roster the streamer has
    missed,     \* something has kept the newest roster from the streamer
    changes, mishaps, reloads

haVars == <<reg, title, changes>>
entryVars == <<running, loaded, timer, ready, reloads>>
vars == <<haVars, entryVars, posts, shown, missed, mishaps>>

States == {"none", "unavailable", "unknown", "idle", "responding"}
Titles == {"old", "new"}

Facts ==
    [known: BOOLEAN, area: Areas \cup {NoArea}, room: Areas \cup {NoArea},
     disabled: BOOLEAN, state: States, word: Words]

-----------------------------------------------------------------------------
(* collect(): everything that is sent but the current activity, which no   *)
(* event keeps up to date.                                                 *)

\* _availability(): all that the roster reports of a state.
Availability(st) ==
    CASE st \in {"none", "unavailable"} -> "offline"
      [] st = "unknown" -> "unknown"
      [] OTHER -> "online"

Status(s) == IF reg[s].disabled THEN "disabled" ELSE Availability(reg[s].state)

\* The area of the entity, or else of its device.
AreaOf(s) == IF reg[s].area # NoArea THEN reg[s].area ELSE reg[s].room

AreaName(a) == IF a = NoArea THEN <<>> ELSE <<a, title[a]>>

Known == {s \in Satellites : reg[s].known}

Collect ==
    [s \in Known |-> [area |-> AreaName(AreaOf(s)), status |-> Status(s), word |-> reg[s].word]]

Empty == [s \in {} |-> s]

Entries ==
    [area: {<<>>} \cup (Areas \X Titles),
     status: {"online", "offline", "unknown", "disabled"}, word: Words]
Rosters == UNION {[S -> Entries] : S \in SUBSET Satellites}

TypeOK ==
    /\ reg \in [Satellites -> Facts] /\ title \in [Areas -> Titles]
    /\ running \in BOOLEAN /\ loaded \in BOOLEAN /\ timer \in BOOLEAN /\ missed \in BOOLEAN
    /\ ready \in Nat /\ changes \in Nat /\ mishaps \in Nat /\ reloads \in Nat
    /\ posts \in Seq(Rosters \ {Empty}) /\ shown \in Rosters

\* Home Assistant is starting: the satellites are known and have not connected yet.
Init ==
    /\ \E w \in Words, a \in Areas :
          reg = [s \in Satellites |->
                   [known |-> TRUE, area |-> NoArea, room |-> a,
                    disabled |-> FALSE, state |-> "unavailable", word |-> w]]
    /\ title = [a \in Areas |-> "old"]
    /\ running = FALSE /\ loaded = TRUE
    /\ timer = FALSE /\ ready = 0
    /\ posts = <<>> /\ shown = Empty
    /\ missed = FALSE
    /\ changes = 0 /\ mishaps = 0 /\ reloads = 0

-----------------------------------------------------------------------------
(* The listeners.                                                          *)

EntityFields == {"area_id", "name", "original_name", "device_id", "entity_id"}

DeviceFieldsWithoutArea == {"name", "name_by_user", "configuration_url"}   \* a slip
DeviceFields == {"area_id", "name", "name_by_user", "configuration_url"}

EntityEventAffects(action, fields) ==
    \/ action \in {"create", "remove"}
    \/ action = "update" /\ fields \cap EntityFields # {}

DeviceEventAffects(fields) == fields \cap DeviceFields # {}

StateEventAffects(old, new) == Availability(old) # Availability(new)

\* A slip: the timer that is cancelled is not armed again.
CancelsOnly(affects) == timer' = IF loaded /\ affects THEN ~timer ELSE timer

\* _schedule_push(): whatever is armed is replaced.
Schedules(affects) == timer' = (timer \/ (loaded /\ affects))

Changes(kind) ==
    /\ kind \in Kinds
    /\ changes < MaxChanges /\ changes' = changes + 1

Silent == UNCHANGED <<running, loaded, ready, reloads, posts, shown, mishaps>>

EntityCreated(s) ==
    /\ Changes("create")
    /\ ~reg[s].known /\ reg[s].state = "none"
    /\ reg' = [reg EXCEPT ![s].known = TRUE, ![s].disabled = FALSE, ![s].area = NoArea]
    /\ Schedules(EntityEventAffects("create", {}))
    /\ UNCHANGED <<title, missed>> /\ Silent

EntityRemoved(s) ==
    /\ Changes("remove")
    /\ reg[s].known
    /\ reg' = [reg EXCEPT ![s].known = FALSE]
    /\ Schedules(EntityEventAffects("remove", {}))
    /\ UNCHANGED <<title, missed>> /\ Silent

EntityMoved(s, a) ==
    /\ Changes("area")
    /\ reg[s].known /\ reg[s].area # a
    /\ reg' = [reg EXCEPT ![s].area = a]
    /\ Schedules(EntityEventAffects("update", {"area_id"}))
    /\ UNCHANGED <<title, missed>> /\ Silent

\* The listener asks whether the device carries a satellite.
DeviceMoved(s, a) ==
    /\ Changes("room")
    /\ reg[s].room # a
    /\ reg' = [reg EXCEPT ![s].room = a]
    /\ Schedules(DeviceEventAffects({"area_id"}) /\ reg[s].known)
    /\ UNCHANGED <<title, missed>> /\ Silent

\* Nobody listens to the area registry.
AreaRenamed(a) ==
    /\ Changes("title")
    /\ title' = [title EXCEPT ![a] = IF @ = "old" THEN "new" ELSE "old"]
    /\ missed' = TRUE
    /\ UNCHANGED <<reg, timer>> /\ Silent

\* disabled_by is not among the fields.
Disabled(s, d) ==
    /\ Changes("disable")
    /\ reg[s].known /\ reg[s].disabled # d
    /\ reg' = [reg EXCEPT ![s].disabled = d]
    /\ Schedules(EntityEventAffects("update", {"disabled_by"}))
    /\ missed' = TRUE
    /\ UNCHANGED title /\ Silent

Reports(s, st) ==
    /\ Changes("state")
    /\ reg[s].known /\ ~reg[s].disabled
    /\ st # "none" /\ st # reg[s].state
    /\ reg' = [reg EXCEPT ![s].state = st]
    /\ Schedules(StateEventAffects(reg[s].state, st))
    /\ UNCHANGED <<title, missed>> /\ Silent

\* Home Assistant drops the state of an entity that is disabled or removed.
StateRemoved(s) ==
    /\ reg[s].state # "none" /\ (reg[s].disabled \/ ~reg[s].known)
    /\ reg' = [reg EXCEPT ![s].state = "none"]
    /\ Schedules(StateEventAffects(reg[s].state, "none"))
    /\ UNCHANGED <<title, changes, missed>> /\ Silent

\* A select of the same device.
WordChosen(s, w) ==
    /\ Changes("word")
    /\ reg[s].word # w
    /\ reg' = [reg EXCEPT ![s].word = w]
    /\ Schedules(TRUE)
    /\ UNCHANGED <<title, missed>> /\ Silent

-----------------------------------------------------------------------------
(* Pushes.                                                                 *)

\* _fire(): the timer forgets itself and starts a background task.
TimerFires ==
    /\ timer
    /\ timer' = FALSE /\ ready' = ready + 1
    /\ UNCHANGED <<haVars, running, loaded, reloads, posts, shown, missed, mishaps>>

EmptyToo == Append(posts, Collect)                                   \* a slip
Sent == IF Collect = Empty THEN posts ELSE Append(posts, Collect)

\* push(): collects and sends without yielding.
Push ==
    /\ ready > 0 /\ ready' = ready - 1
    /\ posts' = Sent
    /\ missed' = FALSE
    /\ UNCHANGED <<haVars, running, loaded, timer, reloads, shown, mishaps>>

Without(i) == [j \in 1 .. Len(posts) - 1 |-> IF j < i THEN posts[j] ELSE posts[j + 1]]

\* Every POST has a connection of its own, so a later one may arrive first.
Delivered(i) ==
    /\ IF i = 1 THEN UNCHANGED mishaps
       ELSE mishaps < MaxMishaps /\ mishaps' = mishaps + 1
    /\ shown' = posts[i]
    /\ posts' = Without(i)
    /\ missed' = (missed \/ (i = Len(posts) /\ i # 1))
    /\ UNCHANGED <<haVars, entryVars>>

\* A streamer that is down, refuses or is too slow: nobody tries again.
Lost(i) ==
    /\ mishaps < MaxMishaps /\ mishaps' = mishaps + 1
    /\ posts' = Without(i)
    /\ missed' = (missed \/ i = Len(posts))
    /\ UNCHANGED <<haVars, entryVars, shown>>

-----------------------------------------------------------------------------
(* The life of the entry.                                                  *)

\* EVENT_HOMEASSISTANT_STARTED.
Started ==
    /\ ~running
    /\ running' = TRUE
    /\ ready' = IF loaded THEN ready + 1 ELSE ready
    /\ UNCHANGED <<haVars, loaded, timer, reloads, posts, shown, missed, mishaps>>

\* The timer is cancelled and so are the entry's background tasks; what they had
\* sent may arrive or not.  A push begun by the started event goes on.
Unload ==
    /\ loaded /\ reloads < MaxReloads
    /\ reloads' = reloads + 1
    /\ loaded' = FALSE /\ timer' = FALSE
    /\ ready' \in 0 .. ready
    /\ posts' \in {posts, <<>>}
    /\ UNCHANGED <<haVars, running, shown, missed, mishaps>>

FirstPush == IF running THEN ready + 1 ELSE ready

\* async_setup_entry() from the check of hass.state on.
Setup ==
    /\ ~loaded
    /\ loaded' = TRUE
    /\ ready' = FirstPush
    /\ UNCHANGED <<haVars, running, timer, reloads, posts, shown, missed, mishaps>>

\* Everything has been sent and received.
Rest ==
    /\ running /\ loaded /\ ~timer /\ ready = 0 /\ posts = <<>>
    /\ UNCHANGED vars

Next ==
    \/ \E s \in Satellites :
          \/ EntityCreated(s) \/ EntityRemoved(s) \/ StateRemoved(s)
          \/ \E a \in Areas \cup {NoArea} : EntityMoved(s, a) \/ DeviceMoved(s, a)
          \/ \E d \in BOOLEAN : Disabled(s, d)
          \/ \E st \in States : Reports(s, st)
          \/ \E w \in Words : WordChosen(s, w)
    \/ \E a \in Areas : AreaRenamed(a)
    \/ TimerFires \/ Push
    \/ \E i \in DOMAIN posts : Delivered(i) \/ Lost(i)
    \/ Started \/ Unload \/ Setup
    \/ Rest

Spec == Init /\ [][Next]_vars

\* Home Assistant finishes starting, drops states, fires timers and runs tasks;
\* a POST that is not lost arrives.
FairSpec ==
    /\ Spec
    /\ WF_vars(Started) /\ WF_vars(Setup)
    /\ WF_vars(TimerFires) /\ WF_vars(Push)
    /\ WF_vars(posts # <<>> /\ Delivered(1))
    /\ \A s \in Satellites : WF_vars(StateRemoved(s))

-----------------------------------------------------------------------------
(* Properties.                                                             *)

\* "The failure was silent and long-lived ... the panel just showed a stale room
\* forever" (roster.py:43-45): when the streamer's roster is not what collect()
\* would return, something is under way that will send it -- an armed timer, a
\* push, a POST with the newest roster behind all others -- through reloads and
\* the start of Home Assistant.  The exceptions: the newest POST was lost or
\* overtaken, an area was renamed or an entity disabled (nobody watches that),
\* or there is no satellite left (an empty roster is never sent).
NothingForgotten ==
    loaded /\ running =>
        \/ timer \/ ready > 0
        \/ missed
        \/ Collect = Empty
        \/ IF posts = <<>> THEN shown = Collect ELSE posts[Len(posts)] = Collect

\* With the same exceptions, the streamer catches up when Home Assistant comes to
\* rest: "Changing a wake word in Home Assistant has to reach the panel"
\* (roster.py:86).
CatchesUp == <>[](shown = Collect \/ missed \/ Collect = Empty)

\* Without exceptions: "they must agree with what collect() actually SENDS"
\* (roster.py:42).  It does not hold: nobody pushes when an entity is disabled while it
\* is offline, or when an area is renamed.
AlwaysCatchesUp == <>[](shown = Collect)
=============================================================================
