----------------------------- MODULE Announcing -----------------------------
(***************************************************************************)
(* The integration's announcing sensors (custom_components/                *)
(* ctrlable_snapcast_tts): a satellite learns that its answer is over from *)
(* a sensor that handle_announce() switches on and off around its call to  *)
(* the add-on.  Of the add-on this module keeps that answers for one       *)
(* satellite play one at a time, that a reply comes after playback, and    *)
(* that a failing answer gives its group back or leaves it to play what    *)
(* snapserver has; modules Zone and Playback say how.  A satellite is a    *)
(* room of its own.                                                        *)
(***************************************************************************)
EXTENDS Naturals, FiniteSets

CONSTANTS
    Satellites,
    Mapped,         \* satellites with a mapping, which get an entity at setup
    Calls,          \* bound: announce service calls
    MaxBreaks,      \* bound: calls that end before their requests
    MaxReloads      \* bound: reloads of the config entry

ASSUME MappedAssumption == Mapped \subseteq Satellites
ASSUME BudgetAssumption == MaxBreaks \in Nat /\ MaxReloads \in Nat

VARIABLES
    known,        \* satellites that async_add_entities() was called for
    sensor,       \* SatelliteAnnouncing: unavailable until added, then off or on
    listening,    \* whether AnnouncingSatellites has connected to its signal
    active,       \* AnnouncingSatellites._active
    pc,           \* each service call: idle, awaiting the add-on, over
    sat,          \* its satellite
    addon,        \* its answer: queued or playing in the add-on, ended, failed,
                  \* or left to snapserver by a request that failed
    troubled,     \* satellites that overlapped, or lost a call or an answer half-way
    breaks, reloads

entityVars == <<known, sensor, listening, active>>
callVars == <<pc, sat, addon>>
vars == <<entityVars, callVars, troubled, breaks, reloads>>

Init ==
    /\ known \in {{}, Mapped}
    /\ sensor = [s \in Satellites |-> "unavailable"]
    /\ listening = FALSE /\ active = {}
    /\ pc = [c \in Calls |-> "idle"]
    /\ sat \in [Calls -> Satellites]
    /\ addon = [c \in Calls |-> "none"]
    /\ troubled = {} /\ breaks = 0 /\ reloads = 0

Underway(c) == addon[c] \in {"queued", "playing", "left"}

-----------------------------------------------------------------------------
(* The dispatcher: a signal reaches the entities that are connected by now. *)

SetState(s, value) ==
    sensor' = [sensor EXCEPT ![s] = IF @ = "unavailable" THEN @ ELSE value]

DeafAdds(s) == active' = active \cup {s}                              \* a slip
Adds(s) == active' = IF listening THEN active \cup {s} ELSE active

Discards(s) == active' = active \ {s}

-----------------------------------------------------------------------------
(* handle_announce().                                                      *)

\* The three signals go out before the first await.
Announce(c) ==
    /\ pc[c] = "idle"
    /\ troubled' = troubled \cup
          {s \in {sat[c]} : \E d \in Calls : sat[d] = s /\ (pc[d] = "awaiting" \/ Underway(d))}
    /\ known' = known \cup {sat[c]}
    /\ SetState(sat[c], "on")
    /\ Adds(sat[c])
    /\ pc' = [pc EXCEPT ![c] = "awaiting"]
    /\ \E r \in {"queued", "failed"} : addon' = [addon EXCEPT ![c] = r]
    /\ UNCHANGED <<listening, sat, breaks, reloads>>

\* A slip: the sensors are switched off only after a success.
EndsOnSuccess(c) ==
    /\ pc' = [pc EXCEPT ![c] = "over"]
    /\ IF addon[c] = "ended" THEN SetState(sat[c], "off") /\ Discards(sat[c])
       ELSE UNCHANGED <<sensor, active>>

\* `finally`.
Ends(c) ==
    /\ pc' = [pc EXCEPT ![c] = "over"]
    /\ SetState(sat[c], "off")
    /\ Discards(sat[c])

AnsweredAtStart(c) == addon[c] # "queued"                             \* a slip
Answered(c) == addon[c] \notin {"queued", "playing"}

\* The request is over: with a reply, with an error, or unable to say which.
Returns(c) ==
    /\ pc[c] = "awaiting" /\ Answered(c)
    /\ Ends(c)
    /\ UNCHANGED <<known, listening, sat, addon, troubled, breaks, reloads>>

\* ANNOUNCE_TIMEOUT, a connection that is lost, a proxy that gives up, a service call
\* that is cancelled: the request goes on in the add-on.
BreaksOff(c) ==
    /\ pc[c] = "awaiting" /\ ~Answered(c)
    /\ breaks < MaxBreaks /\ breaks' = breaks + 1
    /\ troubled' = troubled \cup {sat[c]}
    /\ Ends(c)
    /\ UNCHANGED <<known, listening, sat, addon, reloads>>

-----------------------------------------------------------------------------
(* The add-on.                                                             *)

Plays(c) ==
    /\ addon[c] = "queued"
    /\ \A d \in Calls : sat[d] = sat[c] => addon[d] # "playing"
    /\ addon' = [addon EXCEPT ![c] = "playing"]
    /\ UNCHANGED <<entityVars, pc, sat, troubled, breaks, reloads>>

PlaybackEnds(c) ==
    /\ addon[c] \in {"playing", "left"}
    /\ addon' = [addon EXCEPT ![c] = "ended"]
    /\ UNCHANGED <<entityVars, pc, sat, troubled, breaks, reloads>>

\* The source, the push or the add-on fails; a group that was switched goes back.
AnswerFails(c) ==
    /\ addon[c] \in {"queued", "playing"}
    /\ addon' = [addon EXCEPT ![c] = "failed"]
    /\ UNCHANGED <<entityVars, pc, sat, troubled, breaks, reloads>>

\* The same, but nobody takes the group away from what snapserver has: the add-on has
\* died, the call that restores has failed, or the group was not switched.
LeavesBehind(c) ==
    /\ addon[c] = "playing"
    /\ addon' = [addon EXCEPT ![c] = "left"]
    /\ troubled' = troubled \cup {sat[c]}
    /\ UNCHANGED <<entityVars, pc, sat, breaks, reloads>>

-----------------------------------------------------------------------------
(* Entities: async_added_to_hass() comes some time after the entity was     *)
(* handed over, and a reload drops all of them.                             *)

SatelliteAdded(s) ==
    /\ s \in known /\ sensor[s] = "unavailable"
    /\ sensor' = [sensor EXCEPT ![s] = "off"]
    /\ UNCHANGED <<known, listening, active, callVars, troubled, breaks, reloads>>

SharedAdded ==
    /\ ~listening
    /\ listening' = TRUE
    /\ UNCHANGED <<known, sensor, active, callVars, troubled, breaks, reloads>>

\* The mappings are read again, unless the add-on does not answer.
Reload ==
    /\ reloads < MaxReloads /\ reloads' = reloads + 1
    /\ known' \in {{}, Mapped}
    /\ sensor' = [s \in Satellites |-> "unavailable"]
    /\ listening' = FALSE /\ active' = {}
    /\ UNCHANGED <<callVars, troubled, breaks>>

Rest ==
    /\ \A c \in Calls : pc[c] = "over" /\ ~Underway(c)
    /\ UNCHANGED vars

Next ==
    \/ \E c \in Calls :
          \/ Announce(c) \/ Returns(c) \/ BreaksOff(c)
          \/ Plays(c) \/ PlaybackEnds(c) \/ AnswerFails(c) \/ LeavesBehind(c)
    \/ \E s \in Satellites : SatelliteAdded(s)
    \/ SharedAdded \/ Reload \/ Rest

Spec == Init /\ [][Next]_vars

-----------------------------------------------------------------------------
(* Properties.                                                             *)

\* Beyond types: the shared sensor lists nobody before it has connected, and an
\* entity is there only if it was added.
TypeOK ==
    /\ known \subseteq Satellites /\ troubled \subseteq Satellites
    /\ sensor \in [Satellites -> {"unavailable", "off", "on"}]
    /\ \A s \in Satellites : sensor[s] # "unavailable" => s \in known
    /\ listening \in BOOLEAN
    /\ active \subseteq Satellites /\ (active # {} => listening)
    /\ pc \in [Calls -> {"idle", "awaiting", "over"}]
    /\ sat \in [Calls -> Satellites]
    /\ addon \in [Calls -> {"none", "queued", "playing", "left", "ended", "failed"}]

\* "a sensor stuck ON would leave that satellite wedged in replying"
\* (services.py:147-148): a sensor is on only while a call for its satellite is
\* under way, whatever calls fail, break off, overlap or outlive a reload.
NoStuckOn ==
    \A s \in Satellites :
        sensor[s] = "on" \/ s \in active => \E c \in Calls : sat[c] = s /\ pc[c] = "awaiting"

GoesOff(s) ==
    \/ sensor[s] = "on" /\ sensor'[s] = "off"
    \/ listening' /\ s \in active /\ s \notin active'

\* Off means over: a sensor that goes off tells its satellite that no answer of
\* its own is queued or audible any more (binary_sensor.py:5-7), whatever calls are
\* refused or fail and wherever a reload strikes.  Excepted are satellites one of whose
\* calls came before the last answer was over, or broke off while its request went on
\* (services.py:174, api.py:111), or failed with the group left on its answer.
OffMeansOver ==
    [][\A s \in Satellites :
          GoesOff(s) /\ s \notin troubled' => \A c \in Calls : sat[c] = s => ~Underway(c)']_vars

\* The same of every satellite: "ON for exactly the span of the announce"
\* (binary_sensor.py:18).  It does not hold when two answers of one satellite overlap,
\* nor when a call breaks off.
OffAlwaysMeansOver ==
    [][\A s \in Satellites : GoesOff(s) => \A c \in Calls : sat[c] = s => ~Underway(c)']_vars
=============================================================================
