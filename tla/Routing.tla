------------------------------ MODULE Routing ------------------------------
(***************************************************************************)
(* Which streamer answers for a satellite (services.py), and the life of   *)
(* the config entries that say so (__init__.py, config_flow.py): two forms *)
(* may be open at once, each awaits the health of its streamer; an entry   *)
(* that is saved is reloaded, which takes several awaits, and routes go    *)
(* through hass.data meanwhile.                                            *)
(***************************************************************************)
EXTENDS Naturals, Sequences

CONSTANTS
    Entries,        \* config entry ids
    Urls,           \* streamers
    Satellites,
    NoSatellite,    \* a call that names target clients instead
    Tabs,           \* browser tabs with a form of a flow
    None,
    MaxSubmits,     \* bound: forms submitted
    MaxRestarts,    \* bound: restarts of Home Assistant
    MaxStuck        \* bound: platforms that refuse to be unloaded

ASSUME RoutingAssumption ==
    /\ NoSatellite \notin Satellites
    /\ None \notin Urls \cup Entries \cup [url: Urls, named: SUBSET Satellites]
ASSUME RoutingBounds == MaxSubmits \in Nat /\ MaxRestarts \in Nat /\ MaxStuck \in Nat

VARIABLES
    stored,     \* per entry: its data, or None
    phase,      \* per entry: where Home Assistant stands with it
    live,       \* hass.data[DOMAIN], in insertion order
    services,   \* the services are registered
    due,        \* entries whose update listener has been called
    late,       \* entries saved while they were being set up
    form,       \* per tab: what has been submitted and awaits get_health()
    careless,   \* forms overlapped, or an entry's URL has been edited
    submits, restarts, stuck

entryVars == <<stored, phase, live, services, due, late>>
formVars == <<form, careless, submits>>
vars == <<entryVars, formVars, restarts, stuck>>

Configs == [url: Urls, named: SUBSET Satellites]
Phases == {"absent", "unloaded", "settingUp", "loaded", "unloading", "removing", "stuck"}
Forms == [entry: Entries \cup {None}, input: Configs]

Present == {e \in Entries : stored[e] # None}
Records == {live[i] : i \in DOMAIN live}

\* hass.data has one record per entry, and only of entries that exist; so do forms.
TypeOK ==
    /\ stored \in [Entries -> Configs \cup {None}]
    /\ phase \in [Entries -> Phases]
    /\ \A e \in Entries : stored[e] = None <=> phase[e] = "absent"
    /\ live \in Seq([entry: Entries, config: Configs])
    /\ \A i, j \in DOMAIN live : live[i].entry = live[j].entry => i = j
    /\ \A r \in Records : phase[r.entry] \notin {"absent", "unloaded"}
    /\ services \in BOOLEAN /\ careless \in BOOLEAN
    /\ due \subseteq Present /\ late \subseteq Present
    /\ form \in [Tabs -> Forms \cup {None}]
    /\ \A t \in Tabs : form[t] # None => form[t].entry \in Present \cup {None}
    /\ submits \in Nat /\ restarts \in Nat /\ stuck \in Nat

\* Home Assistant starts with what it has stored.
Init ==
    /\ stored \in [Entries -> Configs \cup {None}]
    /\ \A e, f \in Present : stored[e].url = stored[f].url => e = f
    /\ phase = [e \in Entries |-> IF stored[e] = None THEN "absent" ELSE "unloaded"]
    /\ live = <<>> /\ services = FALSE
    /\ due = {} /\ late = {}
    /\ form = [t \in Tabs |-> None] /\ careless = FALSE
    /\ submits = 0 /\ restarts = 0 /\ stuck = 0

-----------------------------------------------------------------------------
(* _get_client().                                                          *)

First(is) == CHOOSE i \in is : \A j \in is : i <= j

Naming(s) == {i \in DOMAIN live : s \in live[i].config.named}
CatchAll == {i \in DOMAIN live : live[i].config.named = {}}

\* What it was before entries could name satellites.
FirstRoute(s) == IF live = <<>> THEN None ELSE live[1].config.url      \* a slip

Route(s) ==
    IF live = <<>> THEN None
    ELSE LET found == IF Naming(s) # {} THEN Naming(s)
                      ELSE IF CatchAll # {} THEN CatchAll ELSE {1}
         IN  live[First(found)].config.url

-----------------------------------------------------------------------------
(* Forms.                                                                  *)

\* The check for duplicates comes before the await.
NeverDuplicate(url) == FALSE                                           \* a slip
Duplicate(url) == \E e \in Present : stored[e].url = url

Submitted(t, f) ==
    /\ form[t] = None /\ submits < MaxSubmits
    /\ submits' = submits + 1
    /\ form' = [form EXCEPT ![t] = f]
    /\ UNCHANGED <<entryVars, restarts, stuck>>

\* async_step_user() up to its await, unless it aborts.
SubmitNew(t, input) ==
    /\ ~Duplicate(input.url)
    /\ Submitted(t, [entry |-> None, input |-> input])
    /\ careless' = (careless \/ \E u \in Tabs : form[u] # None /\ form[u].input.url = input.url)

\* async_step_init() of the options; nobody compares the URL with other entries'.
SubmitOptions(t, e, input) ==
    /\ stored[e] # None
    /\ Submitted(t, [entry |-> e, input |-> input])
    /\ careless' = (careless \/ input.url # stored[e].url)

Closes(t) == form' = [form EXCEPT ![t] = None] /\ UNCHANGED <<careless, submits, restarts, stuck>>

\* The streamer is down or rejects the token: the form is shown again.
Refused(t) == form[t] # None /\ Closes(t) /\ UNCHANGED entryVars

\* async_create_entry(); the entry is then set up.
Creates(t, e) ==
    /\ form[t] # None /\ form[t].entry = None
    /\ stored[e] = None
    /\ stored' = [stored EXCEPT ![e] = form[t].input]
    /\ phase' = [phase EXCEPT ![e] = "unloaded"]
    /\ Closes(t)
    /\ UNCHANGED <<live, services, due, late>>

\* The satellites of the form are not among the data that is saved.
OptionsData(input) == [url |-> input.url, named |-> {}]

\* async_update_entry() calls the update listener, which is there from the end of
\* async_setup_entry() until the entry has been unloaded.
Listens(e) == phase[e] \in {"loaded", "unloading", "removing"}

Forgets(e) == due' = due                                               \* a slip
Notifies(e) == due' = IF Listens(e) THEN due \cup {e} ELSE due

SavesOptions(t) ==
    /\ form[t] # None /\ form[t].entry # None
    /\ LET e == form[t].entry
           new == OptionsData(form[t].input)
       IN  IF stored[e] = new THEN UNCHANGED <<stored, due, late>>
           ELSE /\ stored' = [stored EXCEPT ![e] = new]
                /\ Notifies(e)
                /\ late' = IF phase[e] = "settingUp" THEN late \cup {e} ELSE late
    /\ Closes(t)
    /\ UNCHANGED <<phase, live, services>>

-----------------------------------------------------------------------------
(* Entries.                                                                *)

Enters(e, p) == phase' = [phase EXCEPT ![e] = p] /\ UNCHANGED restarts
Goes(e, p) == Enters(e, p) /\ UNCHANGED formVars

\* async_setup_entry() up to the platforms.
SetupStarts(e) ==
    /\ phase[e] = "unloaded"
    /\ live' = Append(live, [entry |-> e, config |-> stored[e]])
    /\ services' = TRUE
    /\ Goes(e, "settingUp")
    /\ UNCHANGED <<stored, due, late, stuck>>

\* ... and to its end, where the update listener is added.
SetupEnds(e) ==
    /\ phase[e] = "settingUp"
    /\ Goes(e, "loaded")
    /\ UNCHANGED <<stored, live, services, due, late, stuck>>

\* _async_reload_entry(); reloads of one entry wait for each other.
ReloadStarts(e) ==
    /\ e \in due /\ phase[e] = "loaded"
    /\ due' = due \ {e}
    /\ Goes(e, "unloading")
    /\ UNCHANGED <<stored, live, services, late, stuck>>

RemoveStarts(e) ==
    /\ phase[e] = "loaded"
    /\ Goes(e, "removing")
    /\ UNCHANGED <<stored, live, services, due, late, stuck>>

NotPopped(e) == live                                                   \* a slip
Popped(e) ==
    LET k == CHOOSE i \in DOMAIN live : live[i].entry = e
    IN  [i \in 1 .. Len(live) - 1 |-> IF i < k THEN live[i] ELSE live[i + 1]]

\* As if there were one entry only.
NoneLeft(e) == TRUE                                                    \* a slip
LastOne(e) == Popped(e) = <<>>

\* async_unload_entry() once the platforms are gone.
Unloads(e) ==
    /\ live' = Popped(e)
    /\ services' = (services /\ ~LastOne(e))
    /\ UNCHANGED stuck

Unloaded(e) ==
    /\ phase[e] = "unloading"
    /\ Unloads(e)
    /\ late' = late \ {e}
    /\ Goes(e, "unloaded")
    /\ UNCHANGED <<stored, due>>

\* A form for the options of an entry that is gone saves nothing.
Removed(e) ==
    /\ phase[e] = "removing"
    /\ Unloads(e)
    /\ stored' = [stored EXCEPT ![e] = None]
    /\ due' = due \ {e} /\ late' = late \ {e}
    /\ form' = [t \in Tabs |-> IF form[t] # None /\ form[t].entry = e THEN None ELSE form[t]]
    /\ UNCHANGED <<careless, submits>>
    /\ Enters(e, "absent")

\* async_unload_platforms() fails: the entry stays as it is until a restart.
StaysLoaded(e) ==
    /\ phase[e] = "unloading" /\ stuck < MaxStuck
    /\ stuck' = stuck + 1
    /\ Goes(e, "stuck")
    /\ UNCHANGED <<stored, live, services, due, late>>

Restart ==
    /\ restarts < MaxRestarts /\ restarts' = restarts + 1
    /\ phase' = [e \in Entries |-> IF stored[e] = None THEN "absent" ELSE "unloaded"]
    /\ live' = <<>> /\ services' = FALSE
    /\ due' = {} /\ late' = {}
    /\ form' = [t \in Tabs |-> None]
    /\ UNCHANGED <<stored, careless, submits, stuck>>

\* Every entry is loaded and nobody has a form open.
Rest ==
    /\ \A e \in Entries : phase[e] \in {"absent", "loaded", "stuck"}
    /\ \A t \in Tabs : form[t] = None
    /\ UNCHANGED vars

Next ==
    \/ \E t \in Tabs :
          \/ Refused(t) \/ SavesOptions(t)
          \/ \E input \in Configs : SubmitNew(t, input)
          \/ \E input \in Configs, e \in Entries : SubmitOptions(t, e, input)
          \/ \E e \in Entries : Creates(t, e)
    \/ \E e \in Entries :
          \/ SetupStarts(e) \/ SetupEnds(e)
          \/ ReloadStarts(e) \/ Unloaded(e) \/ StaysLoaded(e)
          \/ RemoveStarts(e) \/ Removed(e)
    \/ Restart \/ Rest

Spec == Init /\ [][Next]_vars

\* Home Assistant goes on with what it has begun.
Proceeds(e) == SetupStarts(e) \/ SetupEnds(e) \/ ReloadStarts(e) \/ Unloaded(e) \/ Removed(e)
FairSpec == Spec /\ \A e \in Entries : WF_vars(Proceeds(e))

-----------------------------------------------------------------------------
(* Properties.                                                             *)

\* The streamers that may answer, by what is stored and in no order: "most specific
\* first" (services.py:81-85).
Proper(s) ==
    LET naming == {e \in Present : s \in stored[e].named}
        catchAll == {e \in Present : stored[e].named = {}}
        serving == IF naming # {} THEN naming ELSE IF catchAll # {} THEN catchAll ELSE Present
    IN  IF Present = {} THEN {None} ELSE {stored[e].url : e \in serving}

Settled(e) == phase[e] \in {"absent", "loaded"} /\ e \notin due \cup late

\* When nothing is being loaded, every satellite is routed to the streamer that the
\* stored settings name for it, whatever order edits, reloads and restarts have put
\* hass.data in (test_satellite_routing.py:54-55: "Insertion order is arbitrary, so
\* it must not affect resolution").  The exception is an entry that was saved while
\* it was being set up.
RoutesAsStored ==
    (\A e \in Entries : Settled(e))
    => \A s \in Satellites \cup {NoSatellite} : Route(s) \in Proper(s)

\* The services are there exactly while some entry can serve them: unloading one of
\* two streamers must not take the services from the other (__init__.py:171-177).
ServedByServices == services <=> live # <<>>

\* "Duplicate URLs are still refused" (config_flow.py:37-39), unless forms overlap or
\* the URL of an entry is edited.
OneEntryPerStreamer ==
    ~careless => \A e, f \in Present : stored[e].url = stored[f].url => e = f

\* What is saved is what is used in the end, through reloads that overlap further
\* edits, except by an entry that was saved while it was being set up, or that could
\* not be unloaded.
SettingsTakeEffect ==
    \A e \in Entries :
        <>[](\/ phase[e] \in {"absent", "stuck"} \/ e \in late
             \/ \E r \in Records : r.entry = e /\ r.config = stored[e])

\* What the options form was given is what it saves: its list of satellites "is why
\* migrating one room at a time is possible" (const.py:8-11).  A run shows that the
\* list is dropped.
SavesWhatWasEntered ==
    [][\A t \in Tabs, e \in Entries :
          (SavesOptions(t) /\ form[t].entry = e /\ stored'[e] # stored[e])
          => stored'[e] = form[t].input]_vars
=============================================================================
