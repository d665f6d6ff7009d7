# A verification of ha-ctrlable-snapcast-tts

TLA+ models of the Snapcast TTS streamer (the add-on in
`ctrlable-snapcast-streamer/app/`) and of the Home Assistant integration that
drives it (`custom_components/ctrlable_snapcast_tts/`), model-checked with TLC,
with proofs checked by TLAPS. Paths below are relative to those two
directories; `PROJECT.json` maps every definition to its lines.

## 1. The system

A voice satellite asks Home Assistant a question. Its answer should be heard on
the Snapcast speakers of its room, which may be playing music at that moment.

    satellite -> integration (services.py) -> add-on (main.py -> streamer.py)
                      ^  sensors                    |  JSON-RPC (snapcast.py)
                      |                             v
    satellite <-------+                        snapserver: one group per client

Each announcement client lives in a Snapcast group of its own. To announce, the
add-on switches the group's stream from the live one (music, AirPlay) to the
client's announcement stream, pushes the clip, waits until it has been heard,
and switches back. To keep music from pumping between chime and answer it can
*hold* the group on the announcement stream; a watchdog timer ends a hold that
nobody ends.

| component | state it keeps | operations | interacts through |
|---|---|---|---|
| zone (`streamer.py`) | per client: lock, `_sticky`, `_sticky_tasks`, `_volume_cache`; locals of a request in flight | `announce`, `hold_group`, `release_group`, `_sticky_watchdog` | RPC calls; `cs.*` of the persisted state |
| snapcast client (`snapcast.py`) | `_connected`, `_reader`/`_writer`, `_pending`, read loop tasks | `_call`, `reconnect`, `_read_loop`, `disconnect` | one TCP connection shared by all requests |
| mapping table (`mapping.py`, `main.py`) | `state.mappings`, `state.unmapped_seen` | `resolve`, `upsert`, `delete`, edit form, `_note_unmapped` | read by every by-satellite endpoint |
| clients and provisioning (`main.py`, `provisioning.py`, `state.py`) | `clients`, `ports_in_use` | toggle, scan, port allocation | changes `cs.*` under requests in flight |
| persisted state (`state.py`) | `state.json` | `save_state`, `load_state` | synchronous, by rename |
| startup, health (`main.py`, `watchdog.py`) | `_degraded` | `lifespan`, `run_watchdog`, save connection settings | replaces the RPC client |
| audio pipeline (`streamer.py`, `main.py`) | `format_cache`; what has been pushed, `t0`; the clip in snapserver | `detect_format`, `_stream_pcm`, `_stream_ffmpeg`, `probe_duration`, the wait of `announce`, `api_prewarm` | a TCP source of snapserver; the HTTP source of the clip |
| announcing sensors (`services.py`, `sensor.py`, `binary_sensor.py`) | `_active`, `_attr_is_on`, which entities exist | `handle_announce`, dispatcher callbacks, reload | satellites watch the sensors |
| routing, config entries (`__init__.py`, `services.py`, `config_flow.py`) | `hass.data`, entry data | setup, unload, options, `_get_client` | picks the add-on for a satellite |
| roster (`roster.py`, `__init__.py`) | debounce timer, background pushes | registry and state events, push | POST to the streamer |

What makes it hard, and what would be correct:

* **Zone.** Everything is `asyncio`: any await lets another request of the same
  zone, the watchdog, a scan or a toggle in; any call may fail, or fail *and* be
  executed later; the connection, snapserver and the add-on itself may go away;
  people use Snapcast UIs. Correct means: one announcement at a time, never
  yanked, never stranded on the announcement stream, the right music back.
* **Audio pipeline.** A clip is pushed faster than it is heard, by a source that
  may be slow or stall, and its length is counted, probed or unknown; the format
  is cached and written by prewarms at their own pace. Correct means: the group
  goes back when the room has stopped talking, and noise is never played.
* **Snapcast client.** Callers that find the connection gone reconnect over each
  other, read loops outlive their sockets, and saving other settings disconnects
  under calls in flight. Correct means: a call succeeds
  only if it was executed, at most once, and returns.
* **Mapping table.** Names contain each other, spellings differ, forms are old.
  Correct means: never the wrong room; what is saved is what is routed.
* **Announcing sensors.** Signals reach only the entities that exist by then;
  calls fail, break off, overlap, survive a reload. Correct means: never stuck
  on, and off means over.
* **Clients and ports.** Checks before an await, two saves per handler, ports
  learnt from a stale configuration. Correct means: no two enabled clients on
  one port, every port reserved, toggles
  survive a restart.
* **Routing and entries.** Two forms at once, each with an await between its
  checks and its effect; an entry that is saved is unloaded and set up again, at
  another place in `hass.data`, while services route through it. Correct means:
  what is stored decides who answers, and edits take effect.
* **Roster.** A cache in another process, fed by events that predicates have to
  recognise, through a timer, background tasks and POSTs that may fail or
  overtake each other. Correct means: whenever it is behind, something is under
  way that brings it up to date.

The hazards, each at its line, are listed in `PROJECT.json`.

## 2. The modules

| module | models |
|---|---|
| `Zone` | one zone: requests, lock, hold and timer, RPC calls, the snapserver group, disturbances |
| `ZoneProperties` | what a zone must guarantee, its inductive invariants, the refinement mapping |
| `DuckingPromise` | the abstract specification of a zone: duck, speak, hush, unduck |
| `MCZone` | which disturbances strike in which run |
| `ZoneProofs` | proofs about `Zone`: whatever disturbs it, and from any state of rest while it is calm, the refinement of `DuckingPromise` included |
| `Playback` | what happens inside a clip: format, push, wait, and the room |
| `PlaybackProofs` | proofs about `Playback` |
| `SnapcastRpc` | the JSON-RPC connection shared by several tasks |
| `CallPromise` | the abstract specification of a call |
| `RpcProofs` | proofs about `SnapcastRpc`, the refinement of `CallPromise` included |
| `Mappings`, `MCMappings` | the routing table; names and spellings for TLC |
| `MappingsProofs` | proofs about `Mappings` |
| `Announcing` | the integration's sensors around `handle_announce` |
| `AnnouncingProofs` | proofs about `Announcing` |
| `Clients`, `MCClients` | announcement ports: toggles, the scan, saves and restarts |
| `ClientsProofs` | proofs about `Clients` |
| `Routing` | config entries, their forms, and which streamer answers for a satellite |
| `RoutingProofs` | proofs about `Routing` |
| `Roster` | the satellite roster that an entry pushes to its streamer |
| `RosterProofs` | proofs about `Roster` |

Definitions marked "a slip" are deliberate mistakes, each next to the definition
it corrupts. They take no part in the models; substituting one for its
neighbour must make the property named in `PROJECT.json` fail, which shows that
the property says something about the code.

### Zone

The add-on keys every dictionary by `client_id`, so zones share nothing but the
connection, and one zone is the whole story. `pc[r]` is the await at which a
request stands: `volume`, `list`, `switch`, `play`, `restore` in `announce()`,
`holdList`, `holdSwitch` in `hold_group()`, `release` in `release_group()`.
Code between two awaits is one action; everything that happens when an await
returns, including the exception handlers and the `finally` that follow, is
part of it. `live[r]` is the local `live_stream_id` while `needs_restore` holds
(or while it is about to); `sticky` and `timer` are the entries of `_sticky` and
`_sticky_tasks`. The timer has a state `due`: its task has been woken and has
not run yet, and a cancellation still reaches it.

The lock is `asyncio.Lock`: `release()` leaves it unlocked and wakes the first
waiter, which takes it in a later step; a newcomer queues while there are
waiters (`Uncontended`).

A call is written without yielding if the client is connected (`Calls`);
otherwise the caller reconnects first and may be overtaken (`Dial`). `wire` is
what snapserver has yet to run, in order. A call that times out loses its future
but stays on the wire (`Abandon`), so it can still be executed.

Requests arrive as `answer` (the group is released afterwards), `chime` (the
group is held afterwards, `hold_group=True`), `hold` or `release`, in any order
and number up to the bound. The clip (format detection, ffmpeg, push, wait,
drain) is one step, `PlayEnd`, successful or not; `Playback` looks inside it. Disturbances have a budget
each (`Budget`): a failing call, a dropped connection, a crash of the add-on, a
snapserver restart, a user of a Snapcast UI, a volume slider, a toggle, a scan.

The group has a number for an id, which a restart of snapserver and a user change;
the program may start with one in `state.json` that is out of date (`Init`).

Left out of `Zone`: a toggle changes `enabled` only (the port is data here); the
scan's second strategy, which finds no named stream and does not link a stream
to switch to; several list calls of one scan are one.

### SnapcastRpc

`Zone` takes a connection as up or down. `SnapcastRpc` has what happens in
between: sockets are numbered, each connection starts a read loop, a loop reads
whatever `_reader` is at the time of its next `readline()`, a second waiter on
one reader gets `RuntimeError`, and whichever loop ends runs the `finally` that
sets `_connected` to false and fails every pending future. Writing to a
connection that is gone may raise or not. `Disconnect` is what saving other
settings does to the client: it closes the socket and leaves the futures that
wait in `_pending` (`cut` remembers them), from where the read loop, if it is not
replaced first, fails them. The tasks that hold the old client go on with it.

### Playback

One zone with its lock held. Time and audio are counted in ticks: `Pushes` writes
one tick of audio, `Tick` lets one tick of time pass, in which snapserver plays
one tick of what it has (`pipe`), and a source is fast, slow or bursty by how the two
interleave. `quiet` counts up to `Tail` what the output chain behind snapserver
takes. The silence comes before the source in the ffmpeg path and with its first
bytes in the raw path. `until` is when both sleeps of `announce()` end; the ceiling
and an unknown length are remembered in `unsure`, as is a room that was not quiet
when the clip began. `starved` is the time for which snapserver had run dry before
the source had given everything. That the drain covers the silence and the tail
is an assumption about the constants (`DrainAssumption`, streamer.py:18-55).
Formats are what a source serves now (`serves`), what the cache says and what a
`HEAD` reports, which without an answer is "other".

### Mappings

`resolve()`, `upsert()` and `delete()` are operators on sequences of rows, as in
the code: the order decides between alike rows. A list comprehension of the code
is `Filter`, with the set of rows that pass its condition. A browser form may have
been open for any time, so the original key it carries is any key. `NeverWrongRoom`
compares `resolve()` with a definition by sets of row numbers, in which order
appears in one place: of several rows that may answer, the oldest does.

### Announcing

The dispatcher runs callbacks at once but only those connected by then: an
entity is `unavailable` from `async_add_entities` until `async_added_to_hass`.
Of the add-on there is only that the answers of one satellite play one at a
time, that a reply comes after playback, and that a failing answer gives its group
back or, if nothing puts it back, leaves it to what snapserver has buffered
(`LeavesBehind`). The call and its request may part: a timeout, a lost connection, an
error of a proxy or a cancelled service call ends the call, and `finally` switches
the sensors off, while the request goes on (`BreaksOff`). `troubled` is a history
variable: satellites that overlapped two announcements, of which a call broke off in
this way, or an answer was left behind.

### Clients

`mem` and `disk` are the same part of `AppState`, in memory and in `state.json`;
a save copies all of it, whoever saves (`OtherSave`). A toggle of a known client
has no await and is one action; one of an unknown client waits for its name
first (`asking`) and then stores a fresh `ClientState`, whether or not another tab
has stored one meanwhile. A failed save and a crash between the two saves of an
allocation are outcomes of the toggle (`Flips`, `CrashAllocating`). The scan
iterates over the live dictionary: it works without interruption until it meets
a client that has no stream of its own, awaits that client's group, and goes on
(`Loops`). Meanwhile the object it holds may be replaced (`orphan`), and a new key
makes the iterator raise (`grown`), which leaves the changes made so far unsaved.
`conf` is what snapserver has: the snippet as it was when last installed, which is
assumed to replace the managed block at once. `astray` is a history variable: some
scan met a configuration other than the snippet in force, was overtaken by a
toggle, or adopted the port of whatever stream a group was playing. That last
strategy lets clients share a port on purpose.

### Routing

`stored` is what Home Assistant keeps of the entries, `live` is `hass.data` in
insertion order, `phase` is where Home Assistant stands with an entry. A form is
submitted in one step (with the check for duplicates) and takes effect in
another, after the await of `get_health()`. `async_setup_entry()` has two steps around
the platforms, since it adds the update listener only at its end: `late` remembers
entries that were saved too early for it. A reload, a removal and a platform that
will not unload are Home Assistant's doing and external. `Proper` is the reference for
`_get_client()`: sets of entries, no order.

### Roster

`reg` is what `collect()` reads of a satellite, `title` the names of the areas,
`Collect` what would be sent now. The listeners are one action per kind of change,
with the predicates of `roster.py` as operators. A timer that is armed again stays
armed; when it fires it starts a background task (`ready`), which collects and
sends without yielding. `posts` are the POSTs under way in the order they were
sent; a mishap loses one or lets a later one overtake. `missed` remembers that the
newest POST was lost or overtaken, an entity was disabled or an area renamed, until
the next push. The activity of a satellite (`state`), which is sent but which no
event refreshes, is left out. The streamer's end of the POST is not in this
repository's add-on (section 5); it takes what arrives.

## 3. The runs

| run | instance | shows |
|---|---|---|
| `zone_quiet` | 3 requests, 2 live streams, 2 volumes, a toggle, fairness | `Zone` implements `DuckingPromise`, liveness included; exclusion, nobody stranded, nobody yanked, nobody unheard, the right volume, the end of an exchange unducks |
| `zone_failures` | 2 requests; call failure, crash, restart, slider, scan once each | a hold has its timer, nothing goes back to the announcement stream, the inductive invariant with the types |
| `zone_live` | 2 requests, fairness; call failure, drop, crash, user once each | requests end, holds end, the music comes back unless something failed |
| `snapcast_rpc` | 2 tasks, 2 calls, 3 sockets, 2 losses or disconnects, fairness | `CallPromise`; no forgotten future; never deaf |
| `mappings` | 3 names of which two are contained in the third, 2 spellings of a wake word and `*`, 2 targets, 3 rows, a list of 2 | routing and editing |
| `announcing` | 2 satellites, 3 calls, one that breaks off, a reload | sensors |
| `clients` | 2 clients, 2 tabs, 5 ports; 5 toggles, a scan, 2 installations, a crash, a failed save | unique and reserved ports, toggles survive, who is on has a port |
| `roster` | 2 satellites, an area, 2 wake words; 2 changes of any kind, a mishap, a reload, fairness | nothing is forgotten, the streamer catches up |
| `routing` | 2 entries, 2 streamers, 2 satellites, 2 tabs; 2 forms, a restart, a stuck platform, fairness | who answers, the services, no duplicates, edits take effect |
| `routing_options` | 1 form | section 5 |
| `playback` | 2 clips of 0, 1, 3 or 6 ticks, silence of 0 or 1, tail 2, drain 4, ceiling 4, pushes of up to 6 ticks, a format that changes | nothing is cut off, only PCM is pushed raw |
| `playback_slow` | 1 clip | section 5 |

Why the bounds are enough to meet the interesting cases. Two requests are what an
interleaving needs; a third lets one hold the lock, one wait and one arrive, and
gives exchanges such as chime, answer, answer or hold, answer, release. Two live
streams tell the right one from the wrong one. Each disturbance once, but all
kinds in one run, gives their combinations, such as a call that fails before a
crash. Two losses and three sockets allow both tasks to reconnect over each other,
and one to do so after the other's connection was closed under it. Three rows are the least for an exact, a loose and a competing
row. Five toggles allow off, on elsewhere and on again after two clients have been
switched on, with five ports never to run out even if one leaks. Two entries and two satellites give every mix of naming and catch-all entries, and
two forms overlap in every way. Two changes let the second meet the timer, the
push or the POST of the first. A clip of six ticks exceeds the ceiling of four, one
of three does not; a push of six ticks can be longer than any clip, and a second
clip can begin in what a failed first one has left. Where the run
must not stop, `Rest` is a stuttering step that is enabled only
when nothing is under way, so a deadlock elsewhere is still an error.

Symmetry is declared only where the configuration checks no liveness.

**Fairness.** No request has to arrive and no disturbance has to strike. What has
been started goes on: the event loop runs every ready task (weak fairness of
each request's next step, of handing over the lock, of the watchdog's steps and
of the read loops), an armed timer expires, snapserver answers what is on the
wire, and a clip ends. The last is an assumption about the audio source: the
wait after the push is capped (`_MAX_PLAYBACK_WAIT`), the push itself is not. In
`SnapcastRpc` nothing is assumed of snapserver: the timer of a waiting call
expires, as `asyncio.wait_for` makes it. In `Routing` and `Roster` Home Assistant goes on
with setups and reloads, finishes starting, fires timers, runs background tasks
and drops the states of removed entities, and a POST that is not lost arrives; no
change has to happen and no form to be submitted. `Playback` has no liveness: its
sleeps end by the clock.

One watchdog call at a time is enough in `Zone`: reconnecting and calling take
at most `2 * RPC_TIMEOUT` = 10 s, and the next watchdog sleeps `STICKY_TIMEOUT`,
which is longer, before it calls.

## 4. The proofs

TLAPS proves, for every set of requests, streams and volumes and every budget of
disturbances:

* `ZoneProofs!Invariance`: `ZoneInv` is an invariant of `Zone`. From it follow
  `Typing` (`TypeOK`), `Exclusion` (`Serialised`), `HoldsAreTimed`
  (`HoldHasTimer`) and `NothingHomesToAnn` (`NeverHomesToAnn`).
* From any state of rest (`AtRest`), however it was reached, for as long as only
  toggles, scans and sliders strike (`Calmly`): `ZoneProofs!NeverStranded`
  (`NoStrand`), `NeverYanked` (`NoYank`), `EveryoneHeard` (`EveryoneIsHeard`),
  `ExchangesUnduck` (`ExchangeEndUnducks`) and `MusicComesBack`: the safety part of
  the refinement of `DuckingPromise`. Without sliders (`Alone`), `VolumeKept`
  (`PlaysAtItsVolume`).
* `ClientsProofs!DedicatedPorts` (`OwnPort`), `TogglesSurvive`
  (`EnabledSurvives`), `OnMeansProvisioned` (`EnabledHasPort`) and
  `ClientsTyping`, for any number of clients, tabs, ports and deeds.
* `AnnouncingProofs!NeverWedged` (`NoStuckOn`), `AnnouncingTyping` and
  `OffIsOver` (`OffMeansOver`), for any number of satellites, calls, breaks
  and reloads.
* `RpcProofs!NoFutureForgotten` (`NobodyForgotten`), `ConnectedListens`
  (`NeverDeaf`), `RpcTyping` and `CallsAreKept`: the safety part of the refinement
  of `CallPromise`, for any number of tasks, sockets, calls and losses.
* `PlaybackProofs!NothingIsCut` (`NothingCut`), `RawIsPcm` (`RawMeansPcm`) and
  `PlaybackTyping`, for any lengths, silences, tail, drain and ceiling, any source
  and any number of hosts.
* `RoutingProofs!RoutingFollowsSettings` (`RoutesAsStored`), `RoutingServices`
  (`ServedByServices`), `RoutingUniqueness` (`OneEntryPerStreamer`) and
  `RoutingTyping`, for any number of entries, streamers, satellites and tabs.
* `MappingsProofs!NeverTheWrongRoom` (`NeverWrongRoom`), `SavesTakeEffect`
  (`SaveTakesEffect`), `SavesAreLocal` (`SaveTouchesItsRowsOnly`) and `TypeCorrect`
  (`TypeOK`, with the unique keys), for tables of any length, any satellites, names
  that contain each other, wake words, spellings and edits.
* `RosterProofs!RosterNotForgotten` (`NothingForgotten`) and `RosterTyping`, for any
  number of satellites, areas, words, changes and mishaps.

The only assumptions are those that the modules state of their constants: the values that stand for nothing, for the announcement stream and for
the two background callers are distinct from the others, there is a live stream
and a first socket, a form that was not opened by Edit carries no key, ports are positive numbers, amounts and budgets are numbers.
TLC evaluates them in every run.

*Zone.* That the lock is exclusive needs nothing but itself. That nothing restores
to the announcement stream does not: a hold is armed with a stream that came in
a reply, so one has to know that the reply a request waits for is the answer to
*its* list call, and that it was neither armed from an announcement already on
the announcement stream. Hence `RpcInv`: a request waits exactly where its code
awaits a call; whatever is on the wire and has a caller is that caller's one
call, of the kind its place asks for; a list that succeeded has delivered a
group. And `HoldInv`: a hold and its timer come and go together; a request that
is about to switch or restore knows where to, and never to the announcement
stream; one that has asked for the groups is linked. `ZoneInv` is the conjunction
with the types. `RpcInv` survives a lost connection and a crash because both
take the callers off the wire, which is why a slip in `Abandon` breaks it.

The proof has one lemma for each building block of the actions (`MovesLemma` for
the lock, `CallsLemma` and `HangsUpLemma` for the calls, `HoldStepLemma` for the
hold), one lemma per action, and `NextLemma` to collect them.

*A calm zone.* These theorems have the form `Spec => [](AtRest /\ [][Calmly]_vars =>
...)`. At rest nothing is under way, snapserver can be reached, and it has the
snapclient in a group that plays music or is held by a hold linked to that group. The
add-on starts at rest (`StartsAtRest`); failures, crashes, restarts and users may strike
before, any number of times, and what they leave behind (a stored group id that is
gone, a stale volume cache, aborted requests, another stream) is allowed for. Not at
rest is a group that a crash or a lost switch has left on the announcement stream
without a hold: section 5 says what becomes of it. A calm while that ends is covered
too: whatever happens in it also happens in a behaviour that stutters from its end on.
That the zone is calm is needed: each property fails under some of the disturbances it
excludes (section 5).

`QuietInv` adds to `ZoneInv` that calls are sent
at once and answered (`Answering`), that a zone that is held or has been switched is
linked to its group (`LinkedToDuck`), and two
facts about order. `RestoreFirst`: the watchdog restores without the lock, and a
request that gets the lock meanwhile can only have asked for the groups, behind the
restore on the one connection, so it will be told of the live stream. `KnowsGroup`:
what a request has been told of the group stays true until it unlocks, because only
calls change the group, and the only other caller that switches is that watchdog.
`VolumeInv` says the same of the volume and its cache. `HomeInv` is what the
refinement needs: the mapping takes for `home`, while the zone is ducked, some stream
that somebody still owes (`Owed`), and `OwedOnce` shows that there is exactly one,
passed on from a request to a hold, to the next request and to the call that brings
it back. `HomeServe` then shows that running a call ducks the zone, brings `home`
back while nobody is heard, or is no step of the promise at all, and `HomeNext` that
no other step changes the group or `home`. `StartsHeard` puts together what a request
knows when it starts to play: it found the group held, or its switch was acknowledged,
and `HomeInv` keeps the group there; no stored id comes into it, because the list that
came back has replaced it (`Refreshes`). Before they were proved, the three
invariants were checked with TLC on instances of 2 and 3 requests with failures,
restarts, users, scans, toggles and sliders, and with a history variable that tells
whether the zone has come to rest since.

*Announcing.* `NoStuckOn` with the types is inductive. `OffMeansOver` is an action
property; the invariant under it, `Single`, says that a satellite without
trouble has one call under way at most and still waits for it, and has left nothing
to snapserver. `OffLemma` shows
that nothing but the end of a call turns a sensor off.

*Clients.* `OwnPort` alone is not inductive: a scan writes ports that it read
earlier. `Synced` says that, as long as nothing went astray, they are the ports
that memory has, so that linking changes nothing. What is saved is always a
state that memory was in, so the file needs no argument of its own except for
the half-done toggle (`AllocatedFact`): its port is reserved and its client has
none yet. `OnInv` adds that a budget spent stays spent.

*SnapcastRpc.* Ids are given out once and a future lives as long as its call
(`OwnIds`); only what snapserver has run is in an `outbox` or has made a future
succeed (`Honest`); on a client that is not connected nobody waits, except since
`disconnect()` (`Settles`). The last is why emptying `_pending` in `reconnect()`
forgets nobody: whoever switched `_connected` off, the `finally` of a read loop,
failed all futures in the same step. `StepMaps` has a case per action, and each
is a step of `CallPromise` or leaves its view unchanged.

*Playback.* The argument is a balance: until the source has given everything,
`elapsed + pipe` never exceeds the silence, the audio pushed and the time starved
(`OnTime`), and raw PCM whose silence has yet to come is that much behind
(`SilenceInv`); `announce()` leaves only when the audio and the drain have elapsed
since `t0` (`WaitInv`). With the drain covering silence, gaps and tail, the rest is
arithmetic. `RawIsPcm` needs that a prewarm under way also has a format the host
serves, or "other".

*Routing.* `LiveInv`: an entry that is set up has a record in `hass.data`, with what
is stored unless a reload is due or it was saved too early. A lemma shows that the
loops of `_get_client()` return a member of `Proper` whatever the order
(`FirstLemma` is the library's well-founded minimum). `UniqueInv` adds that a form
under way is as good as stored, as long as nobody was careless.

*Mappings.* What `Filter` computes can only be known by induction over the table. The
library's induction theorems take a predicate, which the provers cannot instantiate;
`TableInduction` takes the set of the tables that have the property instead, and is
derived from the well-foundedness of the numbers. With it come the facts that the
rest needs: which rows `Filter` keeps (`FilterMembers`), that two in a row are one
(`FilterTwice`), that its first row is the oldest that passes (`FilterHead`), when
there is just one (`FilterOne`), and that keys stay unique (`FilterOneRowEach`). Then
`resolve()` is one `Filter` over the whole table (`CandidatesAre`), and a save is
`Filter` followed by one new row (`SaveFormIs`). The last two properties need of
`TypeOK` only that the table is one; unique keys are a theorem of their own.

*Roster.* `NothingForgotten` is inductive with the types: every change either arms
the timer, is remembered in `missed`, or leaves `Collect` as it was.

Only model-checked: liveness (`EveryRequestEnds`, `EveryHoldEnds`,
`UnducksUntroubled`, `CatchesUp`, `SettingsTakeEffect`, the fairness of the two
promises), because the prover does neither fairness nor `ENABLED`.

## 5. Where the code and its comments disagree

Shown by a run:

* **A slow source cuts the end of an answer off** (`playback_slow`). `announce()`
  waits for the length of the clip less the time of the push, and the push
  includes what the source needs before its first byte, or pauses. While it gives
  nothing the room hears nothing, so the playback is late by as much as the wait is
  short: beyond some 230 ms (drain 1.2 s, less 0.3 s of silence and a tail of
  0.67 s) the group goes back while the end is still to be heard.
* **The options form drops the satellites of an entry** (`routing_options`). It
  offers the list and saves the URL and the token only, so that the entry becomes
  a catch-all, whatever was to be edited.

The following are not among the runs; each comes out of TLC with the change named.

* **A crash while ducked strands the zone.** `watchdog.py:15-17` says the next
  announcement "will detect the mismatch and restore correctly". It does not: the
  group is on the announcement stream already and the hold was in memory, so
  the announcement neither switches nor restores. (`ExchangeEndUnducks` in
  `ZoneQuiet.cfg` with `Spec`, two requests and `Budget <- OneCrash`.)
* **A switch that times out but is executed strands the zone.** `needs_restore` is
  set after the await (`streamer.py:481`), so nobody owes the way back and no timer
  was armed. (`Unducks` with `FairSpec`, a request and `Budget <- OneFailure`.)
* **The watchdog can yank the group from under an announcement.** It looks at the
  lock (`streamer.py:284`), but its restore may first have to reconnect. (`NoYank`
  with two requests and `Budget <- OneDrop`.)
* **Off does not mean over when answers overlap.** The sensors do not count calls
  (`services.py:178`). (`OffAlwaysMeansOver` in `Announcing.cfg`.)
* **Off does not mean over when a call breaks off.** `api.py:111` converts a failed
  connect and a timeout, anything else ends in `services.py:174`; in each case the
  sensors go off while the add-on, which knows nothing of it, goes on with the answer.
  (`OffAlwaysMeansOver` in `Announcing.cfg` with `Calls = {c1}`.)
* **A scan can give two clients one port.** It takes the port of the stream that
  snapserver is running, although the port has been given to another client since
  (`provisioning.py:119`); the next snippet then has it twice. (`OwnPortAlways` in
  `Clients.cfg` with `Budget <- Careless` and `Shared = {}`.)
* **The roster misses a disabled satellite and a renamed area.** `roster.py:42` says
  that the predicates must agree with what `collect()` sends, but `disabled_by`
  is not among the fields, and nobody listens to the area registry.
  (`AlwaysCatchesUp` in `Roster.cfg`.) The `state` that is sent is not kept up to
  date at all, on purpose (`roster.py:76-80`).

Met while modelling, without a formula: the add-on of this repository has no
`POST /satellites` that the roster is pushed to (the changelog says so); the
comment at `streamer.py:567` says that chimes pass a shorter drain, `main.py:491` that
they no longer do; a prewarm without a host warms the key `"prewarm"`
(`main.py:309`), which no announcement looks up; testing the connection settings
saves them (`main.py:724`); a release during the first announcement of an exchange
returns at once, although its docstring says that it waits
(`streamer.py:377-381`), and the hold armed afterwards ends by the watchdog only; a
removal from the group plus a scan during an announcement blanks the stored group
id, and the restore goes nowhere; a source picked during a hold is overwritten; a
slider makes the volume cache stale; the list of unmapped satellites forgets by
first, not last, failure; client ids that differ in punctuation only share a
stream name; `/health` and two pages read a flag that is set at startup and when
settings are saved only.

## 6. What is not modelled

Not worth modelling: decoding and the bytes of the audio, the web pages (read
only), the activity log, the TTS proxy, the token check, the integration's own
`mapping.py` (nothing imports it), ESPHome device configurations.

Left out of what is modelled: raw WAV of another rate than snapserver's; two scans
at once; damaged state files; `_degraded`, on which nothing but two pages
depends; the ids and names that the roster derives from entity ids.

What would come next is `Exchange`, a composition of `Mappings`, `Zone` and
`Announcing` for one satellite's exchange (hold and release resolved separately,
mapping edited in between). `Zone` covers its effect on a zone, a release that never comes.

## 7. Running it

    tlc -config ZoneQuiet.cfg MCZone            tlapm ZoneProofs.tla
    tlc -config SnapcastRpc.cfg SnapcastRpc     tlapm RpcProofs.tla
    tlc -config Playback.cfg Playback           tlapm PlaybackProofs.tla
    tlc -config Mappings.cfg MCMappings         tlapm MappingsProofs.tla
    tlc -config Announcing.cfg Announcing       tlapm AnnouncingProofs.tla
    tlc -config Clients.cfg MCClients           tlapm ClientsProofs.tla
    tlc -config Routing.cfg Routing             tlapm RoutingProofs.tla
    tlc -config Roster.cfg Roster               tlapm RosterProofs.tla

The longest run takes less than three minutes on two cores, each proof
about one, `ZoneProofs` two to three.
