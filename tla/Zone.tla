-------------------------------- MODULE Zone --------------------------------
(***************************************************************************)
(* One announcement zone of the streamer add-on: the requests that         *)
(* announce into it, hold it and release it (app/streamer.py), the         *)
(* per-client lock they serialise on, the hold and its watchdog timer, the *)
(* JSON-RPC calls they make (app/snapcast.py), and the snapserver group    *)
(* those calls switch between a live stream and the announcement stream.   *)
(*                                                                         *)
(* The add-on keys every dictionary involved by client_id, so zones share  *)
(* nothing but the connection; this module is the whole story of one zone. *)
(*                                                                         *)
(* A definition marked "a slip" is not part of the model: it is the next   *)
(* definition with a mistake in it, kept to see that a property notices.   *)
(***************************************************************************)
EXTENDS Naturals, Sequences

CONSTANTS
    Requests,   \* HTTP requests that reach this zone, each served once
    Streams,    \* live streams the group may play: music, AirPlay, ...
    Ann,        \* cs.announce_stream_id once the zone is linked
    Volumes,    \* announcement volumes a caller may ask for
    Nil,        \* "", None, "no entry in the dictionary"
    Watchdog,   \* the _sticky_watchdog task, as an RPC caller
    Scanner,    \* ui_streams_scan, as an RPC caller
    Budget      \* how often each disturbance may happen

Callers == Requests \cup {Watchdog, Scanner}
Disturbances ==
    {"rpc", "drop", "crash", "restart", "user", "volume", "toggle", "scan"}

ASSUME NilAssumption ==
    Nil \notin Nat \cup Streams \cup {Ann} \cup Volumes \cup Callers
ASSUME AnnAssumption == Ann \notin Streams
ASSUME StreamsAssumption == Streams # {}
ASSUME CallersAssumption ==
    /\ Watchdog \notin Requests
    /\ Scanner \notin Requests
    /\ Watchdog # Scanner
ASSUME BudgetAssumption == Budget \in [Disturbances -> Nat]

VARIABLES
    owner,      \* who holds _locks[client_id]; Nil when locked() is False
    queue,      \* the lock's waiters, first in first out
    pc,         \* where each request is
    kind,       \* which endpoint it came in by
    vol,        \* the volume it asked for
    live,       \* live_stream_id while a restore is owed by this request
    sticky,     \* _sticky[client_id]: the stream a held group goes back to
    timer,      \* _sticky_tasks[client_id]: off, sleeping, or woken ("due")
    volCache,   \* _volume_cache[client_id]
    cfgGroup,   \* cs.announce_group_id, persisted
    cfgStream,  \* cs.announce_stream_id, persisted
    enabled,    \* cs.enabled, persisted
    connected,  \* SnapcastClient._connected
    net,        \* state of each caller's RPC
    dialing,    \* the message a caller will send once it has reconnected
    reply,      \* the group a finished Server.GetStatus reported
    wire,       \* calls written to the socket that snapserver has yet to run
    group,      \* snapserver: the group of this zone's snapclient
    snapVol,    \* snapserver: the snapclient's volume
    left        \* disturbances still to come

lockVars == <<owner, queue>>
reqVars  == <<pc, kind, vol, live>>
holdVars == <<sticky, timer>>
cfgVars  == <<cfgGroup, cfgStream, enabled>>
rpcVars  == <<connected, net, dialing, reply, wire>>
snapVars == <<group, snapVol>>
vars == <<lockVars, reqVars, holdVars, volCache, cfgVars, rpcVars, snapVars, left>>

Kinds == {"answer", "chime", "hold", "release"}

\* Between acquiring the client's lock and giving it back.
Critical == {"volume", "list", "switch", "play", "restore",
             "holdList", "holdSwitch", "release"}
PCs == {"new", "queued", "done", "aborted"} \cup Critical

\* "left": the group exists and the snapclient is not in it; "gone": no such
\* group until the snapclient registers again.
Groups == [id : Nat, stream : Streams \cup {Ann}, at : {"joined", "left", "gone"}]

\* Server.GetStatus, Group.SetStream and Client.SetVolume.
Messages ==
    [op : {"list"}, gid : {Nil}, arg : {Nil}]
      \cup [op : {"stream"}, gid : Nat \cup {Nil}, arg : Streams \cup {Ann}]
      \cup [op : {"volume"}, gid : {Nil}, arg : Volumes]

TypeOK ==
    /\ owner \in Requests \cup {Nil}
    /\ queue \in Seq(Requests)
    /\ pc \in [Requests -> PCs]
    /\ kind \in [Requests -> Kinds \cup {Nil}]
    /\ vol \in [Requests -> Volumes \cup {Nil}]
    /\ live \in [Requests -> Streams \cup {Ann, Nil}]
    /\ sticky \in Streams \cup {Ann, Nil}
    /\ timer \in {"off", "sleeping", "due"}
    /\ volCache \in Volumes \cup {Nil}
    /\ cfgGroup \in Nat \cup {Nil}
    /\ cfgStream \in {Ann, Nil}
    /\ enabled \in BOOLEAN
    /\ connected \in BOOLEAN
    /\ net \in [Callers -> {"idle", "dial", "sent", "ok", "err"}]
    /\ dialing \in [Callers -> Messages \cup {Nil}]
    /\ reply \in [Callers -> Groups \cup {Nil}]
    /\ wire \in Seq([from : Callers \cup {Nil}, msg : Messages])
    /\ group \in Groups
    /\ snapVol \in Volumes \cup {Nil}
    /\ left \in [Disturbances -> Nat]

-----------------------------------------------------------------------------
(* Calls to snapserver.                                                    *)

ListGroups      == [op |-> "list", gid |-> Nil, arg |-> Nil]
SetStream(g, s) == [op |-> "stream", gid |-> g, arg |-> s]
SetVolume(v)    == [op |-> "volume", gid |-> Nil, arg |-> v]

\* A connected client writes the request without yielding; a disconnected one
\* reconnects first, and others may overtake it while it does.
Calls(p, m) ==
    /\ \/ /\ connected
          /\ net' = [net EXCEPT ![p] = "sent"]
          /\ wire' = Append(wire, [from |-> p, msg |-> m])
          /\ UNCHANGED dialing
       \/ /\ ~connected
          /\ net' = [net EXCEPT ![p] = "dial"]
          /\ dialing' = [dialing EXCEPT ![p] = m]
          /\ UNCHANGED wire
    /\ reply' = [reply EXCEPT ![p] = Nil]
    /\ UNCHANGED connected

\* The caller has its answer and makes no further call for now.
HangsUp(p) ==
    /\ net' = [net EXCEPT ![p] = "idle"]
    /\ reply' = [reply EXCEPT ![p] = Nil]
    /\ UNCHANGED <<connected, dialing, wire>>

Answered(p) == net[p] \in {"ok", "err"}

\* The calls of p that are still on the wire lose the future they would resolve.
AbandonNone(w, ps) == w                                              \* a slip
Abandon(w, ps) ==
    [i \in DOMAIN w |->
        [from |-> IF w[i].from \in ps THEN Nil ELSE w[i].from, msg |-> w[i].msg]]

Dial(p) ==
    /\ net[p] = "dial"
    /\ connected' = TRUE
    /\ net' = [net EXCEPT ![p] = "sent"]
    /\ wire' = Append(wire, [from |-> p, msg |-> dialing[p]])
    /\ dialing' = [dialing EXCEPT ![p] = Nil]
    /\ UNCHANGED <<lockVars, reqVars, holdVars, volCache, cfgVars, reply, snapVars, left>>

\* Group.SetStream on an id snapserver does not know is answered with an error.
Known(m) == m.op = "stream" => m.gid = group.id /\ group.at # "gone"

\* Snapserver takes the next call and answers whoever still waits for it.
Serve ==
    /\ wire # <<>>
    /\ LET m == Head(wire).msg
           p == Head(wire).from
       IN  /\ wire' = Tail(wire)
           /\ group' = IF m.op = "stream" /\ Known(m)
                       THEN [group EXCEPT !.stream = m.arg] ELSE group
           /\ snapVol' = IF m.op = "volume" THEN m.arg ELSE snapVol
           /\ \/ /\ p = Nil
                 /\ UNCHANGED <<net, reply>>
              \/ /\ p # Nil
                 /\ net' = [net EXCEPT ![p] = IF Known(m) THEN "ok" ELSE "err"]
                 /\ reply' = [reply EXCEPT ![p] = IF m.op = "list" THEN group ELSE Nil]
    /\ UNCHANGED <<lockVars, reqVars, holdVars, volCache, cfgVars,
                   connected, dialing, left>>

-----------------------------------------------------------------------------
(* The hold and its timer.                                                 *)

ArmWithoutTimer(s) == sticky' = s /\ timer' = timer                  \* a slip
Arm(s) == sticky' = s /\ timer' = "sleeping"

DisarmHoldOnly == sticky' = Nil /\ timer' = timer                    \* a slip
Disarm == sticky' = Nil /\ timer' = "off"

\* The lock: release() clears it and wakes the first waiter, which takes it in
\* a later step; until then locked() is False and newcomers queue.
Locked == owner # Nil
NoWaiters == queue = <<>>                                            \* a slip
Uncontended == ~Locked /\ queue = <<>>

UnlocksUnlessFailed(r) == owner' = IF net[r] = "err" THEN r ELSE Nil \* a slip
Unlocks(r) == owner' = Nil

Finish(r) ==
    /\ Unlocks(r)
    /\ pc' = [pc EXCEPT ![r] = "done"]
    /\ live' = [live EXCEPT ![r] = Nil]
    /\ HangsUp(r)

Goes(r, where) ==
    /\ owner' = r
    /\ pc' = [pc EXCEPT ![r] = where]

-----------------------------------------------------------------------------
(* announce(), hold_group() and release_group() up to their first await    *)
(* under the lock.                                                         *)

Linked == cfgGroup # Nil /\ cfgStream # Nil

StartSwitch(r) ==
    \/ /\ Linked
       /\ Goes(r, "list")
       /\ Calls(r, ListGroups)
    \/ /\ ~Linked
       /\ Goes(r, "play")
       /\ HangsUp(r)

\* No volume asked for, or the one this process last applied.
SomeVolumeIsSet(v) == v = Nil \/ volCache # Nil                       \* a slip
VolumeIsSet(v) == v \in {Nil, volCache}

BeginAnnounce(r, v) ==
    /\ \/ /\ ~VolumeIsSet(v)
          /\ Goes(r, "volume")
          /\ Calls(r, SetVolume(v))
       \/ /\ VolumeIsSet(v)
          /\ StartSwitch(r)
    /\ UNCHANGED <<live, holdVars>>

BeginHold(r) ==
    \/ /\ sticky # Nil
       /\ Arm(sticky)
       /\ Finish(r)
    \/ /\ sticky = Nil
       /\ Goes(r, "holdList")
       /\ Calls(r, ListGroups)
       /\ UNCHANGED <<live, holdVars>>

BeginRelease(r) ==
    /\ Disarm
    /\ \/ /\ sticky # Nil
          /\ Goes(r, "release")
          /\ Calls(r, SetStream(cfgGroup, sticky))
          /\ UNCHANGED live
       \/ /\ sticky = Nil
          /\ Finish(r)

Begin(r, k, v) ==
    \/ k \in {"answer", "chime"} /\ BeginAnnounce(r, v)
    \/ k = "hold" /\ BeginHold(r)
    \/ k = "release" /\ BeginRelease(r)

\* What each entry point checks before it asks for the lock.
Refused(k) ==
    \/ k \in {"answer", "chime"} /\ ~enabled
    \/ k = "hold" /\ (~enabled \/ cfgStream = Nil)
    \/ k = "release" /\ sticky = Nil

Arrive(r, k, v) ==
    /\ pc[r] = "new"
    /\ v # Nil => k \in {"answer", "chime"}
    /\ kind' = [kind EXCEPT ![r] = k]
    /\ vol' = [vol EXCEPT ![r] = v]
    /\ \/ /\ Refused(k)
          /\ pc' = [pc EXCEPT ![r] = "done"]
          /\ UNCHANGED <<lockVars, live, holdVars, rpcVars>>
       \/ /\ ~Refused(k)
          /\ Uncontended
          /\ Begin(r, k, v)
          /\ UNCHANGED queue
       \/ /\ ~Refused(k)
          /\ ~Uncontended
          /\ pc' = [pc EXCEPT ![r] = "queued"]
          /\ queue' = Append(queue, r)
          /\ UNCHANGED <<owner, live, holdVars, rpcVars>>
    /\ UNCHANGED <<volCache, cfgVars, snapVars, left>>

Grant ==
    /\ ~Locked
    /\ queue # <<>>
    /\ queue' = Tail(queue)
    /\ Begin(Head(queue), kind[Head(queue)], vol[Head(queue)])
    /\ UNCHANGED <<kind, vol, volCache, cfgVars, snapVars, left>>

-----------------------------------------------------------------------------
(* announce() after each of its awaits.                                    *)

VolumeDone(r) ==
    /\ pc[r] = "volume" /\ Answered(r)
    /\ volCache' = IF net[r] = "ok" THEN vol[r] ELSE volCache
    /\ StartSwitch(r)
    /\ UNCHANGED <<queue, kind, vol, live, holdVars, cfgVars, snapVars, left>>

\* The group that contains the client, or failing that the one stored.
FoundStored(g) == g.at # "gone" /\ g.id = cfgGroup                    \* a slip
Found(g) == g.at = "joined" \/ (g.at = "left" /\ g.id = cfgGroup)

\* A stored id that snapserver has replaced is replaced too.
KeepsStale(g) == cfgGroup' = IF cfgGroup = Nil THEN g.id ELSE cfgGroup \* a slip
Refreshes(g) == cfgGroup' = g.id

\* The stream to go back to: a held group remembers it, any other is on it.
HomeIsCurrent(g) == g.stream                                         \* a slip
Home(g) == IF sticky # Nil THEN sticky ELSE g.stream

Listed(r) ==
    /\ pc[r] = "list" /\ Answered(r)
    /\ \/ /\ net[r] = "ok" /\ Found(reply[r])
          /\ Refreshes(reply[r])
          /\ \/ /\ reply[r].stream # cfgStream
                /\ live' = [live EXCEPT ![r] = Home(reply[r])]
                /\ Goes(r, "switch")
                /\ Calls(r, SetStream(reply[r].id, cfgStream))
             \/ /\ reply[r].stream = cfgStream
                /\ live' = [live EXCEPT ![r] = IF sticky # Nil THEN Home(reply[r]) ELSE Nil]
                /\ Goes(r, "play")
                /\ HangsUp(r)
       \/ /\ ~(net[r] = "ok" /\ Found(reply[r]))
          /\ Goes(r, "play")
          /\ HangsUp(r)
          /\ UNCHANGED <<cfgGroup, live>>
    /\ UNCHANGED <<queue, kind, vol, holdVars, volCache, cfgStream, enabled, snapVars, left>>

\* needs_restore is set only once the switch has been acknowledged.
SwitchDone(r) ==
    /\ pc[r] = "switch" /\ Answered(r)
    /\ live' = [live EXCEPT ![r] = IF net[r] = "ok" THEN @ ELSE Nil]
    /\ Goes(r, "play")
    /\ HangsUp(r)
    /\ UNCHANGED <<queue, kind, vol, holdVars, volCache, cfgVars, snapVars, left>>

\* hold_group is only passed for chimes: the answer ends the exchange.
NeverEndsExchange(k) == FALSE                                        \* a slip
EndsExchange(k) == k = "answer"

\* The clip has been pushed and waited out, or the push failed; then `finally`.
PlayEnd(r) ==
    /\ pc[r] = "play"
    /\ \/ /\ live[r] = Nil
          /\ Finish(r)
          /\ UNCHANGED holdVars
       \/ /\ live[r] # Nil /\ ~EndsExchange(kind[r])
          /\ Arm(live[r])
          /\ Finish(r)
       \/ /\ live[r] # Nil /\ EndsExchange(kind[r])
          /\ Disarm
          /\ Goes(r, "restore")
          /\ Calls(r, SetStream(cfgGroup, live[r]))
          /\ UNCHANGED live
    /\ UNCHANGED <<queue, kind, vol, volCache, cfgVars, snapVars, left>>

RestoreDone(r) ==
    /\ pc[r] = "restore" /\ Answered(r)
    /\ Finish(r)
    /\ UNCHANGED <<queue, kind, vol, holdVars, volCache, cfgVars, snapVars, left>>

(* hold_group() and release_group() after each of their awaits.            *)

HoldListed(r) ==
    /\ pc[r] = "holdList" /\ Answered(r)
    /\ \/ /\ net[r] = "ok" /\ reply[r].at = "joined"
          /\ Refreshes(reply[r])
          /\ \/ /\ reply[r].stream # cfgStream
                /\ live' = [live EXCEPT ![r] = reply[r].stream]
                /\ Goes(r, "holdSwitch")
                /\ Calls(r, SetStream(reply[r].id, cfgStream))
             \/ /\ reply[r].stream = cfgStream
                /\ Finish(r)
       \/ /\ ~(net[r] = "ok" /\ reply[r].at = "joined")
          /\ Finish(r)
          /\ UNCHANGED cfgGroup
    /\ UNCHANGED <<queue, kind, vol, holdVars, volCache, cfgStream, enabled, snapVars, left>>

HoldDone(r) ==
    /\ pc[r] = "holdSwitch" /\ Answered(r)
    /\ \/ net[r] = "ok" /\ Arm(live[r])
       \/ net[r] = "err" /\ UNCHANGED holdVars
    /\ Finish(r)
    /\ UNCHANGED <<queue, kind, vol, volCache, cfgVars, snapVars, left>>

ReleaseDone(r) ==
    /\ pc[r] = "release" /\ Answered(r)
    /\ Finish(r)
    /\ UNCHANGED <<queue, kind, vol, holdVars, volCache, cfgVars, snapVars, left>>

-----------------------------------------------------------------------------
(* _sticky_watchdog().                                                     *)

\* STICKY_TIMEOUT has passed; a cancel still wins over a task in this state.
TimerExpires ==
    /\ timer = "sleeping"
    /\ timer' = "due"
    /\ UNCHANGED <<lockVars, reqVars, sticky, volCache, cfgVars, rpcVars, snapVars, left>>

\* "If it is taken the exchange is alive."
NeverAlive == FALSE                                                  \* a slip
ExchangeAlive == Locked

LapsesInstead == timer' = "off"                                      \* a slip
SleepsAgain == timer' = "sleeping"

WatchdogDefers ==
    /\ timer = "due" /\ ExchangeAlive
    /\ SleepsAgain
    /\ UNCHANGED <<lockVars, reqVars, sticky, volCache, cfgVars, rpcVars, snapVars, left>>

\* The restore goes out without the lock.  A previous one has ended by now:
\* reconnecting and calling take at most 2 * RPC_TIMEOUT < STICKY_TIMEOUT.
WatchdogFires ==
    /\ timer = "due" /\ ~ExchangeAlive
    /\ net[Watchdog] = "idle"
    /\ Disarm
    /\ Calls(Watchdog, SetStream(cfgGroup, sticky))
    /\ UNCHANGED <<lockVars, reqVars, volCache, cfgVars, snapVars, left>>

WatchdogDone ==
    /\ Answered(Watchdog)
    /\ HangsUp(Watchdog)
    /\ UNCHANGED <<lockVars, reqVars, holdVars, volCache, cfgVars, snapVars, left>>

-----------------------------------------------------------------------------
(* The administrator: toggling the client, scanning for streams.           *)

Spend(d) ==
    /\ left[d] > 0
    /\ left' = [left EXCEPT ![d] = @ - 1]

Toggle ==
    /\ Spend("toggle")
    /\ enabled' = ~enabled
    /\ UNCHANGED <<lockVars, reqVars, holdVars, volCache, cfgGroup, cfgStream, rpcVars, snapVars>>

ScanStarts ==
    /\ net[Scanner] = "idle"
    /\ Spend("scan")
    /\ Calls(Scanner, ListGroups)
    /\ UNCHANGED <<lockVars, reqVars, holdVars, volCache, cfgVars, snapVars>>

\* The stream named after the client exists, so the scan links it to whatever
\* group the client is in, which may be none.
ScanDone ==
    /\ Answered(Scanner)
    /\ \/ /\ net[Scanner] = "ok" /\ enabled
          /\ cfgGroup' = IF reply[Scanner].at = "joined" THEN reply[Scanner].id ELSE Nil
          /\ cfgStream' = Ann
       \/ /\ net[Scanner] = "err" \/ ~enabled
          /\ UNCHANGED <<cfgGroup, cfgStream>>
    /\ HangsUp(Scanner)
    /\ UNCHANGED <<lockVars, reqVars, holdVars, volCache, enabled, snapVars, left>>

-----------------------------------------------------------------------------
(* Disturbances.                                                           *)

\* The call times out, its answer is an error, or the reconnect fails.  What
\* was written to the socket may still be executed later.
CallFails(p) ==
    /\ net[p] \in {"dial", "sent", "ok"}
    /\ Spend("rpc")
    /\ net' = [net EXCEPT ![p] = "err"]
    /\ wire' = Abandon(wire, {p})
    /\ dialing' = [dialing EXCEPT ![p] = Nil]
    /\ reply' = [reply EXCEPT ![p] = Nil]
    /\ UNCHANGED <<lockVars, reqVars, holdVars, volCache, cfgVars, connected, snapVars>>

\* The read loop ends: everything pending fails with "Connection closed".
LoseConnection ==
    /\ connected' = FALSE
    /\ wire' = <<>>
    /\ net' = [p \in Callers |-> IF net[p] \in {"sent", "ok"} THEN "err" ELSE net[p]]
    /\ reply' = [p \in Callers |-> Nil]
    /\ UNCHANGED dialing

Drop ==
    /\ connected
    /\ Spend("drop")
    /\ LoseConnection
    /\ UNCHANGED <<lockVars, reqVars, holdVars, volCache, cfgVars, snapVars>>

\* Snapserver comes back with fresh group ids, and with or without the client.
SnapserverRestarts ==
    /\ Spend("restart")
    /\ LoseConnection
    /\ \E at \in {"joined", "gone"}, s \in {group.stream} \cup Streams :
          group' = [id |-> group.id + 1, stream |-> s, at |-> at]
    /\ UNCHANGED <<lockVars, reqVars, holdVars, volCache, cfgVars, snapVol>>

ClientJoins ==
    /\ group.at = "gone"
    /\ group' = [group EXCEPT !.at = "joined"]
    /\ UNCHANGED <<lockVars, reqVars, holdVars, volCache, cfgVars, rpcVars, snapVol, left>>

\* In a Snapcast UI someone picks another source, moves the client to another
\* group, or deletes it from a group that others stay in.
UserActs ==
    /\ Spend("user")
    /\ group.at # "gone"
    /\ \/ \E s \in Streams : group' = [group EXCEPT !.stream = s]
       \/ \E s \in Streams : group' = [id |-> group.id + 1, stream |-> s, at |-> "joined"]
       \/ group' = [group EXCEPT !.at = "left"]
    /\ UNCHANGED <<lockVars, reqVars, holdVars, volCache, cfgVars, rpcVars, snapVol>>

UserSetsVolume(v) ==
    /\ Spend("volume")
    /\ snapVol' = v
    /\ UNCHANGED <<lockVars, reqVars, holdVars, volCache, cfgVars, rpcVars, group>>

\* The add-on dies and starts again.  state.json survives; the locks, the hold,
\* its timer and the volume cache do not, and run_watchdog() only reads.  What
\* was on the wire may or may not have reached snapserver.
Crash ==
    /\ Spend("crash")
    /\ owner' = Nil /\ queue' = <<>>
    /\ pc' = [r \in Requests |-> IF pc[r] \in Critical \cup {"queued"} THEN "aborted" ELSE pc[r]]
    /\ live' = [r \in Requests |-> Nil]
    /\ Disarm
    /\ volCache' = Nil
    /\ connected' \in BOOLEAN
    /\ net' = [p \in Callers |-> "idle"]
    /\ dialing' = [p \in Callers |-> Nil]
    /\ reply' = [p \in Callers |-> Nil]
    /\ wire' \in {<<>>, Abandon(wire, Callers)}
    /\ UNCHANGED <<kind, vol, cfgVars, snapVars>>

-----------------------------------------------------------------------------
Init ==
    /\ owner = Nil /\ queue = <<>>
    /\ pc = [r \in Requests |-> "new"]
    /\ kind = [r \in Requests |-> Nil]
    /\ vol = [r \in Requests |-> Nil]
    /\ live = [r \in Requests |-> Nil]
    /\ sticky = Nil /\ timer = "off"
    /\ volCache = Nil
    /\ \E s \in Streams : group = [id |-> 1, stream |-> s, at |-> "joined"]
    /\ snapVol = Nil
    /\ \/ cfgGroup \in {0, 1} /\ cfgStream = Ann     \* 0: snapserver has restarted since
       \/ cfgGroup = Nil /\ cfgStream = Nil
    /\ enabled = TRUE
    /\ connected = TRUE
    /\ net = [p \in Callers |-> "idle"]
    /\ dialing = [p \in Callers |-> Nil]
    /\ reply = [p \in Callers |-> Nil]
    /\ wire = <<>>
    /\ left = Budget

\* A request's own next step once it has been let in.
Step(r) ==
    \/ VolumeDone(r) \/ Listed(r) \/ SwitchDone(r) \/ PlayEnd(r) \/ RestoreDone(r)
    \/ HoldListed(r) \/ HoldDone(r) \/ ReleaseDone(r)

Timer == TimerExpires \/ WatchdogDefers \/ WatchdogFires \/ WatchdogDone

Disturb ==
    \/ Toggle \/ ScanStarts
    \/ \E p \in Callers : CallFails(p)
    \/ Drop \/ SnapserverRestarts \/ Crash
    \/ UserActs
    \/ \E v \in Volumes : UserSetsVolume(v)

\* Everything is done and nothing is due: the zone waits for its next exchange.
Rest ==
    /\ \A r \in Requests : pc[r] \in {"done", "aborted"}
    /\ timer = "off" /\ wire = <<>> /\ \A p \in Callers : net[p] = "idle"
    /\ UNCHANGED vars

Next ==
    \/ \E r \in Requests, k \in Kinds, v \in Volumes \cup {Nil} : Arrive(r, k, v)
    \/ Grant
    \/ \E r \in Requests : Step(r)
    \/ Timer
    \/ \E p \in Callers : Dial(p)
    \/ Serve
    \/ ScanDone
    \/ ClientJoins
    \/ Disturb
    \/ Rest

Spec == Init /\ [][Next]_vars

\* Nothing obliges a request to arrive or a disturbance to strike; whatever has
\* been started is carried on: the event loop runs every ready task, a timer
\* expires, snapserver answers, a clip ends.
Fairness ==
    /\ WF_vars(Grant)
    /\ \A r \in Requests : WF_vars(Step(r))
    /\ WF_vars(TimerExpires) /\ WF_vars(WatchdogDefers)
    /\ WF_vars(WatchdogFires) /\ WF_vars(WatchdogDone)
    /\ \A p \in Callers : WF_vars(Dial(p))
    /\ WF_vars(Serve)
    /\ WF_vars(ScanDone)

FairSpec == Spec /\ Fairness
=============================================================================
