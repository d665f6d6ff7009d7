--------------------------- MODULE ZoneProperties ---------------------------
(***************************************************************************)
(* What module Zone has to guarantee.  The first part holds whatever       *)
(* happens to the connection, the process and the snapserver; the second   *)
(* part is about exchanges that run without such disturbances.             *)
(***************************************************************************)
EXTENDS Zone

-----------------------------------------------------------------------------
(* Whatever happens.                                                       *)

\* The per-client lock serialises the zone (streamer.py:535, "two answers
\* should not overlap"): at most one request is between acquiring and giving
\* back, that request is the recorded owner, and the waiters are exactly the
\* queued requests, each once.
Serialised ==
    /\ \A r \in Requests : pc[r] \in Critical <=> owner = r
    /\ \A r \in Requests : pc[r] = "queued" <=> \E i \in DOMAIN queue : queue[i] = r
    /\ \A i, j \in DOMAIN queue : queue[i] = queue[j] => i = j

\* "The watchdog is not optional" (streamer.py:268): there is never a hold
\* without a timer that will end it, nor a timer left over from an ended hold
\* that could end the next one early.
HoldHasTimer == sticky # Nil <=> timer # "off"

\* No hold, no announcement in progress and no caller's restore ever names the
\* announcement stream itself as the stream to go back to -- the case that
\* streamer.py:471-475 calls stranding the group.
NeverHomesToAnn ==
    /\ sticky # Ann
    /\ \A r \in Requests : live[r] # Ann
    /\ \A i \in DOMAIN wire :
          wire[i].msg.op = "stream" /\ wire[i].msg.arg = Ann /\ wire[i].from # Nil =>
            /\ wire[i].from \in Requests
            /\ pc[wire[i].from] \in {"switch", "holdSwitch"}

\* Every request that starts waiting for the lock leaves the add-on again,
\* served or aborted by a crash: no path out of announce(), hold_group() or
\* release_group() keeps the lock.
EveryRequestEnds ==
    \A r \in Requests : pc[r] = "queued" ~> pc[r] \in {"done", "aborted"}

\* Every hold ends: by an answer, a release or its timer, whatever fails.
EveryHoldEnds == sticky # Nil ~> sticky = Nil

-----------------------------------------------------------------------------
(* The inductive invariant behind the first three.                         *)

\* Where a request waits for a call.
Calling == {"volume", "list", "switch", "restore", "holdList", "holdSwitch", "release"}

\* Where a caller stands: the scan only lists, the watchdog only restores.
At(p) == IF p \in Requests THEN pc[p] ELSE IF p = Scanner THEN "list" ELSE "restore"
Listing == {"list", "holdList"}
Ducking == {"switch", "holdSwitch"}

\* m can be the call that a caller standing there is waiting for.
Fits(at, m) ==
    /\ at \in Listing => m.op = "list"
    /\ m.op = "stream" /\ m.arg = Ann => at \in Ducking

RpcInv ==
    /\ \A r \in Requests : pc[r] \in Calling <=> net[r] # "idle"
    /\ \A p \in Callers : net[p] = "dial" => dialing[p] \in Messages /\ Fits(At(p), dialing[p])
    /\ \A i \in DOMAIN wire : wire[i].from # Nil =>
          net[wire[i].from] = "sent" /\ Fits(At(wire[i].from), wire[i].msg)
    /\ \A i, j \in DOMAIN wire : wire[i].from # Nil /\ wire[i].from = wire[j].from => i = j
    /\ \A p \in Callers : net[p] = "ok" /\ At(p) \in Listing => reply[p] \in Groups

HoldInv ==
    /\ HoldHasTimer
    /\ sticky # Ann
    /\ \A r \in Requests :
          /\ live[r] # Ann
          /\ pc[r] \in {"switch", "holdSwitch", "restore"} => live[r] # Nil
          /\ pc[r] \in {"list", "holdList"} => cfgStream = Ann
          /\ pc[r] = "queued" /\ kind[r] = "hold" => cfgStream = Ann

\* What each kind of step needs to know to preserve the invariants above: every
\* call on the wire belongs to one caller that waits for an answer of its kind,
\* and whoever is about to restore knows where to.
ZoneInv == TypeOK /\ Serialised /\ RpcInv /\ HoldInv

-----------------------------------------------------------------------------
(* While calls are answered, nobody else touches the group and the add-on  *)
(* and the snapserver keep running.                                        *)

\* A switch back to a live stream that has been decided on and is still to be
\* executed by the snapserver.
RestorePending ==
    \/ \E i \in DOMAIN wire : wire[i].msg.op = "stream" /\ wire[i].msg.arg # Ann
    \/ \E p \in Callers : /\ dialing[p] # Nil
                          /\ dialing[p].op = "stream" /\ dialing[p].arg # Ann

\* A zone on its announcement stream "would play no music at all until
\* something else announced" (streamer.py:268-271).  So whenever it is there,
\* somebody still owes it the way back: the hold and its timer, the request
\* that switched it, or a restore that is on its way.
NoStrand ==
    group.stream = Ann =>
        \/ sticky # Nil /\ timer # "off"
        \/ \E r \in Requests : live[r] # Nil /\ pc[r] \in {"switch", "holdSwitch", "play"}
        \/ RestorePending

\* "Never yank the group out from under an announcement that is mid-flight"
\* (streamer.py:284) and do not "make music pump" between the announcements of
\* one exchange (streamer.py:257): the group leaves the announcement stream
\* only when nobody is playing and the hold has been given up.
NoYank ==
    [][group.stream = Ann /\ group'.stream # Ann =>
          sticky = Nil /\ \A r \in Requests : pc[r] # "play"]_vars

\* The answer, or the release that stands in for it, ends the exchange: once it
\* is over the zone is back on a live stream, even if it found the group
\* already switched (streamer.py:471-475, watchdog.py:14-17).
ExchangeEndUnducks ==
    [][\A r \in Requests :
          /\ pc[r] \in {"play", "restore", "release"}
          /\ pc'[r] = "done"
          /\ kind[r] \in {"answer", "release"}
          => group'.stream # Ann]_vars

\* "Volume before the stream switch, so the level is already right when the
\* first chunk lands" (streamer.py:417): when an announcement plays, the
\* snapclient is at the volume it asked for, cached or not.
PlaysAtItsVolume ==
    \A r \in Requests : pc[r] = "play" /\ vol[r] # Nil => snapVol = vol[r]

\* "Bytes sent, add-on reports success, nothing audible" (streamer.py:447): in a
\* linked zone, whoever starts to play is heard, whatever group id was stored.
EveryoneIsHeard ==
    [][\A r \in Requests : pc[r] # "play" /\ pc'[r] = "play" /\ Linked => group.stream = Ann]_vars

\* A ducked zone gets its music back: "the timer that guarantees they cannot
\* stay that way" (streamer.py:254).  It does not hold: a switch that times out may
\* still be executed, and a crash forgets the hold.
Unducks == group.stream = Ann ~> group.stream # Ann

\* Unless a call, the connection or the process has failed, and whatever users
\* do to the group meanwhile.
Untroubled == \A d \in {"rpc", "drop", "crash"} : left[d] = Budget[d]
UnducksUntroubled == group.stream = Ann ~> (Untroubled => group.stream # Ann)

-----------------------------------------------------------------------------
(* The inductive invariant behind NoStrand, NoYank and ExchangeEndUnducks, *)
(* from any state of rest on, for as long as no step is a disturbance      *)
(* other than a toggle, a scan or a slider.                                *)

Calmly == \A d \in {"rpc", "drop", "crash", "restart", "user"} : left'[d] = left[d]

\* Nor does anybody else set the volume.
Alone == Calmly /\ left'["volume"] = left["volume"]

\* The zone is at rest: nothing is under way, snapserver can be reached and has
\* the snapclient in a group, which plays music or is held.
AtRest ==
    /\ connected /\ wire = <<>>
    /\ \A p \in Callers : net[p] = "idle" /\ dialing[p] = Nil
    /\ \A r \in Requests : pc[r] \in {"new", "done", "aborted"} /\ live[r] = Nil
    /\ group.at = "joined"
    /\ \/ sticky = Nil /\ group.stream # Ann
       \/ sticky # Nil /\ group.stream = Ann /\ cfgStream = Ann /\ cfgGroup = group.id

\* The zone is linked, and to this group, if it has been switched or held.
Ducked == sticky # Nil \/ \E r \in Requests : live[r] # Nil
LinkedToDuck == Ducked => cfgStream = Ann /\ cfgGroup = group.id

\* Every call is sent at once and answered.
Answering ==
    /\ connected
    /\ \A p \in Callers :
          /\ net[p] \in {"idle", "sent", "ok"}
          /\ dialing[p] = Nil
          /\ net[p] = "ok" /\ At(p) \in Listing =>
                reply[p].id = group.id /\ reply[p].at = "joined"

\* m is the call that a caller standing there is waiting for.
Says(at, m) ==
    /\ at \in Ducking => m.op = "stream" /\ m.arg = Ann
    /\ at \in {"restore", "release"} => m.op = "stream" /\ m.arg # Ann
    /\ at = "volume" <=> m.op = "volume"

WireInv ==
    \A i \in DOMAIN wire :
        /\ wire[i].from # Nil
        /\ wire[i].msg.op = "stream" =>
              wire[i].msg.gid = group.id /\ cfgGroup = group.id /\ cfgStream = Ann
        /\ Says(At(wire[i].from), wire[i].msg)

\* The watchdog restores without the lock, but the calls of whoever comes next
\* are behind its own on the wire.
RestoreFirst ==
    \A i \in DOMAIN wire : wire[i].from = Watchdog =>
        /\ sticky = Nil /\ cfgStream = Ann
        /\ \A r \in Requests :
              /\ pc[r] \notin {"switch", "holdSwitch", "play", "restore", "release"}
              /\ pc[r] \in Listing => \E j \in DOMAIN wire : j > i /\ wire[j].from = r

\* What a request knows of the group is true while it holds the lock.
KnowsGroup ==
    \A r \in Requests :
        /\ pc[r] \in Listing /\ net[r] = "ok" => reply[r].stream = group.stream
        /\ pc[r] = "play" /\ live[r] = Nil => group.stream # Ann
        /\ pc[r] \in {"restore", "release"} => sticky = Nil
        /\ pc[r] \in {"restore", "release"} /\ net[r] = "ok" => group.stream # Ann
        /\ pc[r] \in {"volume", "list", "switch", "play", "restore"} => kind[r] \in {"answer", "chime"}

QuietInv ==
    /\ ZoneInv
    /\ group.at = "joined" /\ Answering
    /\ LinkedToDuck /\ NoStrand
    /\ WireInv /\ RestoreFirst /\ KnowsGroup

\* Behind PlaysAtItsVolume, when nobody else sets the volume either.
VolumeInv ==
    /\ \A i \in DOMAIN wire : wire[i].msg.op = "volume" => wire[i].msg.arg = vol[wire[i].from]
    /\ volCache # Nil /\ (\A r \in Requests : pc[r] # "volume") => snapVol = volCache
    /\ \A r \in Requests :
          /\ pc[r] = "volume" => vol[r] # Nil
          /\ pc[r] = "volume" /\ net[r] = "ok" => snapVol = vol[r]
          /\ pc[r] \in {"list", "switch", "play"} /\ vol[r] # Nil => volCache = vol[r]

\* Behind the promise below: whoever owes the group a way back owes it to the
\* stream it was taken from, and there is one such stream at a time.
HomeInv ==
    /\ sticky # Nil => group.stream = Ann
    /\ \A r \in Requests :
          /\ live[r] # Nil => pc[r] \in {"switch", "holdSwitch", "play", "restore"}
          /\ pc[r] \in Ducking => sticky = Nil
          /\ pc[r] \in Ducking /\ net[r] = "sent" => live[r] = group.stream
          /\ pc[r] \in Ducking /\ net[r] = "ok" => group.stream = Ann
          /\ pc[r] = "play" /\ live[r] # Nil => group.stream = Ann /\ sticky \in {Nil, live[r]}
    /\ \A i \in DOMAIN wire : wire[i].msg.op = "stream" /\ wire[i].msg.arg # Ann =>
          /\ group.stream = Ann
          /\ At(wire[i].from) = "restore" =>
                wire[i].from = Watchdog \/ wire[i].msg.arg = live[wire[i].from]

-----------------------------------------------------------------------------
(* The zone implements the promise of module DuckingPromise.                      *)

\* The streams that somebody is going to switch the group back to.
Owed ==
    ({sticky} \cup {live[r] : r \in Requests}
       \cup {IF wire[i].msg.op = "stream" THEN wire[i].msg.arg ELSE Nil : i \in DOMAIN wire})
    \ {Nil, Ann}

Promise == INSTANCE DuckingPromise WITH
    Speakers <- Requests,
    playing <- group.stream,
    home <- IF group.stream # Ann THEN group.stream
            ELSE IF Owed = {} THEN Ann ELSE CHOOSE s \in Owed : TRUE,
    speaking <- {r \in Requests : pc[r] = "play" /\ live[r] # Nil}

\* While nothing fails, the room hears exactly what module DuckingPromise allows: one
\* announcement at a time, only on a ducked zone, and the music that was there
\* before comes back after every exchange, whichever of the answer, a release
\* and the watchdog ends it.
KeepsPromise == Promise!Spec
=============================================================================
