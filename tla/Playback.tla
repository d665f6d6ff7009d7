------------------------------ MODULE Playback ------------------------------
(***************************************************************************)
(* The audio pipeline behind one zone (streamer.py): where the format of a *)
(* clip is taken from, how it is pushed to snapserver, and how long        *)
(* announce() then waits before it gives the group back.  "THE PUSH IS NOT *)
(* THE PLAYBACK" (streamer.py:539): a clip is pushed as fast as its source *)
(* gives it, snapserver plays it in real time.  Time and audio are counted *)
(* in ticks.                                                               *)
(***************************************************************************)
EXTENDS Naturals

CONSTANTS
    Hosts,          \* source_host values; a chime counts as one
    Leads,          \* silence prepended: _SILENCE_PADDING_MS, _CHIME_SILENCE_PADDING_MS
    Tail,           \* snapserver buffer, snapclient latency and DAC
    Drain,          \* _BUFFER_DRAIN
    MaxWait,        \* _MAX_PLAYBACK_WAIT
    None,
    Lengths,        \* lengths of the clips
    MaxClips,       \* bound: clips
    MaxElapsed,     \* bound: time until a clip is pushed and probed
    MaxChanges      \* bound: a host starts to serve another format

ASSUME PlaybackAssumption ==
    /\ {Tail, Drain, MaxWait, MaxClips, MaxElapsed, MaxChanges} \subseteq Nat
    /\ Leads \subseteq Nat /\ Lengths \subseteq Nat
    /\ None \notin {"pcm_wav", "other"}
\* "This value is coupled to snapserver's config" (streamer.py:24).
ASSUME DrainAssumption == \A silence \in Leads : silence + Tail <= Drain

Formats == {"pcm_wav", "other"}

VARIABLES
    pc,         \* where announce() is; "home" and "failed" when the group is back
    host, lead, \* source_host and silence of the present clip
    len, enc,   \* its length and what it is encoded in
    fmt,        \* what announce() takes it for
    pushed,     \* how much of it has been written to the socket
    elapsed,    \* time since t0
    until,      \* when the sleeps of announce() end
    pipe,       \* what snapserver has yet to play
    quiet,      \* time since it has played something, up to Tail
    starved,    \* time snapserver had nothing to play because the source was slow
    unsure,     \* the length is unknown or over the ceiling, or the room was not quiet
    cache,      \* format_cache, per source_host
    warming,    \* per source_host: what a prewarm has found out and not yet stored
    serves,     \* per source_host: the format it serves now
    clips, changes

clipVars == <<host, lead, len, enc>>
roomVars == <<pipe, quiet, starved>>
cacheVars == <<cache, warming, serves>>
vars == <<pc, clipVars, fmt, pushed, elapsed, until, roomVars, unsure, cacheVars, clips, changes>>

\* Amounts are natural numbers, and only so much of a clip is pushed as there is.
TypeOK ==
    /\ pc \in {"idle", "detect", "push", "probe", "wait", "home", "failed"}
    /\ host \in Hosts /\ lead \in Leads /\ len \in Lengths /\ enc \in Formats
    /\ fmt \in Formats
    /\ pushed \in 0 .. len
    /\ elapsed \in Nat /\ until \in Nat
    /\ pipe \in Nat /\ quiet \in 0 .. Tail /\ starved \in Nat
    /\ unsure \in BOOLEAN
    /\ cache \in [Hosts -> Formats \cup {None}]
    /\ warming \in [Hosts -> Formats \cup {None}]
    /\ serves \in [Hosts -> Formats]
    /\ clips \in Nat /\ changes \in Nat

Init ==
    /\ pc = "idle"
    /\ host \in Hosts /\ lead \in Leads /\ len \in Lengths /\ enc = "other"
    /\ fmt = "other" /\ pushed = 0 /\ elapsed = 0 /\ until = 0
    /\ pipe = 0 /\ quiet = Tail /\ starved = 0 /\ unsure = FALSE
    /\ cache = [h \in Hosts |-> None] /\ warming = [h \in Hosts |-> None]
    /\ serves \in [Hosts -> Formats]
    /\ clips = 0 /\ changes = 0

-----------------------------------------------------------------------------
(* The format of a clip.                                                   *)

\* What a HEAD may say of a clip; without an answer it goes through ffmpeg.
DetectsHopefully(format) == {format, "pcm_wav"}                        \* a slip
Detects(format) == {format, "other"}

\* t0, and the silence: through ffmpeg at once, with raw PCM before the first bytes.
StartsPush(f, silence) ==
    /\ pc' = "push" /\ fmt' = f
    /\ elapsed' = 0
    /\ pipe' = IF f = "other" THEN pipe + silence ELSE pipe

KeepsCount == pushed' = pushed                                         \* a slip
NothingWritten == pushed' = 0

\* announce() with the lock: the format is looked up, and asked for if it is new.
Begin(h) ==
    /\ pc \in {"idle", "home", "failed"}
    /\ clips < MaxClips /\ clips' = clips + 1
    /\ host' = h /\ lead' \in Leads /\ len' \in Lengths /\ enc' = serves[h]
    /\ NothingWritten /\ starved' = 0 /\ until' = 0
    /\ unsure' = (pipe > 0 \/ quiet < Tail)
    /\ IF cache[h] = None THEN pc' = "detect" /\ UNCHANGED <<fmt, elapsed, pipe>>
       ELSE StartsPush(cache[h], lead')
    /\ UNCHANGED <<quiet, cacheVars, changes>>

Detected ==
    /\ pc = "detect"
    /\ \E f \in Detects(enc) :
          /\ cache' = [cache EXCEPT ![host] = f]
          /\ StartsPush(f, lead)
    /\ UNCHANGED <<clipVars, pushed, until, quiet, starved, unsure, warming, serves, clips, changes>>

-----------------------------------------------------------------------------
(* The push and the wait.                                                  *)

\* What has been written when the source has given one more tick of audio.
Silent(n) == IF fmt = "pcm_wav" /\ pushed = 0 THEN n ELSE 0

Pushes ==
    /\ pc = "push" /\ pushed < len
    /\ pushed' = pushed + 1
    /\ pipe' = pipe + Silent(lead) + 1
    /\ UNCHANGED <<pc, clipVars, fmt, elapsed, until, quiet, starved, unsure, cacheVars, clips, changes>>

\* The duration is known from what has been pushed, or is probed.
Waits(audio) ==
    /\ pc' = "wait"
    /\ unsure' = (unsure \/ audio # pushed \/ audio > elapsed + MaxWait)
    /\ UNCHANGED <<clipVars, fmt, pushed, elapsed, roomVars, cacheVars, clips, changes>>

Least(a, b) == IF a < b THEN a ELSE b

\* As if the push took no time off the playback, and the drain were slack.
SleepsBriefly(audio) ==                                                \* a slip
    until' = elapsed + IF audio > elapsed THEN Least(audio - elapsed, MaxWait) ELSE 0

\* Both sleeps, the rest of the clip and the drain.
Sleeps(audio) ==
    until' = elapsed + Drain
             + IF audio > elapsed THEN Least(audio - elapsed, MaxWait) ELSE 0

\* _stream_ffmpeg() returns what it has written.
FfmpegEnds ==
    /\ pc = "push" /\ fmt = "other" /\ pushed = len
    /\ Waits(pushed) /\ Sleeps(pushed)

StreamEnds ==
    /\ pc = "push" /\ fmt = "pcm_wav" /\ pushed = len
    /\ pc' = "probe"
    /\ UNCHANGED <<clipVars, fmt, pushed, elapsed, until, roomVars, unsure, cacheVars, clips, changes>>

\* probe_duration() says 0 when it cannot tell.
Probed ==
    /\ pc = "probe"
    /\ \E audio \in {len, 0} : Waits(audio) /\ Sleeps(audio)

Leaves(p) ==
    /\ pc' = p
    /\ UNCHANGED <<clipVars, fmt, pushed, elapsed, until, roomVars, unsure, cacheVars, clips, changes>>

\* The group goes back to its live stream; what has not been heard is lost.
Returns == pc = "wait" /\ elapsed = until /\ Leaves("home")

\* The source or the socket fails; the group goes back at once.
PushFails == pc = "push" /\ Leaves("failed")

-----------------------------------------------------------------------------
(* Time, prewarming and the hosts.                                         *)

\* Sleeps end on time; a source may be slow, within the bound.
MayPass ==
    CASE pc \in {"push", "probe"} -> elapsed < MaxElapsed
      [] pc = "wait" -> elapsed < until
      [] OTHER -> pipe > 0 \/ quiet < Tail

\* Snapserver plays what it has, in real time.
Tick ==
    /\ MayPass
    /\ elapsed' = IF pc \in {"push", "probe", "wait"} THEN elapsed + 1 ELSE elapsed
    /\ IF pipe > 0 THEN pipe' = pipe - 1 /\ quiet' = 0
       ELSE pipe' = 0 /\ quiet' = Least(quiet + 1, Tail)
    /\ starved' = IF pc = "push" /\ pushed < len /\ pipe = 0 THEN starved + 1 ELSE starved
    /\ UNCHANGED <<pc, clipVars, fmt, pushed, until, unsure, cacheVars, clips, changes>>

Untouched == UNCHANGED <<pc, clipVars, fmt, pushed, elapsed, until, roomVars, unsure, clips>>

\* api_prewarm() up to detect_format(), and to its end; a probe lies between them.
WarmStarts(h) ==
    /\ warming[h] = None
    /\ \E f \in Detects(serves[h]) : warming' = [warming EXCEPT ![h] = f]
    /\ Untouched /\ UNCHANGED <<cache, serves, changes>>

WarmEnds(h) ==
    /\ warming[h] # None
    /\ cache' = [cache EXCEPT ![h] = warming[h]]
    /\ warming' = [warming EXCEPT ![h] = None]
    /\ Untouched /\ UNCHANGED <<serves, changes>>

\* Another voice, another engine.
Changes(h) ==
    /\ changes < MaxChanges /\ changes' = changes + 1
    /\ \E f \in Formats : serves' = [serves EXCEPT ![h] = f]
    /\ Untouched /\ UNCHANGED <<cache, warming>>

Next ==
    \/ \E h \in Hosts : Begin(h) \/ WarmStarts(h) \/ WarmEnds(h) \/ Changes(h)
    \/ Detected \/ Pushes \/ FfmpegEnds \/ StreamEnds \/ Probed \/ Returns \/ PushFails
    \/ Tick

Spec == Init /\ [][Next]_vars

-----------------------------------------------------------------------------
(* Properties.                                                             *)

\* The tail of a clip has left the speakers.
RoomIsQuiet == pipe = 0 /\ quiet = Tail

\* The group goes back only when everything has been heard: the last syllable is not
\* cut off (streamer.py:26), whether the clip came fast or slowly, in bursts or raw, if
\* its length is known and under the ceiling and the room was quiet when it began.
\* The time for which snapserver starved must fit into the slack of the drain.
NothingCut ==
    pc = "home" /\ ~unsure /\ lead + starved + Tail <= Drain => RoomIsQuiet

\* "This call returned" means "the room stopped talking" (streamer.py:530-531), however
\* slowly the source gave the clip.  A run shows the contrary.
ReturnedMeansQuiet == pc = "home" /\ ~unsure => RoomIsQuiet

\* Only PCM is pushed raw, anything else would be noise: cached, asked for or put into
\* the cache by a prewarm that overlaps the announcement, the format is that of the
\* clip, unless the host has changed what it serves.
RawMeansPcm == pc = "push" /\ fmt = "pcm_wav" /\ changes = 0 => enc = "pcm_wav"
=============================================================================
