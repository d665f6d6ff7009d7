--------------------------- MODULE PlaybackProofs ---------------------------
(***************************************************************************)
(* Proofs about module Playback: for clips of any length, sources of any   *)
(* speed and any values of the buffer, the silence and the drain that fit  *)
(* each other, announce() does not cut off what it has pushed.             *)
(***************************************************************************)
EXTENDS Playback, TLAPS

\* The time it takes to play what has been pushed, silence and gaps included.
Span == lead + pushed + starved

\* While a source may still give something, the pipe is ahead of the clock by what it
\* holds; afterwards the clock runs on while the tail leaves the speakers.
OnTime ==
    /\ pc = "detect" => pipe = 0 /\ quiet = Tail
    /\ pc = "push" /\ pushed < len => elapsed + pipe <= Span
    /\ pc \in {"push", "probe", "wait", "home"} =>
          /\ pipe > 0 => elapsed + pipe <= Span
          /\ pipe = 0 => elapsed <= Span + quiet \/ quiet = Tail

\* Raw PCM that has yet to come brings its silence along.
SilenceInv ==
    pc = "push" /\ fmt = "pcm_wav" /\ pushed = 0 /\ pushed < len => elapsed + pipe <= starved

WaitInv ==
    /\ pc = "wait" => until >= pushed + Drain /\ elapsed <= until
    /\ pc = "home" => elapsed >= pushed + Drain

TimingInv == ~unsure => OnTime /\ SilenceInv /\ WaitInv

FormatInv ==
    changes = 0 =>
      /\ \A h \in Hosts : cache[h] \in {serves[h], "other", None}
                          /\ warming[h] \in {serves[h], "other", None}
      /\ pc # "idle" => enc = serves[host]
      /\ pc = "push" => fmt \in {enc, "other"}

PlaybackInv == TypeOK /\ TimingInv /\ FormatInv

\* Numbers only, for steps that are arithmetic.
NumbersOK ==
    /\ len \in Nat /\ pushed \in Nat /\ pushed <= len /\ elapsed \in Nat /\ until \in Nat
    /\ pipe \in Nat /\ quiet \in Nat /\ quiet <= Tail /\ starved \in Nat /\ lead \in Nat
    /\ Tail \in Nat /\ Drain \in Nat /\ MaxWait \in Nat /\ MaxElapsed \in Nat

LEMMA Numbers == TypeOK => NumbersOK
  BY PlaybackAssumption DEF TypeOK, NumbersOK

-----------------------------------------------------------------------------

LEMMA InitLemma == Init => PlaybackInv
<1> SUFFICES ASSUME Init PROVE PlaybackInv
  OBVIOUS
<1>1. TypeOK
  <2>1. Tail \in Nat /\ len \in Nat
    BY PlaybackAssumption DEF Init
  <2>2. pushed \in 0 .. len /\ quiet \in 0 .. Tail
    BY <2>1 DEF Init
  <2>3. /\ cache \in [Hosts -> Formats \cup {None}] /\ warming \in [Hosts -> Formats \cup {None}]
        /\ serves \in [Hosts -> Formats]
    BY DEF Init
  <2>4. QED BY <2>2, <2>3 DEF Init, TypeOK, Formats
<1>2. TimingInv
  BY <1>1, Numbers DEF Init, TimingInv, OnTime, SilenceInv, WaitInv, NumbersOK
<1>3. FormatInv
  BY DEF Init, FormatInv
<1>4. QED BY <1>1, <1>2, <1>3 DEF PlaybackInv

LEMMA TypeLemma == TypeOK /\ [Next]_vars => TypeOK'
<1> SUFFICES ASSUME TypeOK, [Next]_vars PROVE TypeOK'
  OBVIOUS
<1>n. NumbersOK
  BY Numbers
<1>1. ASSUME NEW h \in Hosts, Begin(h) PROVE TypeOK'
  <2>1. host' \in Hosts /\ lead' \in Leads /\ len' \in Lengths /\ enc' \in Formats
    BY <1>1 DEF Begin, TypeOK
  <2>2. /\ pc' \in {"detect", "push"} /\ fmt' \in Formats /\ elapsed' \in Nat
        /\ pipe' \in Nat
    BY <1>1, <1>n, PlaybackAssumption DEF Begin, TypeOK, StartsPush, NumbersOK
  <2>3. pushed' \in 0 .. len'
    BY <1>1, <2>1, PlaybackAssumption DEF Begin, NothingWritten
  <2>4. /\ until' \in Nat /\ starved' \in Nat /\ quiet' = quiet /\ unsure' \in BOOLEAN
        /\ clips' \in Nat /\ UNCHANGED <<cacheVars, changes>>
    BY <1>1 DEF Begin, TypeOK
  <2>5. QED BY <2>1, <2>2, <2>3, <2>4 DEF TypeOK, cacheVars
<1>2. CASE Detected
  <2>1. PICK f \in Detects(enc) : cache' = [cache EXCEPT ![host] = f] /\ StartsPush(f, lead)
    BY <1>2 DEF Detected
  <2>2. f \in Formats
    BY <2>1 DEF Detects, TypeOK, Formats
  <2>3. UNCHANGED <<clipVars, pushed, until, quiet, starved, unsure, warming, serves, clips, changes>>
    BY <1>2 DEF Detected
  <2>4. pc' = "push" /\ fmt' \in Formats /\ elapsed' \in Nat /\ pipe' \in Nat
    BY <1>n, <2>1, <2>2 DEF StartsPush, NumbersOK
  <2>5. cache' \in [Hosts -> Formats \cup {None}]
    BY <2>1, <2>2 DEF TypeOK
  <2>6. QED BY <2>3, <2>4, <2>5 DEF TypeOK, clipVars
<1>3. CASE Pushes
  <2>1. UNCHANGED <<pc, clipVars, fmt, elapsed, until, quiet, starved, unsure, cacheVars, clips, changes>>
    BY <1>3 DEF Pushes
  <2>2. pushed' \in 0 .. len /\ pipe' \in Nat
    BY <1>3, <1>n DEF Pushes, Silent, NumbersOK
  <2>3. QED BY <2>1, <2>2 DEF TypeOK, clipVars, cacheVars
<1>4. ASSUME NEW audio \in Nat, Waits(audio), Sleeps(audio) PROVE TypeOK'
  <2>1. UNCHANGED <<clipVars, fmt, pushed, elapsed, roomVars, cacheVars, clips, changes>>
    BY <1>4 DEF Waits
  <2>2. until' \in Nat
    BY <1>4, <1>n DEF Sleeps, Least, NumbersOK
  <2>3. pc' = "wait" /\ unsure' \in BOOLEAN
    BY <1>4 DEF Waits, TypeOK
  <2>4. QED BY <2>1, <2>2, <2>3 DEF TypeOK, clipVars, roomVars, cacheVars
<1>5. CASE FfmpegEnds
  BY <1>n, <1>4, <1>5 DEF FfmpegEnds, NumbersOK
<1>6. CASE Probed
  BY <1>n, <1>4, <1>6 DEF Probed, NumbersOK
<1>7. CASE StreamEnds \/ Returns \/ PushFails
  BY <1>7 DEF StreamEnds, Returns, PushFails, Leaves, TypeOK, clipVars, roomVars, cacheVars
<1>8. CASE Tick
  <2>1. UNCHANGED <<pc, clipVars, fmt, pushed, until, unsure, cacheVars, clips, changes>>
    BY <1>8 DEF Tick
  <2>2. elapsed' \in Nat /\ starved' \in Nat
    BY <1>8, <1>n DEF Tick, NumbersOK
  <2>3. pipe' \in Nat /\ quiet' \in 0 .. Tail
    BY <1>8, <1>n DEF Tick, Least, NumbersOK
  <2>4. QED BY <2>1, <2>2, <2>3 DEF TypeOK, clipVars, cacheVars
<1>9. ASSUME NEW h \in Hosts, WarmStarts(h) PROVE TypeOK'
  <2>1. warming' \in [Hosts -> Formats \cup {None}]
    BY <1>9 DEF WarmStarts, Detects, TypeOK, Formats
  <2>2. QED BY <1>9, <2>1 DEF WarmStarts, Untouched, TypeOK, clipVars, roomVars
<1>10. ASSUME NEW h \in Hosts, WarmEnds(h) PROVE TypeOK'
  <2>1. cache' \in [Hosts -> Formats \cup {None}] /\ warming' \in [Hosts -> Formats \cup {None}]
    BY <1>10 DEF WarmEnds, TypeOK
  <2>2. QED BY <1>10, <2>1 DEF WarmEnds, Untouched, TypeOK, clipVars, roomVars
<1>11. ASSUME NEW h \in Hosts, Changes(h) PROVE TypeOK'
  <2>1. serves' \in [Hosts -> Formats] /\ changes' \in Nat
    BY <1>11 DEF Changes, TypeOK
  <2>2. QED BY <1>11, <2>1 DEF Changes, Untouched, TypeOK, clipVars, roomVars
<1>12. CASE UNCHANGED vars
  BY <1>12 DEF vars, TypeOK, clipVars, roomVars, cacheVars
<1>13. QED
  BY <1>1, <1>2, <1>3, <1>5, <1>6, <1>7, <1>8, <1>9, <1>10, <1>11, <1>12 DEF Next

\* The clock and the pipe.
LEMMA TimingLemma == TypeOK /\ TimingInv /\ [Next]_vars => TimingInv'
<1> SUFFICES ASSUME TypeOK, TimingInv, [Next]_vars, ~unsure'
             PROVE  OnTime' /\ SilenceInv' /\ WaitInv'
  BY DEF TimingInv
<1>n. NumbersOK
  BY Numbers
<1>m. TypeOK'
  BY TypeLemma
<1>t. /\ len' \in Nat /\ pushed' \in Nat /\ pushed' <= len' /\ elapsed' \in Nat /\ until' \in Nat
      /\ pipe' \in Nat /\ quiet' \in Nat /\ quiet' <= Tail /\ starved' \in Nat /\ lead' \in Nat
  BY <1>m, PlaybackAssumption DEF TypeOK
<1> USE DEF OnTime, SilenceInv, WaitInv, Span, NumbersOK
<1>1. ASSUME NEW h \in Hosts, Begin(h) PROVE OnTime' /\ SilenceInv' /\ WaitInv'
  <2>1. ~(pipe > 0 \/ quiet < Tail)
    BY <1>1 DEF Begin
  <2>2. pushed' = 0 /\ starved' = 0 /\ quiet' = Tail /\ pipe = 0
    BY <1>1, <1>n, <2>1 DEF Begin, NothingWritten
  <2>3. CASE pc' = "detect" /\ pipe' = pipe
    BY <1>n, <1>t, <2>2, <2>3
  <2>4. ASSUME NEW f, StartsPush(f, lead') PROVE OnTime' /\ SilenceInv' /\ WaitInv'
    <3>1. PICK n \in Nat, m \in Nat : lead' = n /\ len' = m
      BY <1>t
    <3>2. pc' = "push" /\ elapsed' = 0 /\ fmt' = f
      BY <2>4 DEF StartsPush
    <3>3. CASE f = "other"
      <4>1. pipe' = pipe + n
        BY <2>4, <3>1, <3>3 DEF StartsPush
      <4>2. pipe' = n
        BY <2>2, <4>1
      <4>3. QED BY <1>n, <2>2, <3>1, <3>2, <3>3, <4>2
    <3>4. CASE f # "other"
      <4>1. pipe' = 0
        BY <2>2, <2>4, <3>4 DEF StartsPush
      <4>2. QED BY <1>n, <2>2, <3>1, <3>2, <4>1
    <3>5. QED BY <3>3, <3>4
  <2>5. QED BY <1>1, <2>3, <2>4 DEF Begin
<1>a. CASE ~unsure /\ OnTime /\ SilenceInv /\ WaitInv
  <2>2. CASE Detected
    <3>1. pipe = 0 /\ quiet = Tail /\ pc' = "push" /\ elapsed' = 0
      BY <1>a, <2>2 DEF Detected, StartsPush
    <3>2. UNCHANGED <<lead, len, pushed, quiet, starved>>
      BY <2>2 DEF Detected, clipVars
    <3>3. CASE fmt' = "other"
      <4>1. pipe' = pipe + lead
        BY <2>2, <3>3 DEF Detected, StartsPush
      <4>2. pipe' = lead
        BY <1>n, <3>1, <4>1
      <4>3. QED BY <1>n, <3>1, <3>2, <3>3, <4>2
    <3>4. CASE fmt' # "other"
      <4>1. pipe' = 0
        BY <2>2, <3>1, <3>4 DEF Detected, StartsPush
      <4>2. QED BY <1>n, <3>1, <3>2, <4>1
    <3>5. QED BY <3>3, <3>4
  <2>3. CASE Pushes
    <3>1. /\ pc = "push" /\ pushed < len /\ pushed' = pushed + 1
          /\ UNCHANGED <<pc, lead, len, fmt, elapsed, until, quiet, starved>>
      BY <2>3 DEF Pushes, clipVars
    <3>2. CASE fmt = "pcm_wav" /\ pushed = 0
      <4>1. pipe' = pipe + lead + 1
        BY <2>3, <3>2 DEF Pushes, Silent
      <4>2. QED BY <1>a, <1>n, <1>t, <3>1, <3>2, <4>1
    <3>3. CASE ~(fmt = "pcm_wav" /\ pushed = 0)
      <4>1. pipe' = pipe + 1
        BY <1>n, <2>3, <3>3 DEF Pushes, Silent
      <4>2. QED BY <1>a, <1>n, <1>t, <3>1, <4>1
    <3>4. QED BY <3>2, <3>3
  <2>4. ASSUME NEW audio \in Nat, pc \in {"push", "probe"}, Waits(audio), Sleeps(audio)
        PROVE  OnTime' /\ SilenceInv' /\ WaitInv'
    <3>1. pc' = "wait" /\ UNCHANGED <<lead, len, pushed, elapsed, pipe, quiet, starved>>
      BY <2>4 DEF Waits, clipVars, roomVars
    <3>2. ~(audio # pushed \/ audio > elapsed + MaxWait)
      BY <2>4 DEF Waits
    <3>3. until' = elapsed + Drain
                   + (IF audio > elapsed THEN IF audio - elapsed < MaxWait THEN audio - elapsed
                                              ELSE MaxWait
                      ELSE 0)
      BY <2>4 DEF Sleeps, Least
    <3>4. until' >= pushed + Drain /\ elapsed <= until'
      BY <1>n, <3>2, <3>3
    <3>5. QED BY <1>a, <1>n, <1>t, <2>4, <3>1, <3>4
  <2>5. CASE FfmpegEnds
    BY <1>n, <2>4, <2>5 DEF FfmpegEnds
  <2>6. CASE Probed
    BY <1>n, <2>4, <2>6 DEF Probed
  <2>7. CASE StreamEnds \/ Returns \/ PushFails
    <3>1. UNCHANGED <<lead, len, fmt, pushed, elapsed, until, pipe, quiet, starved>>
      BY <2>7 DEF StreamEnds, Returns, PushFails, Leaves, clipVars, roomVars
    <3>2. \/ pc = "push" /\ pc' \in {"probe", "failed"}
          \/ pc = "wait" /\ elapsed = until /\ pc' = "home"
      BY <2>7 DEF StreamEnds, Returns, PushFails, Leaves
    <3>3. QED BY <1>a, <1>n, <1>t, <3>1, <3>2
  <2>8. CASE Tick
    <3>1. UNCHANGED <<pc, lead, len, fmt, pushed, until>>
      BY <2>8 DEF Tick, clipVars
    <3>2. /\ pc = "detect" => elapsed' = elapsed /\ pipe' = pipe /\ quiet' = quiet
          /\ pc = "home" => elapsed' = elapsed
          /\ pc \in {"push", "probe", "wait"} => elapsed' = elapsed + 1
          /\ pc = "wait" => elapsed < until
      BY <1>a, <1>n, <2>8 DEF Tick, MayPass
    <3>3. WaitInv'
      BY <1>a, <1>n, <3>1, <3>2
    <3>4. CASE pipe > 0
      <4>1. pipe' = pipe - 1 /\ quiet' = 0 /\ starved' = starved
        BY <1>n, <2>8, <3>4 DEF Tick
      <4>2. QED BY <1>a, <1>n, <3>1, <3>2, <3>3, <3>4, <4>1
    <3>5. CASE pipe = 0
      <4>1. PICK n \in Nat, q \in Nat :
               /\ starved' = starved + n /\ quiet' = q /\ pipe' = 0
               /\ q = Tail \/ (q = quiet + 1 /\ quiet < Tail)
               /\ pc = "push" /\ pushed < len => n = 1
        <5>1. quiet' = Tail \/ (quiet' = quiet + 1 /\ quiet < Tail)
          BY <1>n, <2>8, <3>5 DEF Tick, Least
        <5>2. /\ starved' = starved + 0 \/ starved' = starved + 1
              /\ pc = "push" /\ pushed < len => starved' = starved + 1
          BY <1>n, <2>8, <3>5 DEF Tick
        <5>3. Tail \in Nat /\ quiet + 1 \in Nat /\ pipe' = 0
          BY <1>n, <2>8, <3>5 DEF Tick
        <5>4. PICK n \in {0, 1} : starved' = starved + n /\ (pc = "push" /\ pushed < len => n = 1)
          BY <5>2
        <5>5. n \in Nat
          OBVIOUS
        <5>6. QED BY <5>1, <5>3, <5>4, <5>5
      <4>2. CASE pc = "detect"
        BY <1>a, <1>n, <3>1, <3>2, <3>3, <3>5, <4>1, <4>2
      <4>3. CASE pc \in {"push", "probe", "wait"}
        BY <1>a, <1>n, <3>1, <3>2, <3>3, <3>5, <4>1, <4>3
      <4>4. CASE pc \notin {"detect", "push", "probe", "wait"}
        BY <1>a, <1>n, <3>1, <3>2, <3>3, <3>5, <4>1, <4>4
      <4>5. QED BY <4>2, <4>3, <4>4
    <3>6. QED BY <1>n, <3>4, <3>5
  <2>9. CASE UNCHANGED <<pc, lead, len, fmt, pushed, elapsed, until, roomVars>>
    BY <1>a, <2>9 DEF roomVars
  <2>10. ASSUME NEW h \in Hosts, WarmStarts(h) \/ WarmEnds(h) \/ Changes(h)
         PROVE  OnTime' /\ SilenceInv' /\ WaitInv'
    BY <2>9, <2>10 DEF WarmStarts, WarmEnds, Changes, Untouched, clipVars
  <2>11. CASE UNCHANGED vars
    BY <2>9, <2>11 DEF vars, clipVars
  <2>12. QED
    BY <1>1, <2>2, <2>3, <2>5, <2>6, <2>7, <2>8, <2>10, <2>11 DEF Next
<1>b. CASE unsure
  <2>1. ~(\E h \in Hosts : Begin(h)) => unsure' = unsure \/ unsure' = TRUE
    BY <1>b DEF Next, Detected, Pushes, FfmpegEnds, StreamEnds, Probed, Returns, PushFails, Tick,
           Waits, Leaves, WarmStarts, WarmEnds, Changes, Untouched, vars
  <2>2. QED BY <1>1, <1>b, <2>1
<1>c. QED BY <1>a, <1>b DEF TimingInv

\* The cache and the prewarms.
LEMMA FormatLemma == TypeOK /\ FormatInv /\ [Next]_vars => FormatInv'
<1> SUFFICES ASSUME TypeOK, FormatInv, [Next]_vars PROVE FormatInv'
  OBVIOUS
<1> USE DEF FormatInv
<1>1. ASSUME NEW h \in Hosts, Begin(h) PROVE FormatInv'
  <2>1. UNCHANGED <<cacheVars, changes>> /\ host' = h /\ enc' = serves[h]
    BY <1>1 DEF Begin
  <2>2. pc' = "push" => fmt' = cache[h] /\ cache[h] # None
    BY <1>1 DEF Begin, StartsPush
  <2>3. QED BY <2>1, <2>2 DEF cacheVars
<1>2. CASE Detected
  <2>1. PICK f \in Detects(enc) : cache' = [cache EXCEPT ![host] = f] /\ fmt' = f
    BY <1>2 DEF Detected, StartsPush
  <2>2. UNCHANGED <<clipVars, warming, serves, changes>> /\ pc = "detect"
    BY <1>2 DEF Detected
  <2>3. \A h \in Hosts : cache'[h] = IF h = host THEN f ELSE cache[h]
    BY <2>1 DEF TypeOK
  <2>4. QED BY <2>1, <2>2, <2>3 DEF Detects, clipVars
<1>3. CASE UNCHANGED <<clipVars, cacheVars, changes>> /\ (pc' = "push" => pc = "push" /\ fmt' = fmt)
           /\ (pc = "idle" => pc' = "idle")
  BY <1>3 DEF clipVars, cacheVars
<1>4. CASE Pushes \/ StreamEnds \/ Returns \/ PushFails \/ Tick
  BY <1>3, <1>4 DEF Pushes, StreamEnds, Returns, PushFails, Tick, Leaves
<1>5. CASE FfmpegEnds \/ Probed
  BY <1>3, <1>5 DEF FfmpegEnds, Probed, Waits
<1>6. ASSUME NEW h \in Hosts, WarmStarts(h) PROVE FormatInv'
  <2>1. PICK f \in Detects(serves[h]) : warming' = [warming EXCEPT ![h] = f]
    BY <1>6 DEF WarmStarts
  <2>2. \A k \in Hosts : warming'[k] = IF k = h THEN f ELSE warming[k]
    BY <2>1 DEF TypeOK
  <2>3. QED BY <1>6, <2>1, <2>2 DEF WarmStarts, Untouched, Detects, clipVars
<1>7. ASSUME NEW h \in Hosts, WarmEnds(h) PROVE FormatInv'
  <2>1. \A k \in Hosts : /\ cache'[k] = IF k = h THEN warming[h] ELSE cache[k]
                         /\ warming'[k] = IF k = h THEN None ELSE warming[k]
    BY <1>7 DEF WarmEnds, TypeOK
  <2>2. QED BY <1>7, <2>1 DEF WarmEnds, Untouched, clipVars
<1>8. ASSUME NEW h \in Hosts, Changes(h) PROVE FormatInv'
  BY <1>8 DEF Changes, TypeOK
<1>9. CASE UNCHANGED vars
  BY <1>3, <1>9 DEF vars
<1>10. QED
  BY <1>1, <1>2, <1>4, <1>5, <1>6, <1>7, <1>8, <1>9 DEF Next

LEMMA PlaybackInvariance == Spec => []PlaybackInv
<1>1. PlaybackInv /\ [Next]_vars => PlaybackInv'
  BY TypeLemma, TimingLemma, FormatLemma DEF PlaybackInv
<1>2. QED BY <1>1, InitLemma, PTL DEF Spec

-----------------------------------------------------------------------------

\* Amounts are natural numbers, and no more is pushed than there is.
THEOREM PlaybackTyping == Spec => []TypeOK
<1>1. PlaybackInv => TypeOK
  BY DEF PlaybackInv
<1>2. QED BY <1>1, PlaybackInvariance, PTL

\* announce() gives the group back when the room has heard everything, unless the
\* source was slower than the slack of the drain.
THEOREM NothingIsCut == Spec => []NothingCut
<1>1. PlaybackInv => NothingCut
  BY Numbers DEF PlaybackInv, TimingInv, OnTime, WaitInv, Span, NumbersOK, NothingCut, RoomIsQuiet
<1>2. QED BY <1>1, PlaybackInvariance, PTL

\* Only PCM is pushed raw, whatever overlaps.
THEOREM RawIsPcm == Spec => []RawMeansPcm
<1>1. PlaybackInv => RawMeansPcm
  BY DEF PlaybackInv, FormatInv, RawMeansPcm
<1>2. QED BY <1>1, PlaybackInvariance, PTL
=============================================================================
