----------------------------- MODULE ZoneProofs -----------------------------
(***************************************************************************)
(* Proofs about module Zone for every value of its constants.  ZoneInv is  *)
(* inductive; it splits into the lock (Serialised), the calls (RpcInv) and *)
(* the hold (HoldInv).  A lemma says what each building block of an action *)
(* does to one of the parts (MovesLemma to the lock, CallsLemma and        *)
(* HangsUpLemma to the calls, HoldStepLemma to the hold); then there is a  *)
(* lemma for each action, and NextLemma collects them.                     *)
(***************************************************************************)
EXTENDS ZoneProperties, TLAPS, SequenceTheorems

\* What a call appended to the wire leaves in place.
LEMMA AppendFacts ==
    ASSUME NEW S, NEW w \in Seq(S), NEW e \in S
    PROVE  /\ Append(w, e) \in Seq(S)
           /\ DOMAIN Append(w, e) = 1 .. Len(w) + 1
           /\ DOMAIN w = 1 .. Len(w)
           /\ Len(w) \in Nat
           /\ \A i \in DOMAIN w : Append(w, e)[i] = w[i]
           /\ Append(w, e)[Len(w) + 1] = e
  OBVIOUS

\* What serving the first call, or waking the first waiter, leaves in place.
LEMMA TailFacts ==
    ASSUME NEW S, NEW w \in Seq(S), w # <<>>
    PROVE  /\ Head(w) \in S
           /\ 1 \in DOMAIN w /\ Head(w) = w[1]
           /\ Tail(w) \in Seq(S)
           /\ \A i \in DOMAIN Tail(w) :
                 i + 1 \in DOMAIN w /\ Tail(w)[i] = w[i + 1] /\ i \in Nat /\ i >= 1
  BY HeadTailProperties, LenProperties

Entries == [from : Callers \cup {Nil}, msg : Messages]

\* A failed call loses its caller, never its message or its place on the wire.
LEMMA AbandonFacts ==
    ASSUME NEW w \in Seq(Entries), NEW ps \in SUBSET Callers
    PROVE  /\ Abandon(w, ps) \in Seq(Entries)
           /\ DOMAIN Abandon(w, ps) = DOMAIN w
           /\ \A i \in DOMAIN w :
                 /\ Abandon(w, ps)[i].msg = w[i].msg
                 /\ Abandon(w, ps)[i].from = IF w[i].from \in ps THEN Nil ELSE w[i].from
  <1> DEFINE E(i) == [from |-> IF w[i].from \in ps THEN Nil ELSE w[i].from, msg |-> w[i].msg]
  <1>1. Len(w) \in Nat /\ DOMAIN w = 1 .. Len(w)
    BY LenProperties
  <1>2. \A i \in DOMAIN w : w[i] \in Entries
    BY <1>1, ElementOfSeq
  <1>3. \A i \in DOMAIN w : E(i) \in Entries
    BY <1>2 DEF Entries
  <1>4. Abandon(w, ps) \in [1 .. Len(w) -> Entries]
    BY <1>1, <1>3 DEF Abandon
  <1>5. Abandon(w, ps) \in Seq(Entries)
    BY <1>1, <1>4, SeqDef
  <1>6. \A i \in DOMAIN w : Abandon(w, ps)[i] = E(i)
    BY DEF Abandon
  <1> QED
    BY <1>1, <1>4, <1>5, <1>6

RpcTypeOK ==
    /\ connected \in BOOLEAN
    /\ net \in [Callers -> {"idle", "dial", "sent", "ok", "err"}]
    /\ dialing \in [Callers -> Messages \cup {Nil}]
    /\ reply \in [Callers -> Groups \cup {Nil}]
    /\ wire \in Seq(Entries)

\* The values that stand for callers, groups, streams and "nothing" are distinct.
LEMMA NilIsNot ==
    /\ Nil \notin Callers /\ Nil \notin Nat /\ Nil \notin Streams /\ Nil # Ann
    /\ Requests \subseteq Callers /\ Watchdog \in Callers /\ Scanner \in Callers
    /\ Watchdog \notin Requests /\ Scanner \notin Requests /\ Watchdog # Scanner
  BY NilAssumption, CallersAssumption DEF Callers

\* Whatever is on the wire has a caller, or had one, and a message.
LEMMA WireEntry ==
    ASSUME RpcTypeOK, NEW i \in DOMAIN wire
    PROVE  wire[i] \in Entries /\ wire[i].from \in Callers \cup {Nil} /\ wire[i].msg \in Messages
  <1>1. wire[i] \in Entries
    BY LenProperties, ElementOfSeq DEF RpcTypeOK
  <1> QED
    BY <1>1 DEF Entries

\* A caller that does not move stands where it stood.
LEMMA AtStays ==
    ASSUME NEW p \in Callers, p \in Requests => pc'[p] = pc[p]
    PROVE  At(p)' = At(p)
  BY DEF At

\* Making a call keeps the bookkeeping of calls: the caller waits from then on,
\* for exactly one call, of the kind its place asks for.
LEMMA CallsLemma ==
    ASSUME RpcTypeOK, RpcInv,
           NEW p \in Callers, NEW m \in Messages, net[p] \in {"idle", "ok", "err"},
           Calls(p, m), Fits(At(p)', m),
           p \in Requests => pc'[p] \in Calling,
           \A q \in Requests \ {p} : pc'[q] = pc[q]
    PROVE  RpcTypeOK' /\ RpcInv'
  <1> DEFINE e == [from |-> p, msg |-> m]
  <1> USE NilIsNot
  <1>0. e \in Entries /\ e.from = p /\ e.msg = m
    BY DEF Entries
  <1>1. \A q \in Callers \ {p} : net'[q] = net[q] /\ dialing'[q] = dialing[q] /\ reply'[q] = reply[q]
    BY DEF Calls, RpcTypeOK
  <1>2. net'[p] \in {"dial", "sent"} /\ (net'[p] = "dial" => dialing'[p] = m)
    BY DEF Calls, RpcTypeOK
  <1>3. RpcTypeOK'
    <2>1. CASE connected
      <3>1. wire' = Append(wire, e) /\ UNCHANGED <<connected, dialing>>
        BY <2>1 DEF Calls
      <3>2. wire' \in Seq(Entries)
        BY <3>1, <1>0, AppendFacts DEF RpcTypeOK
      <3> QED
        BY <2>1, <3>1, <3>2 DEF Calls, RpcTypeOK
    <2>2. CASE ~connected
      BY <2>2 DEF Calls, RpcTypeOK
    <2> QED
      BY <2>1, <2>2
  <1>4. \A r \in Requests : pc'[r] \in Calling <=> net'[r] # "idle"
    BY <1>1, <1>2 DEF RpcInv
  <1>5. \A q \in Callers : net'[q] = "dial" => dialing'[q] \in Messages /\ Fits(At(q)', dialing'[q])
    BY <1>1, <1>2, AtStays DEF RpcInv
  <1>6. /\ \A i \in DOMAIN wire' : wire'[i].from # Nil =>
               net'[wire'[i].from] = "sent" /\ Fits(At(wire[i].from)', wire'[i].msg)
        /\ \A i, j \in DOMAIN wire' :
               wire'[i].from # Nil /\ wire'[i].from = wire'[j].from => i = j
    <2>1. \A i \in DOMAIN wire : wire[i].from # p /\ wire[i].from \in Callers \cup {Nil}
      BY WireEntry DEF RpcInv
    <2>2. CASE ~connected
      <3>1. wire' = wire
        BY <2>2 DEF Calls
      <3> QED
        BY <3>1, <2>1, <1>1, AtStays DEF RpcInv
    <2>3. CASE connected
      <3>1. wire' = Append(wire, e) /\ net'[p] = "sent"
        BY <2>3 DEF Calls, RpcTypeOK
      <3>2. /\ DOMAIN wire' = 1 .. Len(wire) + 1 /\ DOMAIN wire = 1 .. Len(wire)
            /\ Len(wire) \in Nat
            /\ \A i \in DOMAIN wire : wire'[i] = wire[i]
            /\ wire'[Len(wire) + 1] = e
        BY <3>1, <1>0, AppendFacts DEF RpcTypeOK
      <3>3. \A i \in DOMAIN wire' : i \in DOMAIN wire \/ i = Len(wire) + 1
        BY <3>2
      <3>4. ASSUME NEW i \in DOMAIN wire', wire'[i].from # Nil
            PROVE  net'[wire'[i].from] = "sent" /\ Fits(At(wire[i].from)', wire'[i].msg)
        <4>1. CASE i \in DOMAIN wire
          BY <4>1, <3>4, <3>2, <2>1, <1>1 DEF RpcInv, At
        <4>2. CASE i = Len(wire) + 1
          BY <4>2, <3>1, <3>2, <1>0 DEF At
        <4> QED
          BY <4>1, <4>2, <3>3
      <3>5. ASSUME NEW i \in DOMAIN wire', NEW j \in DOMAIN wire',
                   wire'[i].from # Nil, wire'[i].from = wire'[j].from
            PROVE  i = j
        BY <3>5, <3>2, <3>3, <2>1, <1>0 DEF RpcInv
      <3> QED
        BY <3>4, <3>5
    <2> QED
      BY <2>2, <2>3
  <1>7. \A q \in Callers : net'[q] = "ok" /\ At(q)' \in Listing => reply'[q] \in Groups
    BY <1>1, <1>2 DEF RpcInv, At
  <1> QED
    BY <1>3, <1>4, <1>5, <1>6, <1>7 DEF RpcInv

\* A caller that has its answer, or makes no call, stops calling.
LEMMA HangsUpLemma ==
    ASSUME RpcTypeOK, RpcInv,
           NEW p \in Callers, net[p] \in {"idle", "ok", "err"},
           HangsUp(p),
           p \in Requests => pc'[p] \notin Calling,
           \A q \in Requests \ {p} : pc'[q] = pc[q]
    PROVE  RpcTypeOK' /\ RpcInv'
  <1> USE NilIsNot
  <1>1. /\ \A q \in Callers \ {p} : net'[q] = net[q] /\ reply'[q] = reply[q]
        /\ net'[p] = "idle"
    BY DEF HangsUp, RpcTypeOK
  <1>2. UNCHANGED <<connected, dialing, wire>>
    BY DEF HangsUp
  <1>3. RpcTypeOK'
    BY <1>2 DEF HangsUp, RpcTypeOK
  <1>4. \A i \in DOMAIN wire : wire[i].from # p /\ wire[i].from \in Callers \cup {Nil}
    BY WireEntry DEF RpcInv
  <1>5. \A r \in Requests : pc'[r] \in Calling <=> net'[r] # "idle"
    BY <1>1 DEF RpcInv
  <1>6. \A q \in Callers : net'[q] = "dial" => dialing'[q] \in Messages /\ Fits(At(q)', dialing'[q])
    BY <1>1, <1>2, AtStays DEF RpcInv
  <1>7. \A i \in DOMAIN wire' : wire'[i].from # Nil =>
           net'[wire'[i].from] = "sent" /\ Fits(At(wire[i].from)', wire'[i].msg)
    BY <1>1, <1>2, <1>4, AtStays DEF RpcInv
  <1>8. \A i, j \in DOMAIN wire' :
           wire'[i].from # Nil /\ wire'[i].from = wire'[j].from => i = j
    BY <1>2 DEF RpcInv
  <1>9. \A q \in Callers : net'[q] = "ok" /\ At(q)' \in Listing => reply'[q] \in Groups
    BY <1>1 DEF RpcInv, At
  <1> QED
    BY <1>3, <1>5, <1>6, <1>7, <1>8, <1>9 DEF RpcInv

\* Steps that touch no call.
LEMMA NoCallLemma ==
    ASSUME RpcTypeOK, RpcInv, UNCHANGED rpcVars,
           \A q \in Requests :
              pc'[q] = pc[q] \/ (pc[q] \notin Calling /\ pc'[q] \notin Calling)
    PROVE  RpcTypeOK' /\ RpcInv'
  <1> USE NilIsNot
  <1>1. UNCHANGED <<connected, net, dialing, reply, wire>>
    BY DEF rpcVars
  <1>2. \A q \in Callers : net[q] # "idle" => At(q)' = At(q)
    BY DEF RpcInv, At
  <1>3. RpcTypeOK'
    BY <1>1 DEF RpcTypeOK
  <1>4. \A r \in Requests : pc'[r] \in Calling <=> net'[r] # "idle"
    BY <1>1 DEF RpcInv
  <1>5. \A q \in Callers : net'[q] = "dial" => dialing'[q] \in Messages /\ Fits(At(q)', dialing'[q])
    BY <1>1, <1>2 DEF RpcInv
  <1>6. \A i \in DOMAIN wire' : wire'[i].from # Nil =>
           net'[wire'[i].from] = "sent" /\ Fits(At(wire[i].from)', wire'[i].msg)
    BY <1>1, <1>2, WireEntry DEF RpcInv
  <1>7. \A i, j \in DOMAIN wire' :
           wire'[i].from # Nil /\ wire'[i].from = wire'[j].from => i = j
    BY <1>1 DEF RpcInv
  <1>8. \A q \in Callers : net'[q] = "ok" /\ At(q)' \in Listing => reply'[q] \in Groups
    BY <1>1, <1>2 DEF RpcInv
  <1> QED
    BY <1>3, <1>4, <1>5, <1>6, <1>7, <1>8 DEF RpcInv

-----------------------------------------------------------------------------
(* The lock.                                                               *)

\* Request r takes or keeps the lock, or is done and gives it back.
Moves(r) ==
    \/ owner' = r /\ \E w \in Critical : pc' = [pc EXCEPT ![r] = w]
    \/ owner' = Nil /\ pc' = [pc EXCEPT ![r] = "done"]

LockTypeOK ==
    /\ owner \in Requests \cup {Nil}
    /\ queue \in Seq(Requests)
    /\ pc \in [Requests -> PCs]

\* A request that enters, works or leaves without queueing keeps the lock exclusive.
LEMMA MovesLemma ==
    ASSUME LockTypeOK, Serialised, NEW r \in Requests,
           Moves(r), owner \in {r, Nil}, pc[r] # "queued", UNCHANGED queue
    PROVE  LockTypeOK' /\ Serialised'
  <1> USE NilIsNot
  <1>1. LockTypeOK'
    BY DEF Moves, LockTypeOK, PCs
  <1>2. \A q \in Requests : pc'[q] \in Critical <=> owner' = q
    BY DEF Moves, LockTypeOK, Serialised, Critical
  <1>3. \A q \in Requests : pc'[q] = "queued" <=> pc[q] = "queued"
    BY DEF Moves, LockTypeOK, Critical
  <1> QED
    BY <1>1, <1>2, <1>3 DEF Serialised

\* So does waking the first waiter when the lock is free.
LEMMA GrantLemma ==
    ASSUME LockTypeOK, Serialised, queue # <<>>,
           Moves(Head(queue)), owner = Nil, queue' = Tail(queue)
    PROVE  LockTypeOK' /\ Serialised' /\ Head(queue) \in Requests /\ pc[Head(queue)] = "queued"
  <1> DEFINE r == Head(queue)
  <1> USE NilIsNot
  <1>1. /\ r \in Requests /\ 1 \in DOMAIN queue /\ r = queue[1]
        /\ Tail(queue) \in Seq(Requests)
        /\ \A i \in DOMAIN Tail(queue) :
              i + 1 \in DOMAIN queue /\ Tail(queue)[i] = queue[i + 1] /\ i \in Nat /\ i >= 1
    BY TailFacts DEF LockTypeOK
  <1>2. pc[r] = "queued"
    BY <1>1 DEF Serialised
  <1>3. LockTypeOK'
    BY <1>1 DEF Moves, LockTypeOK, PCs
  <1>4. \A q \in Requests : pc'[q] \in Critical <=> owner' = q
    BY <1>1 DEF Moves, LockTypeOK, Serialised, Critical
  <1>5. \A q \in Requests : pc'[q] = "queued" <=> pc[q] = "queued" /\ q # r
    BY <1>1 DEF Moves, LockTypeOK, Critical
  <1>6. \A q \in Requests : (\E i \in DOMAIN queue' : queue'[i] = q)
                              <=> q # r /\ \E i \in DOMAIN queue : queue[i] = q
    <2>1. ASSUME NEW i \in DOMAIN queue' PROVE queue'[i] # r /\ \E j \in DOMAIN queue : queue[j] = queue'[i]
      BY <1>1 DEF Serialised
    <2>2. ASSUME NEW i \in DOMAIN queue, queue[i] # r PROVE \E j \in DOMAIN queue' : queue'[j] = queue[i]
      <3>1. /\ DOMAIN queue = 1 .. Len(queue) /\ Len(queue) \in Nat
            /\ Len(Tail(queue)) = Len(queue) - 1
            /\ DOMAIN Tail(queue) = 1 .. Len(Tail(queue))
        BY <1>1, LenProperties, HeadTailProperties DEF LockTypeOK
      <3>2. i - 1 \in DOMAIN Tail(queue) /\ Tail(queue)[i - 1] = queue[i]
        BY <2>2, <3>1, <1>1
      <3> QED
        BY <3>2
    <2> QED
      BY <2>1, <2>2
  <1>7. \A i, j \in DOMAIN queue' : queue'[i] = queue'[j] => i = j
    BY <1>1 DEF Serialised
  <1> QED
    BY <1>1, <1>2, <1>3, <1>4, <1>5, <1>6, <1>7 DEF Serialised

-----------------------------------------------------------------------------
(* The hold.                                                               *)

HoldTypeOK ==
    /\ live \in [Requests -> Streams \cup {Ann, Nil}]
    /\ sticky \in Streams \cup {Ann, Nil}
    /\ timer \in {"off", "sleeping", "due"}

OtherTypeOK ==
    /\ kind \in [Requests -> Kinds \cup {Nil}]
    /\ vol \in [Requests -> Volumes \cup {Nil}]
    /\ volCache \in Volumes \cup {Nil}
    /\ cfgGroup \in Nat \cup {Nil}
    /\ cfgStream \in {Ann, Nil}
    /\ enabled \in BOOLEAN
    /\ group \in Groups
    /\ snapVol \in Volumes \cup {Nil}
    /\ left \in [Disturbances -> Nat]

\* The type invariant by parts: each step has one or two of them to show.
LEMMA TypeSplit == TypeOK <=> LockTypeOK /\ HoldTypeOK /\ OtherTypeOK /\ RpcTypeOK
  BY DEF TypeOK, LockTypeOK, HoldTypeOK, OtherTypeOK, RpcTypeOK, Entries

\* The same in the next state.
LEMMA TypeJoin ==
    ASSUME LockTypeOK', HoldTypeOK', OtherTypeOK', RpcTypeOK'
    PROVE  TypeOK'
  BY DEF TypeOK, LockTypeOK, HoldTypeOK, OtherTypeOK, RpcTypeOK, Entries

\* The three calls the zone makes are well formed.
LEMMA MessagesFacts ==
    /\ ListGroups \in Messages /\ ListGroups.op = "list" /\ ListGroups.arg = Nil
    /\ \A g \in Nat \cup {Nil}, s \in Streams \cup {Ann} :
          SetStream(g, s) \in Messages /\ SetStream(g, s).op = "stream" /\ SetStream(g, s).arg = s
    /\ \A v \in Volumes :
          SetVolume(v) \in Messages /\ SetVolume(v).op = "volume" /\ SetVolume(v).arg = v
  BY DEF Messages, ListGroups, SetStream, SetVolume

\* A call made from a place that fits it.
LEMMA FitsFacts ==
    ASSUME NEW at
    PROVE  /\ Fits(at, ListGroups)
           /\ \A g, s : at \notin Listing /\ (at \in Ducking \/ s # Ann) => Fits(at, SetStream(g, s))
           /\ \A v \in Volumes : at \notin Listing => Fits(at, SetVolume(v))
  BY NilIsNot DEF Fits, ListGroups, SetStream, SetVolume

\* A step of request r that may change the hold: where r goes, it knows what
\* it has to know there, and the hold and its timer go together.
HoldStep(r) ==
    /\ HoldTypeOK'
    /\ HoldHasTimer'
    /\ sticky' # Ann
    /\ \A q \in Requests \ {r} : live'[q] = live[q]
    /\ live'[r] # Ann
    /\ pc'[r] \in {"switch", "holdSwitch", "restore"} => live'[r] # Nil
    /\ pc'[r] \in Listing => cfgStream = Ann
    /\ pc'[r] # "queued"

\* A step of one request keeps HoldInv if it keeps HoldInv for that request.
LEMMA HoldStepLemma ==
    ASSUME HoldInv, LockTypeOK, NEW r \in Requests, Moves(r), HoldStep(r), UNCHANGED cfgStream,
           \A q \in Requests \ {r} : kind'[q] = kind[q]
    PROVE  HoldInv'
  <1>1. \A q \in Requests \ {r} : pc'[q] = pc[q]
    BY DEF Moves, LockTypeOK
  <1> QED
    BY <1>1 DEF HoldInv, HoldStep, Listing

\* What StartSwitch does: ask for the groups if the zone is linked, else play.
LEMMA StartSwitchLemma ==
    ASSUME ZoneInv, NEW r \in Requests, net[r] \in {"idle", "ok", "err"}, StartSwitch(r)
    PROVE  /\ RpcTypeOK' /\ RpcInv' /\ Moves(r)
           /\ pc'[r] \in {"list", "play"}
           /\ pc'[r] = "list" => cfgStream = Ann
  <1> USE NilIsNot
  <1>0. LockTypeOK /\ OtherTypeOK /\ RpcTypeOK /\ RpcInv
    BY TypeSplit DEF ZoneInv
  <1>1. CASE Linked /\ Goes(r, "list") /\ Calls(r, ListGroups)
    <2>1. /\ Moves(r) /\ pc'[r] = "list" /\ cfgStream = Ann
          /\ \A q \in Requests \ {r} : pc'[q] = pc[q]
      BY <1>0, <1>1 DEF Goes, Moves, Critical, LockTypeOK, OtherTypeOK, Linked
    <2>2. RpcTypeOK' /\ RpcInv'
      BY <1>0, <1>1, <2>1, CallsLemma, MessagesFacts, FitsFacts DEF Calling
    <2> QED
      BY <2>1, <2>2
  <1>2. CASE ~Linked /\ Goes(r, "play") /\ HangsUp(r)
    <2>1. /\ Moves(r) /\ pc'[r] = "play"
          /\ \A q \in Requests \ {r} : pc'[q] = pc[q]
      BY <1>0, <1>2 DEF Goes, Moves, Critical, LockTypeOK
    <2>2. RpcTypeOK' /\ RpcInv'
      BY <1>0, <1>2, <2>1, HangsUpLemma DEF Calling
    <2> QED
      BY <2>1, <2>2
  <1> QED
    BY <1>1, <1>2 DEF StartSwitch

\* A request that finishes gives the lock back and makes no more calls.
LEMMA FinishLemma ==
    ASSUME ZoneInv, NEW r \in Requests, net[r] \in {"idle", "ok", "err"}, Finish(r)
    PROVE  /\ RpcTypeOK' /\ RpcInv' /\ Moves(r)
           /\ pc'[r] = "done"
           /\ live' = [live EXCEPT ![r] = Nil]
  <1> USE NilIsNot
  <1>0. LockTypeOK /\ RpcTypeOK /\ RpcInv
    BY TypeSplit DEF ZoneInv
  <1>1. /\ Moves(r) /\ pc'[r] = "done" /\ live' = [live EXCEPT ![r] = Nil] /\ HangsUp(r)
        /\ \A q \in Requests \ {r} : pc'[q] = pc[q]
    BY <1>0 DEF Finish, Unlocks, Moves, LockTypeOK
  <1>2. RpcTypeOK' /\ RpcInv'
    BY <1>0, <1>1, HangsUpLemma DEF Calling
  <1> QED
    BY <1>1, <1>2

\* Whoever is let in, at once or from the queue, starts with a call that fits, or
\* leaves at once.
LEMMA BeginLemma ==
    ASSUME ZoneInv, NEW r \in Requests, NEW k \in Kinds, NEW v \in Volumes \cup {Nil},
           pc[r] \in {"new", "queued"}, Begin(r, k, v),
           k = "hold" => cfgStream = Ann
    PROVE  RpcTypeOK' /\ RpcInv' /\ Moves(r) /\ HoldStep(r)
  <1> USE NilIsNot
  <1>0. /\ LockTypeOK /\ HoldTypeOK /\ OtherTypeOK /\ RpcTypeOK /\ RpcInv /\ HoldInv
        /\ net[r] = "idle"
    BY TypeSplit DEF ZoneInv, RpcInv, Calling
  <1>1. CASE BeginAnnounce(r, v)
    <2>1. UNCHANGED <<live, sticky, timer>>
      BY <1>1 DEF BeginAnnounce, holdVars
    <2>2. CASE ~VolumeIsSet(v) /\ Goes(r, "volume") /\ Calls(r, SetVolume(v))
      <3>1. /\ Moves(r) /\ pc'[r] = "volume" /\ v \in Volumes
            /\ \A q \in Requests \ {r} : pc'[q] = pc[q]
        BY <1>0, <2>2 DEF Goes, Moves, Critical, LockTypeOK, VolumeIsSet
      <3>2. RpcTypeOK' /\ RpcInv'
        <4>1. At(r)' = "volume"
          BY <3>1 DEF At
        <4> QED
          BY <1>0, <2>2, <3>1, <4>1, CallsLemma, MessagesFacts, FitsFacts DEF Calling, Listing
      <3> QED
        BY <1>0, <2>1, <3>1, <3>2 DEF HoldStep, HoldTypeOK, HoldInv, HoldHasTimer, Listing
    <2>3. CASE StartSwitch(r)
      BY <1>0, <2>1, <2>3, StartSwitchLemma DEF HoldStep, HoldTypeOK, HoldInv, HoldHasTimer, Listing
    <2> QED
      BY <1>1, <2>2, <2>3 DEF BeginAnnounce
  <1>2. CASE k = "hold" /\ BeginHold(r)
    <2>1. CASE sticky # Nil /\ Arm(sticky) /\ Finish(r)
      BY <1>0, <2>1, FinishLemma DEF Arm, HoldStep, HoldTypeOK, HoldInv, HoldHasTimer, Listing
    <2>2. CASE Goes(r, "holdList") /\ Calls(r, ListGroups) /\ UNCHANGED <<live, holdVars>>
      <3>1. /\ Moves(r) /\ pc'[r] = "holdList"
            /\ \A q \in Requests \ {r} : pc'[q] = pc[q]
            /\ UNCHANGED <<live, sticky, timer>>
        BY <1>0, <2>2 DEF Goes, Moves, Critical, LockTypeOK, holdVars
      <3>2. RpcTypeOK' /\ RpcInv'
        BY <1>0, <2>2, <3>1, CallsLemma, MessagesFacts, FitsFacts DEF Calling
      <3> QED
        BY <1>0, <1>2, <3>1, <3>2 DEF HoldStep, HoldTypeOK, HoldInv, HoldHasTimer
    <2> QED
      BY <1>2, <2>1, <2>2 DEF BeginHold
  <1>3. CASE BeginRelease(r)
    <2>1. sticky' = Nil /\ timer' = "off"
      BY <1>3 DEF BeginRelease, Disarm
    <2>2. CASE sticky # Nil /\ Goes(r, "release") /\ Calls(r, SetStream(cfgGroup, sticky)) /\ UNCHANGED live
      <3>1. /\ Moves(r) /\ pc'[r] = "release" /\ At(r)' = "release"
            /\ \A q \in Requests \ {r} : pc'[q] = pc[q]
        BY <1>0, <2>2 DEF Goes, Moves, Critical, LockTypeOK, At
      <3>2. sticky \in Streams /\ cfgGroup \in Nat \cup {Nil} /\ SetStream(cfgGroup, sticky) \in Messages
        BY <1>0, <2>2, MessagesFacts DEF HoldTypeOK, HoldInv, OtherTypeOK
      <3>3. Fits("release", SetStream(cfgGroup, sticky))
        BY <1>0, FitsFacts DEF HoldInv, Listing
      <3>4. RpcTypeOK' /\ RpcInv'
        BY <1>0, <2>2, <3>1, <3>2, <3>3, CallsLemma DEF Calling
      <3> QED
        BY <1>0, <2>1, <2>2, <3>1, <3>4 DEF HoldStep, HoldTypeOK, HoldInv, HoldHasTimer, Listing
    <2>3. CASE Finish(r)
      BY <1>0, <2>1, <2>3, FinishLemma DEF HoldStep, HoldTypeOK, HoldInv, HoldHasTimer, Listing
    <2> QED
      BY <1>3, <2>2, <2>3 DEF BeginRelease
  <1> QED
    BY <1>1, <1>2, <1>3 DEF Begin

-----------------------------------------------------------------------------
(* Every step preserves the invariant.                                     *)

\* What is left to show for a step of a request under the lock.
LEMMA StepLemma ==
    ASSUME ZoneInv, NEW r \in Requests, pc[r] \in Critical,
           RpcTypeOK', RpcInv', Moves(r), HoldStep(r), OtherTypeOK',
           UNCHANGED <<queue, kind, cfgStream>>
    PROVE  ZoneInv'
  <1>0. LockTypeOK /\ Serialised /\ HoldInv /\ owner = r /\ pc[r] # "queued"
    BY TypeSplit DEF ZoneInv, Serialised, Critical
  <1>1. LockTypeOK' /\ Serialised'
    BY <1>0, MovesLemma
  <1>2. HoldInv'
    BY <1>0, HoldStepLemma
  <1>3. HoldTypeOK'
    BY DEF HoldStep
  <1>4. TypeOK'
    BY <1>1, <1>3, TypeJoin
  <1> QED
    BY <1>1, <1>2, <1>4 DEF ZoneInv

\* A request arrives: it is refused, let in or queued.
LEMMA ArriveStep ==
    ASSUME ZoneInv, NEW r \in Requests, NEW k \in Kinds, NEW v \in Volumes \cup {Nil},
           Arrive(r, k, v)
    PROVE  ZoneInv'
  <1> USE NilIsNot
  <1>0. /\ LockTypeOK /\ HoldTypeOK /\ OtherTypeOK /\ RpcTypeOK
        /\ RpcInv /\ HoldInv /\ Serialised /\ pc[r] = "new"
    BY TypeSplit DEF ZoneInv, Arrive
  <1>1. /\ OtherTypeOK' /\ UNCHANGED cfgStream
        /\ kind' = [kind EXCEPT ![r] = k]
        /\ \A q \in Requests \ {r} : kind'[q] = kind[q]
    BY <1>0 DEF Arrive, OtherTypeOK, cfgVars, snapVars
  <1>2. CASE Refused(k) /\ pc' = [pc EXCEPT ![r] = "done"] /\ UNCHANGED <<lockVars, live, holdVars, rpcVars>>
    <2>1. UNCHANGED <<owner, queue, live, sticky, timer>> /\ UNCHANGED rpcVars
      BY <1>2 DEF lockVars, holdVars
    <2>2. RpcTypeOK' /\ RpcInv'
      BY <1>0, <1>2, NoCallLemma DEF LockTypeOK, Calling
    <2>3. LockTypeOK' /\ Serialised'
      BY <1>0, <1>2, <2>1 DEF LockTypeOK, Serialised, Critical, PCs
    <2>4. HoldTypeOK' /\ HoldInv'
      BY <1>0, <1>1, <1>2, <2>1 DEF HoldTypeOK, HoldInv, HoldHasTimer, LockTypeOK
    <2> QED
      BY <1>1, <2>2, <2>3, <2>4, TypeJoin DEF ZoneInv
  <1>3. CASE ~Refused(k) /\ Uncontended /\ Begin(r, k, v) /\ UNCHANGED queue
    <2>1. k = "hold" => cfgStream = Ann
      BY <1>0, <1>3 DEF Refused, OtherTypeOK
    <2>2. RpcTypeOK' /\ RpcInv' /\ Moves(r) /\ HoldStep(r)
      BY <1>0, <1>3, <2>1, BeginLemma
    <2>3. LockTypeOK' /\ Serialised'
      BY <1>0, <1>3, <2>2, MovesLemma DEF Uncontended, Locked
    <2>4. HoldTypeOK' /\ HoldInv'
      BY <1>0, <1>1, <2>2, HoldStepLemma DEF HoldStep
    <2> QED
      BY <1>1, <2>2, <2>3, <2>4, TypeJoin DEF ZoneInv
  <1>4. CASE /\ ~Refused(k) /\ pc' = [pc EXCEPT ![r] = "queued"] /\ queue' = Append(queue, r)
             /\ UNCHANGED <<owner, live, holdVars, rpcVars>>
    <2>1. UNCHANGED <<owner, live, sticky, timer>> /\ UNCHANGED rpcVars
      BY <1>4 DEF holdVars
    <2>2. RpcTypeOK' /\ RpcInv'
      BY <1>0, <1>4, NoCallLemma DEF LockTypeOK, Calling
    <2>3. /\ DOMAIN queue' = 1 .. Len(queue) + 1 /\ DOMAIN queue = 1 .. Len(queue)
          /\ Len(queue) \in Nat
          /\ \A i \in DOMAIN queue : queue'[i] = queue[i]
          /\ queue'[Len(queue) + 1] = r
          /\ queue' \in Seq(Requests)
      BY <1>0, <1>4, AppendFacts DEF LockTypeOK
    <2>4. \A i \in DOMAIN queue : queue[i] # r
      BY <1>0 DEF Serialised
    <2>5. LockTypeOK'
      BY <1>0, <1>4, <2>3 DEF LockTypeOK, PCs
    <2>6. Serialised'
      <3>1. \A q \in Requests : pc'[q] \in Critical <=> owner' = q
        BY <1>0, <1>4, <2>1 DEF LockTypeOK, Serialised, Critical
      <3>2. \A q \in Requests : pc'[q] = "queued" <=> pc[q] = "queued" \/ q = r
        BY <1>0, <1>4 DEF LockTypeOK
      <3>3. \A q \in Requests : (\E i \in DOMAIN queue' : queue'[i] = q)
                                  <=> q = r \/ \E i \in DOMAIN queue : queue[i] = q
        BY <2>3
      <3>4. \A i, j \in DOMAIN queue' : queue'[i] = queue'[j] => i = j
        BY <1>0, <2>3, <2>4 DEF Serialised
      <3> QED
        BY <1>0, <3>1, <3>2, <3>3, <3>4 DEF Serialised
    <2>7. k = "hold" => cfgStream = Ann
      BY <1>0, <1>4 DEF Refused, OtherTypeOK
    <2>8. HoldTypeOK' /\ HoldInv'
      BY <1>0, <1>1, <1>4, <2>1, <2>7 DEF HoldTypeOK, HoldInv, HoldHasTimer, LockTypeOK, OtherTypeOK
    <2> QED
      BY <1>1, <2>2, <2>5, <2>6, <2>8, TypeJoin DEF ZoneInv
  <1> QED
    BY <1>2, <1>3, <1>4 DEF Arrive

\* The first waiter is let in.
LEMMA GrantStep ==
    ASSUME ZoneInv, Grant
    PROVE  ZoneInv'
  <1> DEFINE r == Head(queue)
  <1> USE NilIsNot
  <1>0. /\ LockTypeOK /\ HoldTypeOK /\ OtherTypeOK /\ RpcTypeOK
        /\ RpcInv /\ HoldInv /\ Serialised /\ owner = Nil
    BY TypeSplit DEF ZoneInv, Grant, Locked
  <1>1. /\ r \in Requests /\ pc[r] = "queued" /\ queue # <<>>
        /\ Begin(r, kind[r], vol[r]) /\ queue' = Tail(queue)
    <2>1. r \in Requests /\ 1 \in DOMAIN queue /\ r = queue[1]
      BY <1>0, TailFacts DEF Grant, LockTypeOK
    <2> QED
      BY <1>0, <2>1 DEF Grant, Serialised
  <1>2. kind[r] \in Kinds /\ vol[r] \in Volumes \cup {Nil}
    BY <1>0, <1>1 DEF OtherTypeOK, Begin, Kinds
  <1>3. kind[r] = "hold" => cfgStream = Ann
    BY <1>0, <1>1 DEF HoldInv
  <1>4. RpcTypeOK' /\ RpcInv' /\ Moves(r) /\ HoldStep(r)
    BY <1>1, <1>2, <1>3, BeginLemma
  <1>5. LockTypeOK' /\ Serialised'
    BY <1>0, <1>1, <1>4, GrantLemma
  <1>6. OtherTypeOK' /\ UNCHANGED <<kind, cfgStream>>
    BY <1>0 DEF Grant, OtherTypeOK, cfgVars, snapVars
  <1>7. HoldTypeOK' /\ HoldInv'
    BY <1>0, <1>1, <1>4, <1>6, HoldStepLemma DEF HoldStep
  <1> QED
    BY <1>4, <1>5, <1>6, <1>7, TypeJoin DEF ZoneInv

\* A finished request leaves the hold as it was or as Arm or Disarm left it.
LEMMA FinishStep ==
    ASSUME ZoneInv, NEW r \in Requests, pc[r] \in Critical, net[r] \in {"idle", "ok", "err"},
           Finish(r), HoldHasTimer', sticky' # Ann, sticky' \in Streams \cup {Nil},
           timer' \in {"off", "sleeping", "due"},
           OtherTypeOK', UNCHANGED <<queue, kind, cfgStream>>
    PROVE  ZoneInv'
  <1>0. HoldTypeOK /\ LockTypeOK
    BY TypeSplit DEF ZoneInv
  <1>1. RpcTypeOK' /\ RpcInv' /\ Moves(r) /\ pc'[r] = "done" /\ live' = [live EXCEPT ![r] = Nil]
    BY FinishLemma
  <1>2. HoldStep(r)
    BY <1>0, <1>1, NilIsNot DEF HoldStep, HoldTypeOK, Listing
  <1> QED
    BY <1>1, <1>2, StepLemma

\* announce() after set_client_volume().
LEMMA VolumeDoneStep ==
    ASSUME ZoneInv, NEW r \in Requests, VolumeDone(r)
    PROVE  ZoneInv'
  <1>0. /\ LockTypeOK /\ HoldTypeOK /\ OtherTypeOK /\ HoldInv
        /\ pc[r] \in Critical /\ net[r] \in {"ok", "err"}
    BY TypeSplit DEF ZoneInv, VolumeDone, Answered, Critical
  <1>1. /\ RpcTypeOK' /\ RpcInv' /\ Moves(r) /\ pc'[r] \in {"list", "play"}
        /\ pc'[r] = "list" => cfgStream = Ann
    BY <1>0, StartSwitchLemma DEF VolumeDone
  <1>2. UNCHANGED <<queue, kind, live, sticky, timer, cfgStream>>
    BY DEF VolumeDone, holdVars, cfgVars
  <1>3. OtherTypeOK'
    BY <1>0 DEF VolumeDone, OtherTypeOK, cfgVars, snapVars
  <1>4. HoldStep(r)
    BY <1>0, <1>1, <1>2 DEF HoldStep, HoldTypeOK, HoldInv, HoldHasTimer, Listing
  <1> QED
    BY <1>0, <1>1, <1>2, <1>3, <1>4, StepLemma

\* announce() after list_groups(): where to go back to is decided here.
LEMMA ListedStep ==
    ASSUME ZoneInv, NEW r \in Requests, Listed(r)
    PROVE  ZoneInv'
  <1> USE NilIsNot
  <1>0. /\ LockTypeOK /\ HoldTypeOK /\ OtherTypeOK /\ RpcTypeOK /\ HoldInv /\ RpcInv
        /\ pc[r] = "list" /\ pc[r] \in Critical /\ net[r] \in {"ok", "err"} /\ cfgStream = Ann
    BY TypeSplit DEF ZoneInv, Listed, Answered, Critical, HoldInv
  <1>1. UNCHANGED <<queue, kind, sticky, timer, cfgStream>>
    BY DEF Listed, holdVars
  <1>2. net[r] = "ok" => reply[r] \in Groups
    BY <1>0 DEF RpcInv, At, Listing
  <1>3. CASE /\ net[r] = "ok" /\ cfgGroup' = reply[r].id /\ reply[r].stream # cfgStream
             /\ live' = [live EXCEPT ![r] = Home(reply[r])]
             /\ Goes(r, "switch") /\ Calls(r, SetStream(reply[r].id, cfgStream))
    <2>1. reply[r].id \in Nat /\ reply[r].stream \in Streams
      BY <1>0, <1>2, <1>3 DEF Groups
    <2>2. Home(reply[r]) \in Streams
      BY <1>0, <2>1 DEF Home, HoldTypeOK, HoldInv
    <2>3. /\ Moves(r) /\ pc'[r] = "switch" /\ At(r)' = "switch"
          /\ \A q \in Requests \ {r} : pc'[q] = pc[q]
      BY <1>0, <1>3 DEF Goes, Moves, Critical, LockTypeOK, At
    <2>4. RpcTypeOK' /\ RpcInv'
      <3>1. SetStream(reply[r].id, cfgStream) \in Messages
        BY <1>0, <2>1, MessagesFacts
      <3>2. Fits("switch", SetStream(reply[r].id, cfgStream))
        BY FitsFacts DEF Listing, Ducking
      <3> QED
        BY <1>0, <1>3, <2>3, <3>1, <3>2, CallsLemma DEF Calling
    <2>5. OtherTypeOK'
      BY <1>0, <1>3, <2>1 DEF Listed, OtherTypeOK, snapVars
    <2>6. HoldStep(r)
      BY <1>0, <1>1, <1>3, <2>2, <2>3, AnnAssumption DEF HoldStep, HoldTypeOK, HoldInv, HoldHasTimer, Listing
    <2> QED
      BY <1>0, <1>1, <2>3, <2>4, <2>5, <2>6, StepLemma
  <1>4. CASE /\ Goes(r, "play") /\ HangsUp(r) /\ cfgGroup' \in Nat \cup {Nil}
             /\ live' = [live EXCEPT ![r] = live'[r]] /\ live'[r] \in Streams \cup {Nil}
    <2>1. /\ Moves(r) /\ pc'[r] = "play"
          /\ \A q \in Requests \ {r} : pc'[q] = pc[q]
      BY <1>0, <1>4 DEF Goes, Moves, Critical, LockTypeOK
    <2>2. RpcTypeOK' /\ RpcInv'
      BY <1>0, <1>4, <2>1, HangsUpLemma DEF Calling
    <2>3. OtherTypeOK'
      BY <1>0, <1>4 DEF Listed, OtherTypeOK, snapVars
    <2>4. HoldStep(r)
      BY <1>0, <1>1, <1>4, <2>1, AnnAssumption DEF HoldStep, HoldTypeOK, HoldInv, HoldHasTimer, Listing
    <2> QED
      BY <1>0, <1>1, <2>1, <2>2, <2>3, <2>4, StepLemma
  <1>5. CASE /\ net[r] = "ok" /\ cfgGroup' = reply[r].id
             /\ live' = [live EXCEPT ![r] = IF sticky # Nil THEN Home(reply[r]) ELSE Nil]
             /\ Goes(r, "play") /\ HangsUp(r)
    BY <1>0, <1>2, <1>4, <1>5 DEF Groups, Home, HoldTypeOK, HoldInv
  <1>6. CASE Goes(r, "play") /\ HangsUp(r) /\ UNCHANGED <<cfgGroup, live>>
    <2>1. live[r] \in Streams \cup {Nil} /\ live = [live EXCEPT ![r] = live[r]]
      BY <1>0 DEF HoldTypeOK, HoldInv
    <2> QED
      BY <1>0, <1>4, <1>6, <2>1 DEF OtherTypeOK
  <1> QED
    BY <1>3, <1>5, <1>6 DEF Listed, Refreshes

\* announce() after the switch to the announcement stream.
LEMMA SwitchDoneStep ==
    ASSUME ZoneInv, NEW r \in Requests, SwitchDone(r)
    PROVE  ZoneInv'
  <1> USE NilIsNot
  <1>0. /\ LockTypeOK /\ HoldTypeOK /\ OtherTypeOK /\ RpcTypeOK /\ HoldInv /\ RpcInv
        /\ pc[r] \in Critical /\ net[r] \in {"ok", "err"}
    BY TypeSplit DEF ZoneInv, SwitchDone, Answered, Critical
  <1>1. UNCHANGED <<queue, kind, sticky, timer, cfgStream>> /\ OtherTypeOK'
    BY <1>0 DEF SwitchDone, holdVars, cfgVars, snapVars, OtherTypeOK
  <1>2. /\ Moves(r) /\ pc'[r] = "play"
        /\ \A q \in Requests \ {r} : pc'[q] = pc[q]
    BY <1>0 DEF SwitchDone, Goes, Moves, Critical, LockTypeOK
  <1>3. RpcTypeOK' /\ RpcInv'
    BY <1>0, <1>2, HangsUpLemma DEF SwitchDone, Calling
  <1>4. HoldStep(r)
    BY <1>0, <1>1, <1>2 DEF SwitchDone, HoldStep, HoldTypeOK, HoldInv, HoldHasTimer, Listing
  <1> QED
    BY <1>0, <1>1, <1>2, <1>3, <1>4, StepLemma

\* announce() after playback: the hold is armed or given up.
LEMMA PlayEndStep ==
    ASSUME ZoneInv, NEW r \in Requests, PlayEnd(r)
    PROVE  ZoneInv'
  <1> USE NilIsNot
  <1>0. /\ LockTypeOK /\ HoldTypeOK /\ OtherTypeOK /\ RpcTypeOK /\ HoldInv /\ RpcInv
        /\ pc[r] = "play" /\ pc[r] \in Critical /\ net[r] = "idle"
    BY TypeSplit DEF ZoneInv, PlayEnd, Critical, RpcInv, Calling
  <1>1. UNCHANGED <<queue, kind, cfgGroup, cfgStream>> /\ OtherTypeOK'
    BY <1>0 DEF PlayEnd, cfgVars, snapVars, OtherTypeOK
  <1>2. CASE Finish(r) /\ UNCHANGED holdVars
    BY <1>0, <1>1, <1>2, FinishStep DEF holdVars, HoldTypeOK, HoldInv, HoldHasTimer
  <1>3. CASE live[r] # Nil /\ Arm(live[r]) /\ Finish(r)
    BY <1>0, <1>1, <1>3, FinishStep DEF Arm, HoldTypeOK, HoldInv, HoldHasTimer
  <1>4. CASE /\ live[r] # Nil /\ Disarm /\ Goes(r, "restore")
             /\ Calls(r, SetStream(cfgGroup, live[r])) /\ UNCHANGED live
    <2>1. /\ Moves(r) /\ pc'[r] = "restore" /\ At(r)' = "restore"
          /\ \A q \in Requests \ {r} : pc'[q] = pc[q]
      BY <1>0, <1>4 DEF Goes, Moves, Critical, LockTypeOK, At
    <2>2. live[r] \in Streams /\ cfgGroup \in Nat \cup {Nil} /\ live[r] # Ann
      BY <1>0, <1>4 DEF HoldTypeOK, HoldInv, OtherTypeOK
    <2>3. SetStream(cfgGroup, live[r]) \in Messages /\ Fits("restore", SetStream(cfgGroup, live[r]))
      BY <2>2, MessagesFacts, FitsFacts DEF Listing
    <2>4. RpcTypeOK' /\ RpcInv'
      BY <1>0, <1>4, <2>1, <2>3, CallsLemma DEF Calling
    <2>5. HoldStep(r)
      BY <1>0, <1>4, <2>1, <2>2 DEF Disarm, HoldStep, HoldTypeOK, HoldInv, HoldHasTimer, Listing
    <2> QED
      BY <1>0, <1>1, <2>1, <2>4, <2>5, StepLemma
  <1> QED
    BY <1>2, <1>3, <1>4 DEF PlayEnd

\* announce() and its `finally` are over.
LEMMA RestoreDoneStep ==
    ASSUME ZoneInv, NEW r \in Requests, RestoreDone(r) \/ ReleaseDone(r)
    PROVE  ZoneInv'
  <1>0. /\ HoldTypeOK /\ OtherTypeOK /\ HoldInv
        /\ pc[r] \in Critical /\ net[r] \in {"ok", "err"} /\ Finish(r)
    BY TypeSplit DEF ZoneInv, RestoreDone, ReleaseDone, Answered, Critical
  <1>1. UNCHANGED <<queue, kind, sticky, timer, cfgStream>> /\ OtherTypeOK'
    BY <1>0 DEF RestoreDone, ReleaseDone, holdVars, cfgVars, snapVars, OtherTypeOK
  <1> QED
    BY <1>0, <1>1, FinishStep DEF HoldTypeOK, HoldInv, HoldHasTimer

\* hold_group() after list_groups().
LEMMA HoldListedStep ==
    ASSUME ZoneInv, NEW r \in Requests, HoldListed(r)
    PROVE  ZoneInv'
  <1> USE NilIsNot
  <1>0. /\ LockTypeOK /\ HoldTypeOK /\ OtherTypeOK /\ RpcTypeOK /\ HoldInv /\ RpcInv
        /\ pc[r] \in Critical /\ net[r] \in {"ok", "err"} /\ cfgStream = Ann
        /\ net[r] = "ok" => reply[r] \in Groups
    BY TypeSplit DEF ZoneInv, HoldListed, Answered, Critical, HoldInv, RpcInv, At, Listing
  <1>1. UNCHANGED <<queue, kind, sticky, timer, cfgStream>> /\ OtherTypeOK'
    BY <1>0 DEF HoldListed, Refreshes, holdVars, snapVars, OtherTypeOK, Groups
  <1>2. CASE /\ net[r] = "ok" /\ reply[r].stream # cfgStream
             /\ live' = [live EXCEPT ![r] = reply[r].stream]
             /\ Goes(r, "holdSwitch") /\ Calls(r, SetStream(reply[r].id, cfgStream))
    <2>1. reply[r].id \in Nat /\ reply[r].stream \in Streams
      BY <1>0, <1>2 DEF Groups
    <2>2. /\ Moves(r) /\ pc'[r] = "holdSwitch" /\ At(r)' = "holdSwitch"
          /\ \A q \in Requests \ {r} : pc'[q] = pc[q]
      BY <1>0, <1>2 DEF Goes, Moves, Critical, LockTypeOK, At
    <2>3. /\ SetStream(reply[r].id, cfgStream) \in Messages
          /\ Fits("holdSwitch", SetStream(reply[r].id, cfgStream))
      BY <1>0, <2>1, MessagesFacts, FitsFacts DEF Listing, Ducking
    <2>4. RpcTypeOK' /\ RpcInv'
      BY <1>0, <1>2, <2>2, <2>3, CallsLemma DEF Calling
    <2>5. HoldStep(r)
      BY <1>0, <1>1, <1>2, <2>1, <2>2, AnnAssumption DEF HoldStep, HoldTypeOK, HoldInv, HoldHasTimer, Listing
    <2> QED
      BY <1>0, <1>1, <2>2, <2>4, <2>5, StepLemma
  <1>3. CASE Finish(r)
    BY <1>0, <1>1, <1>3, FinishStep DEF HoldTypeOK, HoldInv, HoldHasTimer
  <1> QED
    BY <1>2, <1>3 DEF HoldListed

\* hold_group() after the switch: only a switch that succeeded is held.
LEMMA HoldDoneStep ==
    ASSUME ZoneInv, NEW r \in Requests, HoldDone(r)
    PROVE  ZoneInv'
  <1>0. /\ HoldTypeOK /\ OtherTypeOK /\ HoldInv
        /\ pc[r] \in Critical /\ net[r] \in {"ok", "err"} /\ Finish(r)
        /\ live[r] # Nil /\ live[r] # Ann
    BY TypeSplit DEF ZoneInv, HoldDone, Answered, Critical, HoldInv
  <1>1. UNCHANGED <<queue, kind, cfgStream>> /\ OtherTypeOK'
    BY <1>0 DEF HoldDone, cfgVars, snapVars, OtherTypeOK
  <1>2. /\ HoldHasTimer' /\ sticky' # Ann /\ sticky' \in Streams \cup {Nil}
        /\ timer' \in {"off", "sleeping", "due"}
    BY <1>0 DEF HoldDone, Arm, holdVars, HoldTypeOK, HoldInv, HoldHasTimer
  <1> QED
    BY <1>0, <1>1, <1>2, FinishStep

\* The end of release_group().
LEMMA RequestStep ==
    ASSUME ZoneInv, NEW r \in Requests, Step(r)
    PROVE  ZoneInv'
  BY VolumeDoneStep, ListedStep, SwitchDoneStep, PlayEndStep, RestoreDoneStep,
     HoldListedStep, HoldDoneStep DEF Step

\* Steps that leave the requests and the lock alone.
LEMMA OutsideLemma ==
    ASSUME ZoneInv, RpcTypeOK', RpcInv', OtherTypeOK', HoldTypeOK', HoldHasTimer', sticky' # Ann,
           UNCHANGED <<owner, queue, pc, kind, live>>,
           cfgStream' \in {cfgStream, Ann}
    PROVE  ZoneInv'
  <1>0. LockTypeOK /\ Serialised /\ HoldInv
    BY TypeSplit DEF ZoneInv
  <1>1. LockTypeOK' /\ Serialised'
    BY <1>0 DEF LockTypeOK, Serialised
  <1>2. HoldInv'
    BY <1>0 DEF HoldInv
  <1> QED
    BY <1>1, <1>2, TypeJoin DEF ZoneInv

\* The watchdog sleeps, defers, fires or ends.
LEMMA TimerStep ==
    ASSUME ZoneInv, Timer
    PROVE  ZoneInv'
  <1> USE NilIsNot
  <1>0. LockTypeOK /\ HoldTypeOK /\ OtherTypeOK /\ RpcTypeOK /\ HoldInv /\ RpcInv
    BY TypeSplit DEF ZoneInv
  <1>1. UNCHANGED <<owner, queue, pc, kind, live, cfgStream>> /\ OtherTypeOK'
    BY <1>0 DEF Timer, TimerExpires, WatchdogDefers, WatchdogFires, WatchdogDone,
                lockVars, reqVars, cfgVars, snapVars, OtherTypeOK
  <1>2. CASE TimerExpires \/ WatchdogDefers
    <2>1. UNCHANGED rpcVars /\ sticky' = sticky /\ timer # "off" /\ timer' \in {"due", "sleeping"}
      BY <1>2 DEF TimerExpires, WatchdogDefers, SleepsAgain
    <2>2. RpcTypeOK' /\ RpcInv'
      BY <1>0, <1>1, <2>1, NoCallLemma
    <2> QED
      BY <1>0, <1>1, <2>1, <2>2, OutsideLemma DEF HoldTypeOK, HoldInv, HoldHasTimer
  <1>3. CASE WatchdogFires
    <2>1. sticky \in Streams /\ sticky # Ann /\ cfgGroup \in Nat \cup {Nil} /\ At(Watchdog)' = "restore"
      BY <1>0, <1>3 DEF WatchdogFires, HoldTypeOK, HoldInv, HoldHasTimer, OtherTypeOK, At
    <2>2. SetStream(cfgGroup, sticky) \in Messages /\ Fits("restore", SetStream(cfgGroup, sticky))
      BY <2>1, MessagesFacts, FitsFacts DEF Listing
    <2>3. RpcTypeOK' /\ RpcInv'
      BY <1>0, <1>1, <1>3, <2>1, <2>2, CallsLemma DEF WatchdogFires
    <2> QED
      BY <1>0, <1>1, <1>3, <2>3, OutsideLemma DEF WatchdogFires, Disarm, HoldTypeOK, HoldHasTimer
  <1>4. CASE WatchdogDone
    <2>1. RpcTypeOK' /\ RpcInv' /\ UNCHANGED <<sticky, timer>>
      BY <1>0, <1>1, <1>4, HangsUpLemma DEF WatchdogDone, Answered, holdVars
    <2> QED
      BY <1>0, <1>1, <2>1, OutsideLemma DEF HoldTypeOK, HoldInv, HoldHasTimer
  <1> QED
    BY <1>2, <1>3, <1>4 DEF Timer

\* A scan starts, and relinks the zone when it ends.
LEMMA ScanStep ==
    ASSUME ZoneInv, ScanStarts \/ ScanDone
    PROVE  ZoneInv'
  <1> USE NilIsNot
  <1>0. LockTypeOK /\ HoldTypeOK /\ OtherTypeOK /\ RpcTypeOK /\ HoldInv /\ RpcInv
    BY TypeSplit DEF ZoneInv
  <1>1. UNCHANGED <<owner, queue, pc, kind, live, sticky, timer>>
    BY DEF ScanStarts, ScanDone, lockVars, reqVars, holdVars
  <1>2. CASE ScanStarts
    <2>1. RpcTypeOK' /\ RpcInv'
      BY <1>0, <1>1, <1>2, CallsLemma, MessagesFacts, FitsFacts DEF ScanStarts
    <2>2. OtherTypeOK' /\ UNCHANGED cfgStream
      BY <1>0, <1>1, <1>2 DEF ScanStarts, Spend, reqVars, cfgVars, snapVars, OtherTypeOK, Disturbances
    <2> QED
      BY <1>0, <1>1, <2>1, <2>2, OutsideLemma DEF HoldTypeOK, HoldInv, HoldHasTimer
  <1>3. CASE ScanDone
    <2>1. RpcTypeOK' /\ RpcInv'
      BY <1>0, <1>1, <1>3, HangsUpLemma DEF ScanDone, Answered
    <2>2. net[Scanner] = "ok" => reply[Scanner] \in Groups
      BY <1>0 DEF RpcInv, At, Listing
    <2>3. OtherTypeOK' /\ cfgStream' \in {cfgStream, Ann}
      BY <1>0, <1>1, <1>3, <2>2 DEF ScanDone, reqVars, snapVars, OtherTypeOK, Groups
    <2> QED
      BY <1>0, <1>1, <2>1, <2>3, OutsideLemma DEF HoldTypeOK, HoldInv, HoldHasTimer
  <1> QED
    BY <1>2, <1>3

\* A caller has reconnected and writes its call.
LEMMA DialStep ==
    ASSUME ZoneInv, NEW p \in Callers, Dial(p)
    PROVE  ZoneInv'
  <1> DEFINE e == [from |-> p, msg |-> dialing[p]]
  <1> USE NilIsNot
  <1>0. LockTypeOK /\ HoldTypeOK /\ OtherTypeOK /\ RpcTypeOK /\ HoldInv /\ RpcInv
    BY TypeSplit DEF ZoneInv
  <1>1. /\ UNCHANGED <<owner, queue, pc, kind, live, sticky, timer, cfgStream, reply>>
        /\ OtherTypeOK'
    BY <1>0 DEF Dial, lockVars, reqVars, holdVars, cfgVars, snapVars, OtherTypeOK
  <1>2. net[p] = "dial" /\ dialing[p] \in Messages /\ Fits(At(p), dialing[p])
    BY <1>0 DEF Dial, RpcInv
  <1>3. e \in Entries /\ e.from = p /\ e.msg = dialing[p]
    BY <1>2 DEF Entries
  <1>4. /\ \A q \in Callers \ {p} : net'[q] = net[q] /\ dialing'[q] = dialing[q]
        /\ net'[p] = "sent"
    BY <1>0 DEF Dial, RpcTypeOK
  <1>5. /\ wire' = Append(wire, e) /\ wire' \in Seq(Entries)
        /\ DOMAIN wire' = 1 .. Len(wire) + 1 /\ DOMAIN wire = 1 .. Len(wire)
        /\ Len(wire) \in Nat
        /\ \A i \in DOMAIN wire : wire'[i] = wire[i]
        /\ wire'[Len(wire) + 1] = e
    BY <1>0, <1>3, AppendFacts DEF Dial, RpcTypeOK
  <1>6. RpcTypeOK'
    BY <1>0, <1>1, <1>5 DEF Dial, RpcTypeOK
  <1>7. RpcInv'
    <2>1. \A q \in Callers : At(q)' = At(q)
      BY <1>1 DEF At
    <2>2. \A i \in DOMAIN wire : wire[i].from # p /\ wire[i].from \in Callers \cup {Nil}
      BY <1>0, <1>2, WireEntry DEF RpcInv
    <2>3. \A i \in DOMAIN wire' : i \in DOMAIN wire \/ i = Len(wire) + 1
      BY <1>5
    <2>4. \A r \in Requests : pc'[r] \in Calling <=> net'[r] # "idle"
      BY <1>0, <1>1, <1>2, <1>4 DEF RpcInv
    <2>5. \A q \in Callers : net'[q] = "dial" => dialing'[q] \in Messages /\ Fits(At(q)', dialing'[q])
      BY <1>0, <1>4, <2>1 DEF RpcInv
    <2>6. ASSUME NEW i \in DOMAIN wire', wire'[i].from # Nil
          PROVE  net'[wire'[i].from] = "sent" /\ Fits(At(wire[i].from)', wire'[i].msg)
      <3>1. CASE i \in DOMAIN wire
        BY <1>0, <2>6, <3>1, <1>1, <1>4, <1>5, <2>2 DEF RpcInv, At
      <3>2. CASE i = Len(wire) + 1
        BY <3>2, <1>1, <1>2, <1>3, <1>4, <1>5 DEF At
      <3> QED
        BY <2>3, <3>1, <3>2
    <2>7. ASSUME NEW i \in DOMAIN wire', NEW j \in DOMAIN wire',
                 wire'[i].from # Nil, wire'[i].from = wire'[j].from
          PROVE  i = j
      BY <1>0, <2>7, <1>3, <1>5, <2>2, <2>3 DEF RpcInv
    <2>8. \A q \in Callers : net'[q] = "ok" /\ At(q)' \in Listing => reply'[q] \in Groups
      BY <1>0, <1>1, <1>4, <2>1 DEF RpcInv
    <2> QED
      BY <2>4, <2>5, <2>6, <2>7, <2>8 DEF RpcInv
  <1> QED
    BY <1>0, <1>1, <1>6, <1>7, OutsideLemma DEF HoldTypeOK, HoldInv, HoldHasTimer

\* Snapserver runs the first call on the wire and answers it.
LEMMA ServeStep ==
    ASSUME ZoneInv, Serve
    PROVE  ZoneInv'
  <1> DEFINE m == Head(wire).msg
             p == Head(wire).from
  <1> USE NilIsNot
  <1>0. LockTypeOK /\ HoldTypeOK /\ OtherTypeOK /\ RpcTypeOK /\ HoldInv /\ RpcInv
    BY TypeSplit DEF ZoneInv
  <1>1. UNCHANGED <<owner, queue, pc, kind, live, sticky, timer, cfgStream, connected, dialing>>
    BY DEF Serve, lockVars, reqVars, holdVars, cfgVars
  <1>2. /\ Head(wire) \in Entries /\ 1 \in DOMAIN wire /\ Head(wire) = wire[1]
        /\ wire' = Tail(wire) /\ wire' \in Seq(Entries)
        /\ \A i \in DOMAIN wire' :
              i + 1 \in DOMAIN wire /\ wire'[i] = wire[i + 1] /\ i \in Nat /\ i >= 1
    BY <1>0, TailFacts DEF Serve, RpcTypeOK
  <1>3. m \in Messages /\ p \in Callers \cup {Nil}
    BY <1>2 DEF Entries
  <1>4. p # Nil => net[p] = "sent" /\ Fits(At(p), m)
    BY <1>0, <1>2 DEF RpcInv
  <1>5. group' \in Groups /\ snapVol' \in Volumes \cup {Nil}
    <2>1. m.op = "stream" => m.arg \in Streams \cup {Ann}
      BY <1>3 DEF Messages
    <2>2. m.op = "volume" => m.arg \in Volumes
      BY <1>3 DEF Messages
    <2>3. group' = group \/ (m.op = "stream" /\ group' = [group EXCEPT !.stream = m.arg])
      BY DEF Serve
    <2>4. snapVol' = snapVol \/ (m.op = "volume" /\ snapVol' = m.arg)
      BY DEF Serve
    <2> QED
      BY <1>0, <2>1, <2>2, <2>3, <2>4 DEF OtherTypeOK, Groups
  <1>6. OtherTypeOK'
    BY <1>0, <1>5 DEF Serve, OtherTypeOK, reqVars, cfgVars
  <1>7. /\ \A q \in Callers \ {p} : net'[q] = net[q] /\ reply'[q] = reply[q]
        /\ p # Nil => /\ net'[p] \in {"ok", "err"} /\ reply'[p] \in Groups \cup {Nil}
                      /\ m.op = "list" => reply'[p] \in Groups
    BY <1>0, <1>3 DEF Serve, RpcTypeOK, OtherTypeOK
  <1>8. RpcTypeOK'
    <2>1. net' \in [Callers -> {"idle", "dial", "sent", "ok", "err"}]
      BY <1>0 DEF Serve, RpcTypeOK
    <2>2. reply' \in [Callers -> Groups \cup {Nil}]
      <3> DEFINE answer == IF m.op = "list" THEN group ELSE Nil
      <3>1. answer \in Groups \cup {Nil}
        BY <1>0 DEF OtherTypeOK
      <3>2. reply' = reply \/ reply' = [reply EXCEPT ![p] = answer]
        BY DEF Serve
      <3>3. reply \in [Callers -> Groups \cup {Nil}]
        BY <1>0 DEF RpcTypeOK
      <3> HIDE DEF answer
      <3> QED
        BY <3>1, <3>2, <3>3
    <2> QED
      BY <1>0, <1>1, <1>2, <2>1, <2>2 DEF RpcTypeOK
  <1>9. RpcInv'
    <2>1. \A q \in Callers : At(q)' = At(q)
      BY <1>1 DEF At
    <2>2. \A i \in DOMAIN wire' : wire'[i].from # Nil => wire'[i].from # p /\ wire'[i].from \in Callers
      <3>1. ASSUME NEW i \in DOMAIN wire', wire'[i].from # Nil
            PROVE  wire'[i].from # p /\ wire'[i].from \in Callers
        <4>1. i + 1 \in DOMAIN wire /\ wire'[i] = wire[i + 1] /\ i + 1 # 1
          BY <1>2
        <4> QED
          BY <1>0, <1>2, <3>1, <4>1, WireEntry DEF RpcInv
      <3> QED
        BY <3>1
    <2>3. \A r \in Requests : pc'[r] \in Calling <=> net'[r] # "idle"
      BY <1>0, <1>1, <1>4, <1>7 DEF RpcInv
    <2>4. \A q \in Callers : net'[q] = "dial" => dialing'[q] \in Messages /\ Fits(At(q)', dialing'[q])
      BY <1>0, <1>1, <1>7, <2>1 DEF RpcInv
    <2>5. ASSUME NEW i \in DOMAIN wire', wire'[i].from # Nil
          PROVE  net'[wire'[i].from] = "sent" /\ Fits(At(wire[i].from)', wire'[i].msg)
      BY <1>0, <1>1, <1>2, <1>7, <2>2, <2>5 DEF RpcInv, At
    <2>6. ASSUME NEW i \in DOMAIN wire', NEW j \in DOMAIN wire',
                 wire'[i].from # Nil, wire'[i].from = wire'[j].from
          PROVE  i = j
      BY <1>0, <1>2, <2>6 DEF RpcInv
    <2>7. \A q \in Callers : net'[q] = "ok" /\ At(q)' \in Listing => reply'[q] \in Groups
      BY <1>0, <1>4, <1>7, <2>1 DEF RpcInv, Fits
    <2> QED
      BY <2>3, <2>4, <2>5, <2>6, <2>7 DEF RpcInv
  <1> QED
    BY <1>0, <1>1, <1>6, <1>8, <1>9, OutsideLemma DEF HoldTypeOK, HoldInv, HoldHasTimer

\* Users and toggles change the group, the volume or the settings, never a call.
LEMMA WorldStep ==
    ASSUME ZoneInv, Toggle \/ ClientJoins \/ UserActs \/ \E v \in Volumes : UserSetsVolume(v)
    PROVE  ZoneInv'
  <1> USE NilIsNot
  <1>0. LockTypeOK /\ HoldTypeOK /\ OtherTypeOK /\ RpcTypeOK /\ HoldInv /\ RpcInv
    BY TypeSplit DEF ZoneInv
  <1>1. UNCHANGED <<owner, queue, pc, kind, live, sticky, timer, cfgStream, rpcVars>>
    BY DEF Toggle, ClientJoins, UserActs, UserSetsVolume, lockVars, reqVars, holdVars, cfgVars
  <1>2. RpcTypeOK' /\ RpcInv'
    BY <1>0, <1>1, NoCallLemma
  <1>3. OtherTypeOK'
    <2>1. CASE Toggle
      BY <1>0, <2>1 DEF Toggle, Spend, OtherTypeOK, reqVars, snapVars, Disturbances
    <2>2. CASE ClientJoins
      BY <1>0, <2>2 DEF ClientJoins, OtherTypeOK, reqVars, cfgVars, Groups
    <2>3. CASE UserActs
      BY <1>0, <2>3 DEF UserActs, Spend, OtherTypeOK, reqVars, cfgVars, Groups, Disturbances
    <2>4. CASE \E v \in Volumes : UserSetsVolume(v)
      BY <1>0, <2>4 DEF UserSetsVolume, Spend, OtherTypeOK, reqVars, cfgVars, Disturbances
    <2> QED
      BY <2>1, <2>2, <2>3, <2>4
  <1> QED
    BY <1>0, <1>1, <1>2, <1>3, OutsideLemma DEF HoldTypeOK, HoldInv, HoldHasTimer

\* A call fails; snapserver may still run it.
LEMMA CallFailsStep ==
    ASSUME ZoneInv, NEW p \in Callers, CallFails(p)
    PROVE  ZoneInv'
  <1> USE NilIsNot
  <1>0. LockTypeOK /\ HoldTypeOK /\ OtherTypeOK /\ RpcTypeOK /\ HoldInv /\ RpcInv
    BY TypeSplit DEF ZoneInv
  <1>1. UNCHANGED <<owner, queue, pc, kind, live, sticky, timer, cfgStream, connected>>
    BY DEF CallFails, lockVars, reqVars, holdVars, cfgVars
  <1>2. OtherTypeOK'
    BY <1>0 DEF CallFails, Spend, OtherTypeOK, reqVars, cfgVars, snapVars, Disturbances
  <1>3. /\ \A q \in Callers \ {p} : /\ net'[q] = net[q] /\ dialing'[q] = dialing[q]
                                    /\ reply'[q] = reply[q]
        /\ net'[p] = "err" /\ net[p] # "idle"
    BY <1>0 DEF CallFails, RpcTypeOK
  <1>4. /\ wire' = Abandon(wire, {p}) /\ wire' \in Seq(Entries) /\ DOMAIN wire' = DOMAIN wire
        /\ \A i \in DOMAIN wire :
              /\ wire'[i].msg = wire[i].msg
              /\ wire'[i].from = IF wire[i].from \in {p} THEN Nil ELSE wire[i].from
    BY <1>0, AbandonFacts DEF CallFails, RpcTypeOK
  <1>5. RpcTypeOK'
    BY <1>0, <1>1, <1>4 DEF CallFails, RpcTypeOK
  <1>6. RpcInv'
    <2>1. \A q \in Callers : At(q)' = At(q)
      BY <1>1 DEF At
    <2>2. \A i \in DOMAIN wire' : wire'[i].from # Nil =>
             wire'[i].from = wire[i].from /\ wire[i].from # p /\ wire[i].from \in Callers
      BY <1>0, <1>4, WireEntry
    <2>3. \A r \in Requests : pc'[r] \in Calling <=> net'[r] # "idle"
      BY <1>0, <1>1, <1>3 DEF RpcInv
    <2>4. \A q \in Callers : net'[q] = "dial" => dialing'[q] \in Messages /\ Fits(At(q)', dialing'[q])
      BY <1>0, <1>3, <2>1 DEF RpcInv
    <2>5. ASSUME NEW i \in DOMAIN wire', wire'[i].from # Nil
          PROVE  net'[wire'[i].from] = "sent" /\ Fits(At(wire[i].from)', wire'[i].msg)
      <3>1. /\ i \in DOMAIN wire /\ wire'[i].from = wire[i].from /\ wire'[i].msg = wire[i].msg
            /\ wire[i].from \in Callers \ {p}
        BY <1>4, <2>2, <2>5
      <3>2. net[wire[i].from] = "sent" /\ Fits(At(wire[i].from), wire[i].msg)
        BY <1>0, <3>1 DEF RpcInv
      <3> QED
        BY <1>1, <1>3, <3>1, <3>2 DEF At
    <2>6. ASSUME NEW i \in DOMAIN wire', NEW j \in DOMAIN wire',
                 wire'[i].from # Nil, wire'[i].from = wire'[j].from
          PROVE  i = j
      BY <1>0, <1>4, <2>2, <2>6 DEF RpcInv
    <2>7. \A q \in Callers : net'[q] = "ok" /\ At(q)' \in Listing => reply'[q] \in Groups
      BY <1>0, <1>3, <2>1 DEF RpcInv
    <2> QED
      BY <2>3, <2>4, <2>5, <2>6, <2>7 DEF RpcInv
  <1> QED
    BY <1>0, <1>1, <1>2, <1>5, <1>6, OutsideLemma DEF HoldTypeOK, HoldInv, HoldHasTimer

\* The connection is lost, alone or with snapserver.
LEMMA LoseConnectionStep ==
    ASSUME ZoneInv, Drop \/ SnapserverRestarts
    PROVE  ZoneInv'
  <1> USE NilIsNot
  <1>0. LockTypeOK /\ HoldTypeOK /\ OtherTypeOK /\ RpcTypeOK /\ HoldInv /\ RpcInv
    BY TypeSplit DEF ZoneInv
  <1>1. UNCHANGED <<owner, queue, pc, kind, live, sticky, timer, cfgStream, dialing>>
    BY DEF Drop, SnapserverRestarts, LoseConnection, lockVars, reqVars, holdVars, cfgVars
  <1>2. OtherTypeOK'
    <2>1. CASE Drop
      BY <1>0, <2>1 DEF Drop, Spend, OtherTypeOK, reqVars, cfgVars, snapVars, Disturbances
    <2>2. CASE SnapserverRestarts
      BY <1>0, <2>2 DEF SnapserverRestarts, Spend, OtherTypeOK, reqVars, cfgVars, Groups, Disturbances
    <2> QED
      BY <2>1, <2>2
  <1>3. LoseConnection
    BY DEF Drop, SnapserverRestarts
  <1>4. wire' = <<>> /\ wire' \in Seq(Entries) /\ DOMAIN wire' = {}
    <2>1. wire' = <<>>
      BY <1>3 DEF LoseConnection
    <2> QED
      BY <2>1, EmptySeq
  <1>5. \A q \in Callers : /\ net'[q] = IF net[q] \in {"sent", "ok"} THEN "err" ELSE net[q]
                           /\ reply'[q] = Nil
    BY <1>3 DEF LoseConnection
  <1>6. RpcTypeOK'
    BY <1>0, <1>1, <1>3, <1>4 DEF LoseConnection, RpcTypeOK
  <1>7. RpcInv'
    <2>1. \A q \in Callers : At(q)' = At(q)
      BY <1>1 DEF At
    <2>2. \A r \in Requests : pc'[r] \in Calling <=> net'[r] # "idle"
      BY <1>0, <1>1, <1>5 DEF RpcInv
    <2>3. \A q \in Callers : net'[q] = "dial" => dialing'[q] \in Messages /\ Fits(At(q)', dialing'[q])
      BY <1>0, <1>1, <1>5, <2>1 DEF RpcInv
    <2>4. \A q \in Callers : net'[q] # "ok"
      BY <1>5
    <2> QED
      BY <1>4, <2>2, <2>3, <2>4 DEF RpcInv
  <1> QED
    BY <1>0, <1>1, <1>2, <1>6, <1>7, OutsideLemma DEF HoldTypeOK, HoldInv, HoldHasTimer

\* The add-on restarts.
LEMMA CrashStep ==
    ASSUME ZoneInv, Crash
    PROVE  ZoneInv'
  <1> USE NilIsNot
  <1>0. LockTypeOK /\ HoldTypeOK /\ OtherTypeOK /\ RpcTypeOK /\ HoldInv /\ RpcInv
    BY TypeSplit DEF ZoneInv
  <1>1. /\ owner' = Nil /\ queue' = <<>> /\ UNCHANGED <<kind, cfgStream>>
        /\ pc' = [r \in Requests |->
                     IF pc[r] \in Critical \cup {"queued"} THEN "aborted" ELSE pc[r]]
        /\ live' = [r \in Requests |-> Nil]
    BY DEF Crash, cfgVars
  <1>2. queue' \in Seq(Requests) /\ DOMAIN queue' = {}
    BY <1>1, EmptySeq
  <1>3. pc \in [Requests -> PCs] /\ pc' \in [Requests -> PCs]
    BY <1>0, <1>1 DEF LockTypeOK, PCs
  <1>4. \A r \in Requests : pc'[r] \notin Critical \cup {"queued"}
    BY <1>1 DEF Critical
  <1>5. LockTypeOK' /\ Serialised'
    BY <1>0, <1>1, <1>2, <1>3, <1>4 DEF LockTypeOK, Serialised
  <1>6. HoldTypeOK' /\ HoldInv'
    <2>1. sticky' = Nil /\ timer' = "off"
      BY DEF Crash, Disarm
    <2> QED
      BY <1>0, <1>1, <1>4, <2>1 DEF HoldTypeOK, HoldInv, HoldHasTimer, Critical
  <1>7. OtherTypeOK'
    BY <1>0 DEF Crash, Spend, OtherTypeOK, cfgVars, snapVars, Disturbances
  <1>8. /\ wire' \in Seq(Entries)
        /\ \A i \in DOMAIN wire' : wire'[i].from = Nil
    <2>1. CASE wire' = <<>>
      BY <2>1, EmptySeq
    <2>2. CASE wire' = Abandon(wire, Callers)
      BY <1>0, <2>2, AbandonFacts, WireEntry DEF RpcTypeOK
    <2> QED
      BY <2>1, <2>2 DEF Crash
  <1>9. RpcTypeOK' /\ RpcInv'
    <2>1. /\ net' = [p \in Callers |-> "idle"] /\ dialing' = [p \in Callers |-> Nil]
          /\ reply' = [p \in Callers |-> Nil] /\ connected' \in BOOLEAN
      BY DEF Crash
    <2>2. RpcTypeOK'
      BY <1>8, <2>1 DEF RpcTypeOK
    <2>3. \A r \in Requests : pc'[r] \notin Calling
      BY <1>4 DEF Calling, Critical
    <2> QED
      BY <1>8, <2>1, <2>2, <2>3 DEF RpcInv
  <1> QED
    BY <1>5, <1>6, <1>7, <1>9, TypeJoin DEF ZoneInv

\* The invariant holds at first.
LEMMA InitLemma ==
    Init => ZoneInv
  <1> USE NilIsNot
  <1> SUFFICES ASSUME Init PROVE ZoneInv
    OBVIOUS
  <1>1. /\ queue = <<>> /\ queue \in Seq(Requests) /\ DOMAIN queue = {}
        /\ wire = <<>> /\ wire \in Seq(Entries) /\ DOMAIN wire = {}
    BY EmptySeq DEF Init
  <1>2. LockTypeOK /\ Serialised
    BY <1>1 DEF Init, LockTypeOK, Serialised, PCs, Critical
  <1>3. HoldTypeOK /\ HoldInv
    BY DEF Init, HoldTypeOK, HoldInv, HoldHasTimer
  <1>4. OtherTypeOK
    BY BudgetAssumption DEF Init, OtherTypeOK, Groups
  <1>5. RpcTypeOK /\ RpcInv
    BY <1>1 DEF Init, RpcTypeOK, RpcInv, Calling
  <1> QED
    BY <1>2, <1>3, <1>4, <1>5, TypeSplit DEF ZoneInv

\* It does not depend on anything but the variables.
LEMMA StutterLemma ==
    ASSUME ZoneInv, UNCHANGED vars
    PROVE  ZoneInv'
  BY DEF vars, lockVars, reqVars, holdVars, cfgVars, rpcVars, snapVars,
         ZoneInv, TypeOK, Serialised, RpcInv, HoldInv, HoldHasTimer, At

\* Every step preserves it.
LEMMA NextLemma ==
    ASSUME ZoneInv, [Next]_vars
    PROVE  ZoneInv'
  <1>1. CASE \E r \in Requests, k \in Kinds, v \in Volumes \cup {Nil} : Arrive(r, k, v)
    BY <1>1, ArriveStep
  <1>2. CASE Grant
    BY <1>2, GrantStep
  <1>3. CASE \E r \in Requests : Step(r)
    BY <1>3, RequestStep
  <1>4. CASE Timer
    BY <1>4, TimerStep
  <1>5. CASE \E p \in Callers : Dial(p)
    BY <1>5, DialStep
  <1>6. CASE Serve
    BY <1>6, ServeStep
  <1>7. CASE ScanDone
    BY <1>7, ScanStep
  <1>8. CASE ClientJoins
    BY <1>8, WorldStep
  <1>9. CASE Disturb
    BY <1>9, WorldStep, ScanStep, CallFailsStep, LoseConnectionStep, CrashStep DEF Disturb
  <1>10. CASE Rest \/ UNCHANGED vars
    BY <1>10, StutterLemma DEF Rest
  <1> QED
    BY <1>1, <1>2, <1>3, <1>4, <1>5, <1>6, <1>7, <1>8, <1>9, <1>10 DEF Next

\* The inductive invariant, for any requests, streams, volumes and any number of
\* disturbances: every call on the wire belongs to the one request that waits for
\* it, and whoever is about to restore knows where to (streamer.py:400-599).
THEOREM Invariance == Spec => []ZoneInv
  <1>1. Init => ZoneInv
    BY InitLemma
  <1>2. ZoneInv /\ [Next]_vars => ZoneInv'
    BY NextLemma
  <1> QED
    BY <1>1, <1>2, PTL DEF Spec

\* Every variable keeps its type (the dictionaries of streamer.py:50-79, the group
\* and calls of snapcast.py).
THEOREM Typing == Spec => []TypeOK
  <1>1. ZoneInv => TypeOK
    BY DEF ZoneInv
  <1> QED
    BY <1>1, Invariance, PTL

\* The per-client lock serialises announce(), hold_group() and release_group(),
\* and no waiter is lost, whatever fails (streamer.py:66-79).
THEOREM Exclusion == Spec => []Serialised
  <1>1. ZoneInv => Serialised
    BY DEF ZoneInv
  <1> QED
    BY <1>1, Invariance, PTL

\* "The watchdog is not optional" (streamer.py:268): there is a hold exactly while
\* there is a timer that will end it.
THEOREM HoldsAreTimed == Spec => []HoldHasTimer
  <1>1. ZoneInv => HoldHasTimer
    BY DEF ZoneInv, HoldInv
  <1> QED
    BY <1>1, Invariance, PTL

\* Nothing ever goes back to the announcement stream: not a hold, not an answer's
\* restore, not the watchdog (streamer.py:471-475).
THEOREM NothingHomesToAnn == Spec => []NeverHomesToAnn
  <1>1. ZoneInv => NeverHomesToAnn
    <2> SUFFICES ASSUME ZoneInv PROVE NeverHomesToAnn
      OBVIOUS
    <2>1. sticky # Ann /\ \A r \in Requests : live[r] # Ann
      BY DEF ZoneInv, HoldInv
    <2>2. ASSUME NEW i \in DOMAIN wire, wire[i].msg.op = "stream", wire[i].msg.arg = Ann,
                 wire[i].from # Nil
          PROVE  wire[i].from \in Requests /\ pc[wire[i].from] \in {"switch", "holdSwitch"}
      <3>1. wire[i].from \in Callers
        BY <2>2, WireEntry, TypeSplit DEF ZoneInv, RpcTypeOK
      <3>2. Fits(At(wire[i].from), wire[i].msg)
        BY <2>2 DEF ZoneInv, RpcInv
      <3>3. At(wire[i].from) \in {"switch", "holdSwitch"}
        BY <2>2, <3>2 DEF Fits, Ducking
      <3> QED
        BY <3>1, <3>3 DEF At
    <2> QED
      BY <2>1, <2>2 DEF NeverHomesToAnn
  <1> QED
    BY <1>1, Invariance, PTL

-----------------------------------------------------------------------------
(***************************************************************************)
(* The rest is about times in which calls are answered, nobody else        *)
(* touches the group and neither the add-on nor the snapserver stops:      *)
(* from any state of rest on (AtRest), QuietInv is inductive for as long   *)
(* as every step is calm (Calmly), for any number of requests, scans,      *)
(* toggles and volume changes.  It rests on ZoneInv in both states of a    *)
(* step.  As above, a lemma says what each building block of an action     *)
(* does, then there is a lemma for each action, and QuietNext collects     *)
(* them.  The same is done for the volume (VolumeInv) and, at the end, for *)
(* the refinement of module DuckingPromise (HomeInv).                      *)
(*                                                                         *)
(* The theorems have the form Spec => [](AtRest /\ [][Calmly]_vars => ...):*)
(* whatever has happened before, once the zone is at rest, and calm from   *)
(* there on.  A calm while is enough: it can be continued by stuttering.   *)
(***************************************************************************)

\* Somebody owes the group the way back, by a hold, by a request or by a call.
Owing ==
    \/ sticky # Nil /\ timer # "off"
    \/ \E r \in Requests : live[r] # Nil /\ pc[r] \in {"switch", "holdSwitch", "play"}
    \/ \E i \in DOMAIN wire : wire[i].msg.op = "stream" /\ wire[i].msg.arg # Ann

\* No call is kept back for a reconnect.
LEMMA StrandSplit ==
    ASSUME Answering
    PROVE  NoStrand <=> (group.stream = Ann => Owing)
  BY DEF Answering, NoStrand, Owing, RestorePending

WatchdogPending == \E i \in DOMAIN wire : wire[i].from = Watchdog

\* What caller p does to the wire in a step of its own: the calls there stay,
\* and any new one is its own and behind them.
Sends(p) ==
    /\ \A i \in DOMAIN wire : i \in DOMAIN wire' /\ wire'[i] = wire[i]
    /\ \A i \in DOMAIN wire' : i \in DOMAIN wire \/ wire'[i].from = p
    /\ \A i \in DOMAIN wire, j \in DOMAIN wire' : j \in DOMAIN wire \/ j > i

\* A call is sent at once and keeps the wire in order.
LEMMA QuietCall ==
    ASSUME RpcTypeOK, RpcInv, Answering, WireInv,
           NEW p \in Callers, NEW m \in Messages, net[p] # "sent",
           Calls(p, m), Says(At(p)', m),
           m.op = "stream" => m.gid = group.id /\ cfgGroup' = group.id /\ cfgStream = Ann,
           group'.id = group.id, cfgStream' = cfgStream, cfgGroup' \in {cfgGroup, group.id},
           \A q \in Requests \ {p} : pc'[q] = pc[q]
    PROVE  /\ Answering' /\ WireInv' /\ Sends(p) /\ net'[p] = "sent"
           /\ \E j \in DOMAIN wire' : j \notin DOMAIN wire /\ wire'[j].from = p /\ wire'[j].msg = m
  <1> DEFINE e == [from |-> p, msg |-> m]
  <1> USE NilIsNot
  <1>1. e \in Entries /\ e.from = p /\ e.msg = m
    BY DEF Entries
  <1>2. wire' = Append(wire, e) /\ UNCHANGED <<connected, dialing>>
    BY DEF Calls, Answering
  <1>3. /\ DOMAIN wire' = 1 .. Len(wire) + 1 /\ DOMAIN wire = 1 .. Len(wire)
        /\ Len(wire) \in Nat
        /\ \A i \in DOMAIN wire : wire'[i] = wire[i]
        /\ wire'[Len(wire) + 1] = e
    BY <1>1, <1>2, AppendFacts DEF RpcTypeOK
  <1>4. Sends(p)
    BY <1>1, <1>3 DEF Sends
  <1>5. \E j \in DOMAIN wire' : j \notin DOMAIN wire /\ wire'[j].from = p /\ wire'[j].msg = m
    BY <1>1, <1>3
  <1>6. /\ net'[p] = "sent"
        /\ \A q \in Callers \ {p} : net'[q] = net[q] /\ reply'[q] = reply[q] /\ At(q)' = At(q)
    BY AtStays DEF Calls, Answering, RpcTypeOK
  <1>7. Answering'
    BY <1>2, <1>6 DEF Answering
  <1>8. ASSUME NEW i \in DOMAIN wire'
        PROVE  /\ wire'[i].from # Nil
               /\ wire'[i].msg.op = "stream" =>
                     wire'[i].msg.gid = group'.id /\ cfgGroup' = group'.id /\ cfgStream' = Ann
               /\ Says(At(wire[i].from)', wire'[i].msg)
    <2>1. CASE i \in DOMAIN wire
      <3>1. wire[i].from # p /\ wire[i].from \in Callers
        BY <2>1, WireEntry DEF RpcInv, WireInv
      <3>2. At(wire[i].from)' = At(wire[i].from)
        BY <2>1, <3>1, <1>3 DEF At
      <3> QED
        BY <2>1, <3>2, <1>3 DEF WireInv
    <2>2. CASE i = Len(wire) + 1
      BY <2>2, <1>1, <1>3 DEF At
    <2> QED
      BY <1>3, <2>1, <2>2
  <1> QED
    BY <1>4, <1>5, <1>6, <1>7, <1>8 DEF WireInv

\* A caller that has its answer takes nothing from the wire.
LEMMA QuietHangUp ==
    ASSUME RpcTypeOK, RpcInv, Answering, WireInv,
           NEW p \in Callers, net[p] # "sent",
           HangsUp(p), group'.id = group.id,
           cfgStream' \in {cfgStream, Ann}, cfgGroup' \in {cfgGroup, group.id},
           \A q \in Requests \ {p} : pc'[q] = pc[q]
    PROVE  Answering' /\ WireInv' /\ Sends(p) /\ net'[p] = "idle" /\ wire' = wire
  <1> USE NilIsNot
  <1>1. UNCHANGED <<connected, dialing, wire>>
    BY DEF HangsUp
  <1>2. Sends(p)
    BY <1>1 DEF Sends
  <1>3. /\ net'[p] = "idle"
        /\ \A q \in Callers \ {p} : net'[q] = net[q] /\ reply'[q] = reply[q] /\ At(q)' = At(q)
    BY AtStays DEF HangsUp, RpcTypeOK
  <1>4. Answering'
    BY <1>1, <1>3 DEF Answering
  <1>5. ASSUME NEW i \in DOMAIN wire
        PROVE  wire[i].from # p /\ wire[i].from \in Callers /\ At(wire[i].from)' = At(wire[i].from)
    <2>1. wire[i].from # p /\ wire[i].from \in Callers
      BY WireEntry DEF RpcInv, WireInv
    <2> QED
      BY <2>1, <1>1 DEF At
  <1>6. WireInv'
    BY <1>1, <1>5 DEF WireInv
  <1> QED
    BY <1>1, <1>2, <1>3, <1>4, <1>6

\* What the watchdog's restore on the wire says of everybody else.
LEMMA PendingFacts ==
    ASSUME QuietInv, WatchdogPending
    PROVE  /\ sticky = Nil /\ cfgStream = Ann /\ cfgGroup = group.id
           /\ \A r \in Requests :
                 /\ pc[r] \notin {"switch", "holdSwitch", "play", "restore", "release"}
                 /\ pc[r] \in Listing => net[r] = "sent"
  <1>1. PICK i \in DOMAIN wire : wire[i].from = Watchdog
    BY DEF WatchdogPending
  <1>2. wire[i].msg.op = "stream"
    BY <1>1, CallersAssumption DEF QuietInv, WireInv, Says, At
  <1>3. cfgGroup = group.id
    BY <1>2 DEF QuietInv, WireInv
  <1> QED
    BY <1>1, <1>3, NilIsNot DEF QuietInv, RestoreFirst, ZoneInv, RpcInv

-----------------------------------------------------------------------------
(* Steps of a request under the lock.                                      *)

\* What request r knows where it stands, in the next state.
Knows(r) ==
    /\ pc'[r] \in Listing /\ net'[r] = "ok" => reply'[r].stream = group'.stream
    /\ pc'[r] = "play" /\ live'[r] = Nil => group'.stream # Ann
    /\ pc'[r] \in {"restore", "release"} => sticky' = Nil
    /\ pc'[r] \in {"restore", "release"} /\ net'[r] = "ok" => group'.stream # Ann
    /\ pc'[r] \in {"volume", "list", "switch", "play", "restore"} => kind'[r] \in {"answer", "chime"}

\* What is left to show for such a step.
LEMMA QuietStep ==
    ASSUME QuietInv, ZoneInv', NEW r \in Requests, owner \in {r, Nil}, Moves(r),
           Answering', WireInv', Sends(r),
           UNCHANGED <<group, cfgStream>>, cfgGroup' \in {cfgGroup, group.id},
           \A q \in Requests \ {r} : live'[q] = live[q],
           sticky' # Nil \/ live'[r] # Nil => cfgStream = Ann /\ cfgGroup' = group.id,
           sticky # Nil => Owing',
           live[r] # Nil /\ pc[r] \in {"switch", "holdSwitch", "play"} => Owing',
           WatchdogPending =>
              /\ sticky' = Nil
              /\ pc'[r] \notin {"switch", "holdSwitch", "play", "restore", "release"}
              /\ pc'[r] \in Listing =>
                    \E j \in DOMAIN wire' : j \notin DOMAIN wire /\ wire'[j].from = r,
           Knows(r)
    PROVE  QuietInv'
  <1> USE NilIsNot
  <1>1. group'.at = "joined"
    BY DEF QuietInv
  <1>2. LinkedToDuck'
    BY DEF QuietInv, LinkedToDuck, Ducked
  <1>3. \A q \in Requests \ {r} : pc'[q] = pc[q] /\ pc'[q] \notin Critical
    <2>1. owner' \in {r, Nil} /\ \A q \in Requests \ {r} : pc'[q] = pc[q]
      BY TypeSplit DEF Moves, QuietInv, ZoneInv, LockTypeOK
    <2> QED
      BY <2>1 DEF ZoneInv, Serialised
  <1>4. NoStrand'
    <2>1. group.stream = Ann => Owing
      BY StrandSplit DEF QuietInv
    <2>2. ASSUME NEW q \in Requests \ {r}, live[q] # Nil, pc[q] \in {"switch", "holdSwitch", "play"}
          PROVE  Owing'
      BY <2>2, <1>3 DEF Critical
    <2>3. ASSUME NEW i \in DOMAIN wire, wire[i].msg.op = "stream", wire[i].msg.arg # Ann
          PROVE  Owing'
      BY <2>3 DEF Sends, Owing
    <2>4. group'.stream = Ann => Owing'
      BY <2>1, <2>2, <2>3 DEF Owing
    <2> QED
      BY <2>4 DEF Answering, NoStrand, Owing, RestorePending
  <1>5. RestoreFirst'
    <2> SUFFICES ASSUME NEW i \in DOMAIN wire', wire'[i].from = Watchdog
                 PROVE  /\ sticky' = Nil /\ cfgStream' = Ann
                        /\ \A q \in Requests :
                              /\ pc'[q] \notin {"switch", "holdSwitch", "play", "restore", "release"}
                              /\ pc'[q] \in Listing =>
                                    \E j \in DOMAIN wire' : j > i /\ wire'[j].from = q
      BY DEF RestoreFirst
    <2>1. i \in DOMAIN wire /\ wire[i].from = Watchdog /\ WatchdogPending
      BY DEF Sends, WatchdogPending
    <2>2. ASSUME NEW q \in Requests \ {r}
          PROVE  /\ pc'[q] \notin {"switch", "holdSwitch", "play", "restore", "release"}
                 /\ pc'[q] \notin Listing
      BY <1>3 DEF Critical, Listing
    <2>3. pc'[r] \in Listing => \E j \in DOMAIN wire' : j > i /\ wire'[j].from = r
      BY <2>1 DEF Sends
    <2> QED
      BY <2>1, <2>2, <2>3, PendingFacts
  <1>6. KnowsGroup'
    BY <1>3 DEF KnowsGroup, Knows, Listing, Critical
  <1> QED
    BY <1>1, <1>2, <1>4, <1>5, <1>6 DEF QuietInv

\* A request that finishes, having kept or handed on what it owed.
LEMMA QuietFinish ==
    ASSUME QuietInv, ZoneInv', NEW r \in Requests, owner \in {r, Nil}, net[r] # "sent",
           Finish(r), UNCHANGED <<group, cfgStream>>, cfgGroup' \in {cfgGroup, group.id},
           sticky' # Nil => cfgStream = Ann /\ cfgGroup' = group.id,
           sticky # Nil \/ (live[r] # Nil /\ pc[r] \in {"switch", "holdSwitch", "play"})
              => sticky' # Nil,
           WatchdogPending => sticky' = Nil
    PROVE  QuietInv'
  <1> USE NilIsNot
  <1>0. RpcTypeOK /\ RpcInv /\ Answering /\ WireInv /\ HoldTypeOK /\ LockTypeOK
    BY TypeSplit DEF QuietInv, ZoneInv
  <1>1. /\ HangsUp(r) /\ owner' = Nil /\ pc' = [pc EXCEPT ![r] = "done"]
        /\ live' = [live EXCEPT ![r] = Nil]
    BY DEF Finish, Unlocks
  <1>2. pc'[r] = "done" /\ \A q \in Requests \ {r} : pc'[q] = pc[q]
    BY <1>0, <1>1 DEF LockTypeOK
  <1>3. live'[r] = Nil /\ \A q \in Requests \ {r} : live'[q] = live[q]
    BY <1>0, <1>1 DEF HoldTypeOK
  <1>4. Answering' /\ WireInv' /\ Sends(r)
    BY <1>0, <1>1, <1>2, QuietHangUp
  <1>5. sticky' # Nil => Owing'
    BY DEF Owing, ZoneInv, HoldInv, HoldHasTimer
  <1>6. Moves(r) /\ Knows(r)
    BY <1>1, <1>2 DEF Moves, Knows, Listing
  <1> QED
    BY <1>2, <1>3, <1>4, <1>5, <1>6, QuietStep DEF Listing

\* A zone that is not linked is on a live stream.
LEMMA UnlinkedPlays ==
    ASSUME QuietInv, ~Linked
    PROVE  sticky = Nil /\ (\A r \in Requests : live[r] = Nil) /\ group.stream # Ann
  <1>1. ~(cfgStream = Ann /\ cfgGroup = group.id)
    BY NilIsNot, TypeSplit DEF QuietInv, ZoneInv, OtherTypeOK, Groups, Linked
  <1>2. sticky = Nil /\ \A r \in Requests : live[r] = Nil
    BY <1>1 DEF QuietInv, LinkedToDuck, Ducked
  <1>3. ~Owing
    BY <1>1, <1>2, NilIsNot DEF Owing, QuietInv, WireInv
  <1> QED
    BY <1>2, <1>3, StrandSplit DEF QuietInv

\* Asking for the groups, or playing at once in an unlinked zone.
LEMMA QuietStartSwitch ==
    ASSUME QuietInv, ZoneInv', NEW r \in Requests, owner \in {r, Nil}, net[r] # "sent",
           pc[r] \in {"new", "queued", "volume"}, StartSwitch(r),
           UNCHANGED <<group, cfgGroup, cfgStream, live, sticky, timer>>,
           kind'[r] \in {"answer", "chime"}
    PROVE  QuietInv'
  <1> USE NilIsNot
  <1>0. RpcTypeOK /\ RpcInv /\ Answering /\ WireInv /\ LockTypeOK
    BY TypeSplit DEF QuietInv, ZoneInv
  <1>1. sticky' # Nil \/ live'[r] # Nil => cfgStream = Ann /\ cfgGroup' = group.id
    BY DEF QuietInv, LinkedToDuck, Ducked
  <1>2. sticky # Nil => Owing'
    BY DEF Owing, QuietInv, ZoneInv, HoldInv, HoldHasTimer
  <1>3. CASE Linked /\ Goes(r, "list") /\ Calls(r, ListGroups)
    <2>1. Moves(r) /\ pc'[r] = "list" /\ \A q \in Requests \ {r} : pc'[q] = pc[q]
      BY <1>0, <1>3 DEF Goes, Moves, Critical, LockTypeOK
    <2>2. /\ ListGroups \in Messages /\ ListGroups.op = "list"
          /\ Says(At(r)', ListGroups)
      BY <2>1, MessagesFacts DEF Says, At, Ducking
    <2>3. /\ Answering' /\ WireInv' /\ Sends(r) /\ net'[r] = "sent"
          /\ \E j \in DOMAIN wire' : j \notin DOMAIN wire /\ wire'[j].from = r
      BY <1>0, <1>3, <2>1, <2>2, QuietCall
    <2>4. Knows(r)
      BY <2>1, <2>3 DEF Knows
    <2> QED
      BY <1>1, <1>2, <2>1, <2>3, <2>4, PendingFacts, QuietStep
  <1>4. CASE ~Linked /\ Goes(r, "play") /\ HangsUp(r)
    <2>1. Moves(r) /\ pc'[r] = "play" /\ \A q \in Requests \ {r} : pc'[q] = pc[q]
      BY <1>0, <1>4 DEF Goes, Moves, Critical, LockTypeOK
    <2>2. Answering' /\ WireInv' /\ Sends(r) /\ net'[r] = "idle"
      BY <1>0, <1>4, <2>1, QuietHangUp
    <2>3. Knows(r)
      BY <1>4, <2>1, UnlinkedPlays DEF Knows, Listing
    <2>4. ~WatchdogPending
      <3>1. group.id # Nil /\ Ann # Nil
        BY NilIsNot, TypeSplit DEF QuietInv, ZoneInv, OtherTypeOK, Groups
      <3> QED
        BY <1>4, <3>1, PendingFacts DEF Linked
    <2> QED
      BY <1>1, <1>2, <2>1, <2>2, <2>3, <2>4, QuietStep
  <1> QED
    BY <1>3, <1>4 DEF StartSwitch

\* Whoever is let in starts with a call behind those of others, or leaves.
LEMMA QuietBegin ==
    ASSUME QuietInv, ZoneInv', NEW r \in Requests, NEW k \in Kinds, NEW v \in Volumes \cup {Nil},
           owner = Nil, pc[r] \in {"new", "queued"}, Begin(r, k, v), kind'[r] = k,
           k = "hold" => cfgStream = Ann,
           UNCHANGED <<group, cfgGroup, cfgStream>>
    PROVE  QuietInv'
  <1> USE NilIsNot
  <1>0. /\ RpcTypeOK /\ RpcInv /\ Answering /\ WireInv /\ LockTypeOK /\ HoldTypeOK
        /\ net[r] = "idle" /\ group.id \in Nat
    BY TypeSplit DEF QuietInv, ZoneInv, RpcInv, Calling, OtherTypeOK, Groups
  <1>1. sticky # Nil \/ live[r] # Nil => cfgStream = Ann /\ cfgGroup = group.id
    BY DEF QuietInv, LinkedToDuck, Ducked
  <1>2. CASE ~VolumeIsSet(v) /\ Goes(r, "volume") /\ Calls(r, SetVolume(v)) /\ k \in {"answer", "chime"}
             /\ UNCHANGED <<live, sticky, timer>>
    <2>1. Moves(r) /\ pc'[r] = "volume" /\ \A q \in Requests \ {r} : pc'[q] = pc[q]
      BY <1>0, <1>2 DEF Goes, Moves, Critical, LockTypeOK
    <2>2. SetVolume(v) \in Messages /\ SetVolume(v).op = "volume" /\ Says(At(r)', SetVolume(v))
      BY <1>2, <2>1, MessagesFacts DEF Says, At, Ducking, VolumeIsSet
    <2>3. Answering' /\ WireInv' /\ Sends(r) /\ net'[r] = "sent"
      BY <1>0, <1>2, <2>1, <2>2, QuietCall
    <2>4. sticky # Nil => Owing'
      BY <1>2 DEF Owing, QuietInv, ZoneInv, HoldInv, HoldHasTimer
    <2>5. Knows(r)
      BY <1>2, <2>1, <2>3 DEF Knows, Listing
    <2> QED
      BY <1>1, <1>2, <2>1, <2>3, <2>4, <2>5, PendingFacts, QuietStep DEF Listing
  <1>3. CASE StartSwitch(r) /\ k \in {"answer", "chime"} /\ UNCHANGED <<live, sticky, timer>>
    BY <1>0, <1>3, QuietStartSwitch
  <1>4. CASE sticky # Nil /\ Arm(sticky) /\ Finish(r)
    BY <1>0, <1>1, <1>4, PendingFacts, QuietFinish DEF Arm
  <1>5. CASE k = "hold" /\ sticky = Nil /\ Goes(r, "holdList") /\ Calls(r, ListGroups)
             /\ UNCHANGED <<live, sticky, timer>>
    <2>1. Moves(r) /\ pc'[r] = "holdList" /\ \A q \in Requests \ {r} : pc'[q] = pc[q]
      BY <1>0, <1>5 DEF Goes, Moves, Critical, LockTypeOK
    <2>2. /\ ListGroups \in Messages /\ ListGroups.op = "list"
          /\ Says(At(r)', ListGroups)
      BY <2>1, MessagesFacts DEF Says, At, Ducking
    <2>3. /\ Answering' /\ WireInv' /\ Sends(r) /\ net'[r] = "sent"
          /\ \E j \in DOMAIN wire' : j \notin DOMAIN wire /\ wire'[j].from = r
      BY <1>0, <1>5, <2>1, <2>2, QuietCall
    <2>4. Knows(r)
      BY <2>1, <2>3 DEF Knows
    <2> QED
      BY <1>1, <1>5, <2>1, <2>3, <2>4, QuietStep
  <1>6. CASE sticky # Nil /\ Goes(r, "release") /\ Calls(r, SetStream(cfgGroup, sticky))
             /\ Disarm /\ UNCHANGED live
    <2>1. Moves(r) /\ pc'[r] = "release" /\ \A q \in Requests \ {r} : pc'[q] = pc[q]
      BY <1>0, <1>6 DEF Goes, Moves, Critical, LockTypeOK
    <2>2. sticky \in Streams /\ sticky # Ann /\ cfgGroup = group.id /\ cfgStream = Ann
      BY <1>0, <1>1, <1>6 DEF HoldTypeOK, QuietInv, ZoneInv, HoldInv
    <2> DEFINE m == SetStream(cfgGroup, sticky)
    <2>3. /\ m \in Messages /\ m.op = "stream" /\ m.arg = sticky /\ m.gid = group.id
          /\ Says(At(r)', m)
      BY <1>0, <2>1, <2>2, MessagesFacts DEF Says, At, Ducking, SetStream
    <2>4. /\ Answering' /\ WireInv' /\ Sends(r) /\ net'[r] = "sent"
          /\ \E j \in DOMAIN wire' : wire'[j].msg = m
      BY <1>0, <1>6, <2>1, <2>2, <2>3, QuietCall
    <2>5. Owing'
      BY <2>2, <2>3, <2>4 DEF Owing
    <2>6. sticky' = Nil /\ Knows(r)
      BY <1>6, <2>1, <2>4 DEF Disarm, Knows, Listing
    <2> QED
      BY <1>1, <1>6, <2>1, <2>4, <2>5, <2>6, PendingFacts, QuietStep
  <1>7. CASE sticky = Nil /\ Disarm /\ Finish(r)
    BY <1>0, <1>7, QuietFinish DEF Disarm
  <1> QED
    BY <1>2, <1>3, <1>4, <1>5, <1>6, <1>7
       DEF Begin, BeginAnnounce, BeginHold, BeginRelease, holdVars

-----------------------------------------------------------------------------
(* Every step preserves the invariant.                                     *)

\* The parts of the invariant, as the steps below use them.
LEMMA QuietParts ==
    ASSUME QuietInv
    PROVE  /\ ZoneInv /\ RpcTypeOK /\ RpcInv /\ HoldInv /\ Serialised
           /\ LockTypeOK /\ HoldTypeOK /\ OtherTypeOK
           /\ group.at = "joined" /\ group \in Groups /\ group.id \in Nat
           /\ Answering /\ WireInv /\ KnowsGroup /\ LinkedToDuck
           /\ sticky # Nil => cfgStream = Ann /\ cfgGroup = group.id
           /\ \A r \in Requests : live[r] # Nil => cfgStream = Ann /\ cfgGroup = group.id
  BY NilIsNot, TypeSplit DEF QuietInv, ZoneInv, LinkedToDuck, Ducked, OtherTypeOK, Groups

LEMMA QuietArrive ==
    ASSUME QuietInv, ZoneInv',
           NEW r \in Requests, NEW k \in Kinds, NEW v \in Volumes \cup {Nil}, Arrive(r, k, v)
    PROVE  QuietInv'
  <1> USE NilIsNot
  <1>0. /\ RpcTypeOK /\ RpcInv /\ HoldInv /\ Serialised
        /\ LockTypeOK /\ OtherTypeOK /\ pc[r] = "new"
    BY QuietParts DEF Arrive
  <1>1. UNCHANGED <<group, cfgGroup, cfgStream>> /\ kind' = [kind EXCEPT ![r] = k]
    BY DEF Arrive, cfgVars, snapVars
  <1>2. CASE Uncontended /\ Begin(r, k, v) /\ ~Refused(k)
    <2>1. owner = Nil /\ kind'[r] = k /\ (k = "hold" => cfgStream = Ann)
      BY <1>0, <1>1, <1>2 DEF Uncontended, Locked, Refused, OtherTypeOK
    <2> QED
      BY <1>0, <1>1, <1>2, <2>1, QuietBegin
  <1>3. CASE UNCHANGED <<owner, live, sticky, timer, rpcVars>>
             /\ (pc' = [pc EXCEPT ![r] = "done"] \/ pc' = [pc EXCEPT ![r] = "queued"])
    <2>1. UNCHANGED <<owner, live, sticky, timer, connected, net, dialing, reply, wire>>
      BY <1>3 DEF rpcVars
    <2>2. /\ pc'[r] \in {"done", "queued"}
          /\ \A q \in Requests \ {r} : pc'[q] = pc[q] /\ kind'[q] = kind[q]
      BY <1>0, <1>1, <1>3 DEF LockTypeOK, OtherTypeOK
    <2>3. \A p \in Callers : p # r => At(p)' = At(p)
      BY <2>2, AtStays
    <2>4. net[r] = "idle"
      BY <1>0 DEF RpcInv, Calling
    <2>5. \A i \in DOMAIN wire : wire[i].from \in Callers \ {r} /\ At(wire[i].from)' = At(wire[i].from)
      <3>1. \A i \in DOMAIN wire : wire[i].from \in Callers \ {r}
        BY <1>0, <2>4, WireEntry DEF RpcInv, QuietInv, WireInv
      <3> QED
        BY <3>1, <2>1, <2>2 DEF At
    <2>6. group'.at = "joined" /\ LinkedToDuck'
      BY <1>1, <2>1 DEF QuietInv, LinkedToDuck, Ducked
    <2>7. Answering'
      BY <1>1, <2>1, <2>3, <2>4 DEF QuietInv, Answering
    <2>8. WireInv'
      BY <1>1, <2>1, <2>5 DEF QuietInv, WireInv
    <2>9. NoStrand'
      BY <1>0, <1>1, <2>1, <2>2 DEF QuietInv, NoStrand, RestorePending
    <2>10. RestoreFirst'
      BY <1>1, <2>1, <2>2 DEF QuietInv, RestoreFirst, Listing
    <2>11. KnowsGroup'
      BY <1>1, <2>1, <2>2 DEF QuietInv, KnowsGroup, Listing
    <2> QED
      BY <2>6, <2>7, <2>8, <2>9, <2>10, <2>11 DEF QuietInv
  <1> QED
    BY <1>2, <1>3 DEF Arrive, lockVars, holdVars

LEMMA QuietGrant ==
    ASSUME QuietInv, ZoneInv', Grant
    PROVE  QuietInv'
  <1> DEFINE r == Head(queue)
  <1> USE NilIsNot
  <1>0. HoldInv /\ Serialised /\ LockTypeOK /\ OtherTypeOK /\ owner = Nil
    BY QuietParts DEF Grant, Locked
  <1>1. UNCHANGED <<group, cfgGroup, cfgStream, kind>>
    BY DEF Grant, cfgVars, snapVars
  <1>2. r \in Requests /\ pc[r] = "queued" /\ Begin(r, kind[r], vol[r])
    <2>1. r \in Requests /\ 1 \in DOMAIN queue /\ r = queue[1]
      BY <1>0, TailFacts DEF Grant, LockTypeOK
    <2> QED
      BY <1>0, <2>1 DEF Grant, Serialised
  <1>3. kind[r] \in Kinds /\ vol[r] \in Volumes \cup {Nil}
    BY <1>0, <1>2 DEF OtherTypeOK, Begin, Kinds
  <1>4. kind[r] = "hold" => cfgStream = Ann
    BY <1>0, <1>2 DEF HoldInv
  <1> HIDE DEF r
  <1> QED
    BY <1>0, <1>1, <1>2, <1>3, <1>4, QuietBegin

\* Requests inside the lock own it, and no call of theirs goes unanswered.
LEMMA OwnerFacts ==
    ASSUME QuietInv, NEW r \in Requests, pc[r] \in Critical, Answered(r) \/ pc[r] = "play"
    PROVE  /\ owner = r /\ net[r] # "sent" /\ (pc[r] # "play" => net[r] = "ok")
           /\ pc[r] \in {"switch", "holdSwitch", "play", "restore", "release"} \cup Listing
                => ~WatchdogPending
  BY NilIsNot, QuietParts, PendingFacts DEF Serialised, Answered, Answering, RpcInv, Calling

LEMMA QuietVolumeDone ==
    ASSUME QuietInv, ZoneInv', NEW r \in Requests, VolumeDone(r)
    PROVE  QuietInv'
  <1>1. pc[r] = "volume" /\ owner = r /\ net[r] # "sent"
    BY OwnerFacts DEF VolumeDone, Critical
  <1>2. /\ StartSwitch(r)
        /\ UNCHANGED <<group, cfgGroup, cfgStream, live, sticky, timer, kind>>
    BY DEF VolumeDone, holdVars, cfgVars, snapVars
  <1>3. kind'[r] \in {"answer", "chime"}
    BY <1>1, <1>2, QuietParts DEF KnowsGroup
  <1> QED
    BY <1>1, <1>2, <1>3, QuietStartSwitch

\* Listed with a hold: the zone is on the announcement stream because of it;
\* without one it is on a live stream, because nobody owes it a way back.
LEMMA ListedFacts ==
    ASSUME QuietInv, NEW r \in Requests, pc[r] \in Listing, Answered(r)
    PROVE  /\ net[r] = "ok" /\ reply[r].stream = group.stream /\ reply[r] \in Groups
           /\ reply[r].id = group.id /\ reply[r].at = "joined"
           /\ cfgStream = Ann
           /\ group.stream = Ann => sticky # Nil
  <1> USE NilIsNot
  <1>1. owner = r /\ net[r] = "ok" /\ ~WatchdogPending
    BY OwnerFacts DEF Critical, Listing
  <1>2. cfgStream = Ann
    BY QuietParts DEF HoldInv, Listing
  <1>3. /\ reply[r].stream = group.stream /\ reply[r] \in Groups
        /\ reply[r].id = group.id /\ reply[r].at = "joined"
    BY <1>1, QuietParts DEF KnowsGroup, Answering, RpcInv, At
  <1>4. ASSUME group.stream = Ann PROVE sticky # Nil
    <2>1. Owing
      BY <1>4, StrandSplit DEF QuietInv
    <2>2. \A q \in Requests : pc[q] \notin {"switch", "holdSwitch", "play"}
      BY <1>1, QuietParts DEF Serialised, Critical, Listing
    <2>3. ASSUME NEW i \in DOMAIN wire, wire[i].msg.op = "stream", wire[i].msg.arg # Ann
          PROVE  FALSE
      <3> DEFINE p == wire[i].from
      <3>1. p \in Callers /\ net[p] = "sent" /\ Fits(At(p), wire[i].msg) /\ Says(At(p), wire[i].msg)
        BY <2>3, QuietParts, WireEntry DEF RpcInv, WireInv
      <3>2. p # Watchdog
        BY <1>1 DEF WatchdogPending
      <3>3. p # Scanner
        BY <2>3, <3>1 DEF Fits, At, Listing
      <3>4. p \in Requests /\ p # r /\ pc[p] \in Calling
        BY <1>1, <3>1, <3>2, <3>3, QuietParts DEF RpcInv, Callers
      <3> QED
        BY <1>1, <3>4, QuietParts DEF Serialised, Calling, Critical
    <2> QED
      BY <2>1, <2>2, <2>3 DEF Owing
  <1> QED
    BY <1>1, <1>2, <1>3, <1>4

\* A switch to the announcement stream, by an announcement or by a hold.
LEMMA QuietDuck ==
    ASSUME QuietInv, ZoneInv', NEW r \in Requests, owner = r, pc[r] \in Listing, Answered(r),
           NEW where \in Ducking, where = "switch" => pc[r] = "list",
           Goes(r, where), Calls(r, SetStream(reply[r].id, cfgStream)),
           cfgGroup' = reply[r].id,
           UNCHANGED <<group, cfgStream, sticky, timer, kind>>,
           \A q \in Requests \ {r} : live'[q] = live[q]
    PROVE  QuietInv'
  <1> USE NilIsNot
  <1>0. /\ RpcTypeOK /\ RpcInv /\ Answering /\ WireInv /\ LockTypeOK
        /\ ~WatchdogPending
    BY QuietParts, OwnerFacts DEF Critical, Listing
  <1>1. net[r] = "ok" /\ reply[r].id = group.id /\ cfgStream = Ann /\ group.id \in Nat
    BY ListedFacts, QuietParts
  <1>2. Moves(r) /\ pc'[r] = where /\ \A q \in Requests \ {r} : pc'[q] = pc[q]
    BY <1>0 DEF Goes, Moves, Critical, LockTypeOK, Ducking
  <1> DEFINE m == SetStream(reply[r].id, cfgStream)
  <1>3. m \in Messages /\ m.op = "stream" /\ m.gid = group.id /\ Says(At(r)', m)
    BY <1>1, <1>2, MessagesFacts DEF Says, At, Ducking, SetStream
  <1>4. Answering' /\ WireInv' /\ Sends(r) /\ net'[r] = "sent"
    BY <1>0, <1>1, <1>2, <1>3, QuietCall
  <1>5. sticky # Nil => Owing'
    BY DEF Owing, QuietInv, ZoneInv, HoldInv, HoldHasTimer
  <1>6. Knows(r)
    BY <1>2, <1>4, QuietParts DEF Knows, KnowsGroup, Listing, Ducking
  <1> QED
    BY <1>0, <1>1, <1>2, <1>4, <1>5, <1>6, QuietStep DEF Listing

LEMMA QuietListed ==
    ASSUME QuietInv, ZoneInv', NEW r \in Requests, Listed(r)
    PROVE  QuietInv'
  <1> USE NilIsNot
  <1>0. /\ RpcTypeOK /\ RpcInv /\ Answering /\ WireInv /\ LockTypeOK /\ HoldTypeOK
        /\ pc[r] = "list" /\ Answered(r) /\ owner = r /\ net[r] = "ok" /\ ~WatchdogPending
    BY QuietParts, OwnerFacts DEF Listed, Critical, Listing
  <1>1. /\ reply[r].stream = group.stream /\ reply[r].id = group.id /\ reply[r].at = "joined"
        /\ cfgStream = Ann
        /\ group.stream = Ann => sticky # Nil
    BY <1>0, ListedFacts DEF Listing
  <1>2. /\ UNCHANGED <<group, cfgStream, sticky, timer, kind>> /\ cfgGroup' = reply[r].id
        /\ \A q \in Requests \ {r} : live'[q] = live[q]
    BY <1>0, <1>1 DEF Listed, Found, Refreshes, holdVars, snapVars, HoldTypeOK
  <1>3. CASE Goes(r, "switch") /\ Calls(r, SetStream(reply[r].id, cfgStream))
    BY <1>0, <1>2, <1>3, QuietDuck DEF Listing, Ducking
  <1>4. CASE /\ reply[r].stream = cfgStream /\ Goes(r, "play") /\ HangsUp(r)
             /\ live' = [live EXCEPT ![r] = IF sticky # Nil THEN Home(reply[r]) ELSE Nil]
    <2>1. Moves(r) /\ pc'[r] = "play" /\ \A q \in Requests \ {r} : pc'[q] = pc[q]
      BY <1>0, <1>4 DEF Goes, Moves, Critical, LockTypeOK
    <2>2. Answering' /\ WireInv' /\ Sends(r)
      BY <1>0, <1>1, <1>2, <1>4, <2>1, QuietHangUp
    <2>3. live'[r] = sticky /\ sticky # Nil
      BY <1>0, <1>1, <1>4 DEF Home, HoldTypeOK
    <2>4. Owing'
      BY <1>2, <2>3, QuietParts DEF Owing, HoldInv, HoldHasTimer
    <2>5. Knows(r)
      BY <1>0, <1>2, <2>1, <2>3, QuietParts DEF Knows, KnowsGroup, Listing
    <2> QED
      BY <1>0, <1>1, <1>2, <2>1, <2>2, <2>4, <2>5, QuietStep
  <1> QED
    BY <1>0, <1>1, <1>3, <1>4 DEF Listed, Found

LEMMA QuietSwitchDone ==
    ASSUME QuietInv, ZoneInv', NEW r \in Requests, SwitchDone(r)
    PROVE  QuietInv'
  <1> USE NilIsNot
  <1>0. /\ RpcTypeOK /\ RpcInv /\ Answering /\ WireInv /\ LockTypeOK /\ HoldTypeOK /\ HoldInv
        /\ pc[r] = "switch" /\ owner = r /\ net[r] = "ok" /\ ~WatchdogPending
    BY QuietParts, OwnerFacts DEF SwitchDone, Critical
  <1>1. /\ UNCHANGED <<group, cfgGroup, cfgStream, sticky, timer, kind>>
        /\ live[r] # Nil /\ live' = live
    BY <1>0 DEF SwitchDone, holdVars, cfgVars, snapVars, HoldTypeOK, HoldInv
  <1>2. Moves(r) /\ pc'[r] = "play" /\ \A q \in Requests \ {r} : pc'[q] = pc[q]
    BY <1>0 DEF SwitchDone, Goes, Moves, Critical, LockTypeOK
  <1>3. Answering' /\ WireInv' /\ Sends(r)
    BY <1>0, <1>1, <1>2, QuietHangUp DEF SwitchDone
  <1>4. Owing'
    BY <1>1, <1>2 DEF Owing
  <1>5. cfgStream = Ann /\ cfgGroup = group.id /\ Knows(r)
    BY <1>0, <1>1, <1>2, QuietParts DEF Knows, KnowsGroup, Listing
  <1> QED
    BY <1>0, <1>1, <1>2, <1>3, <1>4, <1>5, QuietStep

LEMMA QuietPlayEnd ==
    ASSUME QuietInv, ZoneInv', NEW r \in Requests, PlayEnd(r)
    PROVE  QuietInv'
  <1> USE NilIsNot
  <1>0. /\ RpcTypeOK /\ RpcInv /\ Answering /\ WireInv /\ LockTypeOK /\ HoldTypeOK /\ HoldInv
        /\ pc[r] = "play" /\ owner = r /\ net[r] # "sent" /\ ~WatchdogPending
    BY QuietParts, OwnerFacts DEF PlayEnd, Critical
  <1>1. UNCHANGED <<group, cfgGroup, cfgStream, kind>>
    BY DEF PlayEnd, cfgVars, snapVars
  <1>2. /\ sticky # Nil \/ live[r] # Nil => cfgStream = Ann /\ cfgGroup = group.id
        /\ group.id \in Nat
    BY QuietParts
  <1>3. CASE live[r] = Nil /\ Finish(r) /\ UNCHANGED holdVars
    BY <1>0, <1>1, <1>2, <1>3, QuietFinish DEF holdVars
  <1>4. CASE live[r] # Nil /\ Arm(live[r]) /\ Finish(r)
    BY <1>0, <1>1, <1>2, <1>4, QuietFinish DEF Arm
  <1>5. CASE /\ live[r] # Nil /\ Disarm /\ Goes(r, "restore")
             /\ Calls(r, SetStream(cfgGroup, live[r])) /\ UNCHANGED live
    <2>1. Moves(r) /\ pc'[r] = "restore" /\ \A q \in Requests \ {r} : pc'[q] = pc[q]
      BY <1>0, <1>5 DEF Goes, Moves, Critical, LockTypeOK
    <2>2. live[r] \in Streams /\ live[r] # Ann /\ cfgGroup = group.id /\ cfgStream = Ann
      BY <1>0, <1>2, <1>5 DEF HoldTypeOK, HoldInv
    <2> DEFINE m == SetStream(cfgGroup, live[r])
    <2>3. /\ m \in Messages /\ m.op = "stream" /\ m.arg = live[r] /\ m.gid = group.id
          /\ Says(At(r)', m)
      BY <1>2, <2>1, <2>2, MessagesFacts DEF Says, At, Ducking, SetStream
    <2>4. /\ Answering' /\ WireInv' /\ Sends(r) /\ net'[r] = "sent"
          /\ \E j \in DOMAIN wire' : wire'[j].msg = m
      BY <1>0, <1>1, <1>5, <2>1, <2>2, <2>3, QuietCall
    <2>5. Owing'
      BY <2>2, <2>3, <2>4 DEF Owing
    <2>6. sticky' = Nil /\ Knows(r)
      BY <1>0, <1>1, <1>5, <2>1, <2>4, QuietParts DEF Disarm, Knows, KnowsGroup, Listing
    <2> QED
      BY <1>0, <1>1, <1>5, <2>1, <2>2, <2>4, <2>5, <2>6, QuietStep
  <1> QED
    BY <1>3, <1>4, <1>5 DEF PlayEnd

LEMMA QuietRestoreDone ==
    ASSUME QuietInv, ZoneInv', NEW r \in Requests, RestoreDone(r) \/ ReleaseDone(r)
    PROVE  QuietInv'
  <1>0. pc[r] \in {"restore", "release"} /\ owner = r /\ net[r] # "sent"
    BY OwnerFacts DEF RestoreDone, ReleaseDone, Critical
  <1>1. UNCHANGED <<group, cfgGroup, cfgStream, kind, sticky, timer>> /\ Finish(r)
    BY DEF RestoreDone, ReleaseDone, holdVars, cfgVars, snapVars
  <1>2. sticky = Nil
    BY <1>0, QuietParts DEF KnowsGroup
  <1> QED
    BY <1>0, <1>1, <1>2, QuietFinish

LEMMA QuietHoldListed ==
    ASSUME QuietInv, ZoneInv', NEW r \in Requests, HoldListed(r)
    PROVE  QuietInv'
  <1>0. /\ HoldTypeOK /\ pc[r] = "holdList" /\ Answered(r) /\ owner = r /\ net[r] = "ok"
        /\ ~WatchdogPending
    BY QuietParts, OwnerFacts DEF HoldListed, Critical, Listing
  <1>1. reply[r].id = group.id /\ reply[r].at = "joined" /\ cfgStream = Ann
    BY <1>0, ListedFacts DEF Listing
  <1>2. /\ UNCHANGED <<group, cfgStream, sticky, timer, kind>> /\ cfgGroup' = reply[r].id
    BY <1>0, <1>1 DEF HoldListed, Refreshes, holdVars, snapVars
  <1>3. CASE /\ Goes(r, "holdSwitch") /\ Calls(r, SetStream(reply[r].id, cfgStream))
             /\ live' = [live EXCEPT ![r] = reply[r].stream]
    <2>1. \A q \in Requests \ {r} : live'[q] = live[q]
      BY <1>0, <1>3 DEF HoldTypeOK
    <2> QED
      BY <1>0, <1>2, <1>3, <2>1, QuietDuck DEF Listing, Ducking
  <1>4. CASE Finish(r)
    BY <1>0, <1>1, <1>2, <1>4, QuietFinish
  <1> QED
    BY <1>0, <1>1, <1>3, <1>4 DEF HoldListed

LEMMA QuietHoldDone ==
    ASSUME QuietInv, ZoneInv', NEW r \in Requests, HoldDone(r)
    PROVE  QuietInv'
  <1>0. pc[r] = "holdSwitch" /\ owner = r /\ net[r] = "ok" /\ ~WatchdogPending
    BY OwnerFacts DEF HoldDone, Critical
  <1>1. /\ UNCHANGED <<group, cfgGroup, cfgStream, kind>>
        /\ Arm(live[r]) /\ Finish(r)
    BY <1>0 DEF HoldDone, cfgVars, snapVars
  <1>2. live[r] # Nil /\ cfgStream = Ann /\ cfgGroup = group.id
    BY <1>0, QuietParts DEF HoldInv
  <1> QED
    BY <1>0, <1>1, <1>2, QuietFinish DEF Arm

LEMMA QuietRequest ==
    ASSUME QuietInv, ZoneInv', NEW r \in Requests, Step(r)
    PROVE  QuietInv'
  BY QuietVolumeDone, QuietListed, QuietSwitchDone, QuietPlayEnd, QuietRestoreDone,
     QuietHoldListed, QuietHoldDone DEF Step

\* Steps of the watchdog, the scan and the world, which leave the requests alone.
LEMMA QuietOutside ==
    ASSUME QuietInv, ZoneInv', NEW p \in {Watchdog, Scanner},
           UNCHANGED <<pc, kind, live, group>>,
           Answering', WireInv', Sends(p),
           \A r \in Requests : net'[r] = net[r] /\ reply'[r] = reply[r],
           sticky' \in {sticky, Nil}, sticky' # sticky => Owing',
           cfgStream' \in {cfgStream, Ann}, cfgGroup' \in {cfgGroup, group.id},
           p = Watchdog => wire' = wire \/ (owner = Nil /\ sticky' = Nil /\ cfgStream = Ann)
    PROVE  QuietInv'
  <1> USE NilIsNot
  <1>1. LinkedToDuck'
    BY DEF QuietInv, LinkedToDuck, Ducked
  <1>2. NoStrand'
    <2>1. sticky' # Nil => timer' # "off"
      BY DEF ZoneInv, HoldInv, HoldHasTimer
    <2>2. Owing => Owing'
      BY <2>1 DEF Owing, Sends
    <2>3. group'.stream = Ann => Owing'
      BY <2>2, StrandSplit DEF QuietInv
    <2> QED
      BY <2>3 DEF Answering, NoStrand, Owing, RestorePending
  <1>3. RestoreFirst'
    <2> SUFFICES ASSUME NEW i \in DOMAIN wire', wire'[i].from = Watchdog
                 PROVE  /\ sticky' = Nil /\ cfgStream' = Ann
                        /\ \A r \in Requests :
                              /\ pc'[r] \notin {"switch", "holdSwitch", "play", "restore", "release"}
                              /\ pc'[r] \in Listing =>
                                    \E j \in DOMAIN wire' : j > i /\ wire'[j].from = r
      BY DEF RestoreFirst
    <2>1. CASE i \in DOMAIN wire
      BY <2>1 DEF Sends, QuietInv, RestoreFirst
    <2>2. CASE i \notin DOMAIN wire
      <3>1. p = Watchdog /\ owner = Nil /\ sticky' = Nil /\ cfgStream = Ann
        BY <2>2 DEF Sends
      <3>2. \A r \in Requests : pc'[r] \notin Critical
        BY <3>1, QuietParts DEF Serialised
      <3> QED
        BY <3>1, <3>2 DEF Critical, Listing
    <2> QED
      BY <2>1, <2>2
  <1>4. KnowsGroup'
    BY DEF QuietInv, KnowsGroup
  <1> QED
    BY <1>1, <1>2, <1>3, <1>4 DEF QuietInv

LEMMA QuietTimer ==
    ASSUME QuietInv, ZoneInv', Timer
    PROVE  QuietInv'
  <1> USE NilIsNot
  <1>0. /\ RpcTypeOK /\ RpcInv /\ Answering /\ WireInv /\ HoldTypeOK /\ HoldInv
    BY QuietParts
  <1>1. UNCHANGED <<owner, pc, kind, live, group, cfgGroup, cfgStream>>
    BY DEF Timer, TimerExpires, WatchdogDefers, WatchdogFires, WatchdogDone,
           lockVars, reqVars, cfgVars, snapVars
  <1>3. CASE TimerExpires \/ WatchdogDefers
    <2>1. UNCHANGED <<sticky, connected, net, dialing, reply, wire>>
      BY <1>3 DEF TimerExpires, WatchdogDefers, rpcVars
    <2>2. Answering' /\ WireInv'
      BY <1>0, <1>1, <2>1 DEF Answering, WireInv, At
    <2>3. Sends(Watchdog)
      BY <2>1 DEF Sends
    <2> QED
      BY <1>1, <2>1, <2>2, <2>3, QuietOutside
  <1>4. CASE WatchdogFires
    <2> DEFINE m == SetStream(cfgGroup, sticky)
    <2>1. sticky # Nil /\ sticky # Ann /\ sticky \in Streams /\ owner = Nil
      BY <1>0, <1>4 DEF WatchdogFires, ExchangeAlive, Locked, HoldTypeOK, HoldInv, HoldHasTimer
    <2>2. cfgStream = Ann /\ cfgGroup = group.id /\ group.id \in Nat
      BY <2>1, QuietParts
    <2>3. /\ m \in Messages /\ m.op = "stream" /\ m.arg = sticky /\ m.gid = group.id
          /\ Says(At(Watchdog)', m)
      BY <2>1, <2>2, MessagesFacts DEF Says, At, Ducking, SetStream
    <2>4. /\ net[Watchdog] = "idle" /\ Calls(Watchdog, m) /\ sticky' = Nil
      BY <1>4 DEF WatchdogFires, Disarm
    <2>5. /\ Answering' /\ WireInv' /\ Sends(Watchdog)
          /\ \E j \in DOMAIN wire' : wire'[j].msg = m
      <3> HIDE DEF m
      <3> QED
        BY <1>0, <1>1, <2>2, <2>3, <2>4, QuietCall
    <2>6. Owing'
      BY <2>1, <2>3, <2>5 DEF Owing
    <2>7. \A r \in Requests : net'[r] = net[r] /\ reply'[r] = reply[r]
      BY <1>0, <2>4 DEF Calls, Answering, RpcTypeOK
    <2> QED
      BY <1>1, <2>1, <2>2, <2>4, <2>5, <2>6, <2>7, QuietOutside
  <1>5. CASE WatchdogDone
    <2>1. HangsUp(Watchdog) /\ sticky' = sticky /\ net[Watchdog] # "sent"
      BY <1>5 DEF WatchdogDone, holdVars, Answered
    <2>2. Answering' /\ WireInv' /\ Sends(Watchdog) /\ wire' = wire
      BY <1>0, <1>1, <2>1, QuietHangUp
    <2>3. \A r \in Requests : net'[r] = net[r] /\ reply'[r] = reply[r]
      BY <1>0, <2>1 DEF HangsUp, RpcTypeOK
    <2> QED
      BY <1>1, <2>1, <2>2, <2>3, QuietOutside
  <1> QED
    BY <1>3, <1>4, <1>5 DEF Timer

LEMMA QuietScan ==
    ASSUME QuietInv, ZoneInv', ScanStarts \/ ScanDone
    PROVE  QuietInv'
  <1> USE NilIsNot
  <1>0. RpcTypeOK /\ RpcInv /\ Answering /\ WireInv
    BY QuietParts
  <1>1. UNCHANGED <<owner, pc, kind, live, group, sticky>>
    BY DEF ScanStarts, ScanDone, lockVars, reqVars, holdVars, snapVars
  <1>2. CASE ScanStarts
    <2>1. /\ Calls(Scanner, ListGroups) /\ net[Scanner] = "idle"
          /\ UNCHANGED <<cfgGroup, cfgStream>>
      BY <1>2 DEF ScanStarts, cfgVars
    <2>3. ListGroups \in Messages /\ ListGroups.op = "list" /\ Says(At(Scanner)', ListGroups)
      BY MessagesFacts DEF Says, At, Ducking
    <2>4. Answering' /\ WireInv' /\ Sends(Scanner)
      BY <1>0, <1>1, <2>1, <2>3, QuietCall
    <2>5. \A r \in Requests : net'[r] = net[r] /\ reply'[r] = reply[r]
      BY <1>0, <2>1 DEF Calls, Answering, RpcTypeOK
    <2> QED
      BY <1>1, <2>1, <2>4, <2>5, QuietOutside
  <1>3. CASE ScanDone
    <2>1. HangsUp(Scanner) /\ net[Scanner] = "ok"
      BY <1>0, <1>3 DEF ScanDone, Answered, Answering
    <2>2. reply[Scanner].id = group.id /\ reply[Scanner].at = "joined"
      BY <1>0, <2>1 DEF Answering, At, Listing
    <2>3. cfgStream' \in {cfgStream, Ann} /\ cfgGroup' \in {cfgGroup, group.id}
      BY <1>3, <2>2 DEF ScanDone
    <2>4. Answering' /\ WireInv' /\ Sends(Scanner)
      BY <1>0, <1>1, <2>1, <2>3, QuietHangUp
    <2>5. \A r \in Requests : net'[r] = net[r] /\ reply'[r] = reply[r]
      BY <1>0, <2>1 DEF HangsUp, RpcTypeOK
    <2> QED
      BY <1>1, <2>3, <2>4, <2>5, QuietOutside
  <1> QED
    BY <1>2, <1>3

\* The administrator and the volume slider touch no call and no group.
LEMMA QuietWorld ==
    ASSUME QuietInv, ZoneInv', Toggle \/ \E v \in Volumes : UserSetsVolume(v)
    PROVE  QuietInv'
  <1>0. Answering /\ WireInv
    BY QuietParts
  <1>1. /\ UNCHANGED <<pc, kind, live, group, sticky, cfgGroup, cfgStream>>
        /\ UNCHANGED <<connected, net, dialing, reply, wire>>
    BY DEF Toggle, UserSetsVolume, reqVars, holdVars, cfgVars, rpcVars, snapVars
  <1>2. Answering' /\ WireInv'
    BY <1>0, <1>1 DEF Answering, WireInv, At
  <1>3. Sends(Scanner)
    BY <1>1 DEF Sends
  <1> QED
    BY <1>1, <1>2, <1>3, QuietOutside, NilIsNot

\* What the first call on the wire can be: a list or a volume, or a switch, made
\* by the watchdog on the way back or by the request that owns the lock.
LEMMA HeadFacts ==
    ASSUME QuietInv, wire # <<>>
    PROVE  LET m == Head(wire).msg
               p == Head(wire).from
           IN  /\ 1 \in DOMAIN wire /\ wire[1] = Head(wire)
               /\ p \in Callers /\ m \in Messages /\ net[p] = "sent" /\ Known(m)
               /\ At(p) \in Listing => m.op = "list"
               /\ At(p) = "volume" => m.op = "volume"
               /\ At(p) \in Ducking => m.op = "stream" /\ m.arg = Ann
               /\ At(p) \in {"restore", "release"} => m.op = "stream" /\ m.arg # Ann
               /\ p # Watchdog /\ p # Scanner => p \in Requests /\ owner = p
  <1> DEFINE m == Head(wire).msg
             p == Head(wire).from
  <1> USE NilIsNot
  <1>1. 1 \in DOMAIN wire /\ wire[1] = Head(wire)
    BY QuietParts, TailFacts DEF RpcTypeOK
  <1>2. /\ p \in Callers /\ m \in Messages /\ net[p] = "sent" /\ Fits(At(p), m) /\ Says(At(p), m)
        /\ m.op = "stream" => m.gid = group.id
    BY <1>1, QuietParts, WireEntry DEF RpcInv, WireInv
  <1>3. Known(m)
    BY <1>2, QuietParts DEF Known
  <1>4. ASSUME p # Watchdog, p # Scanner PROVE p \in Requests /\ owner = p
    <2>1. p \in Requests /\ pc[p] \in Critical
      BY <1>2, <1>4, QuietParts DEF Callers, RpcInv, Calling, Critical
    <2> QED
      BY <2>1, QuietParts DEF Serialised
  <1> QED
    BY <1>1, <1>2, <1>3, <1>4 DEF Fits, Says

\* Snapserver runs the first call and answers it.
LEMMA QuietServe ==
    ASSUME QuietInv, ZoneInv', Serve
    PROVE  QuietInv'
  <1> DEFINE m == Head(wire).msg
             p == Head(wire).from
  <1> USE NilIsNot
  <1>0. /\ RpcTypeOK /\ RpcInv /\ Serialised /\ Answering /\ WireInv /\ KnowsGroup
        /\ group \in Groups /\ group.at = "joined"
    BY QuietParts
  <1>1. /\ UNCHANGED <<owner, queue, pc, kind, live, sticky, timer>>
        /\ UNCHANGED <<cfgGroup, cfgStream, connected, dialing>>
    BY DEF Serve, lockVars, reqVars, holdVars, cfgVars
  <1>2. /\ 1 \in DOMAIN wire /\ wire[1] = Head(wire)
        /\ p \in Callers /\ m \in Messages /\ net[p] = "sent" /\ Known(m)
        /\ At(p) \in Listing => m.op = "list"
        /\ At(p) = "volume" => m.op = "volume"
        /\ At(p) \in Ducking => m.op = "stream" /\ m.arg = Ann
        /\ At(p) \in {"restore", "release"} => m.op = "stream" /\ m.arg # Ann
        /\ p # Watchdog /\ p # Scanner => p \in Requests /\ owner = p
    BY HeadFacts DEF Serve
  <1>3. /\ wire' = Tail(wire)
        /\ \A i \in DOMAIN wire' :
              i + 1 \in DOMAIN wire /\ wire'[i] = wire[i + 1] /\ i \in Nat /\ i >= 1
    BY <1>0, TailFacts DEF Serve, RpcTypeOK
  <1>4. \A i \in DOMAIN wire : i = 1 \/ (i - 1 \in DOMAIN wire' /\ wire'[i - 1] = wire[i])
    <2>1. /\ DOMAIN wire = 1 .. Len(wire) /\ Len(wire) \in Nat
          /\ DOMAIN wire' = 1 .. Len(wire) - 1
      BY <1>0, <1>3, LenProperties, HeadTailProperties DEF RpcTypeOK, Serve
    <2>2. ASSUME NEW i \in DOMAIN wire, i # 1
          PROVE  i - 1 \in DOMAIN wire' /\ wire'[i - 1] = wire[i]
      <3>1. i - 1 \in DOMAIN wire' /\ (i - 1) + 1 = i
        BY <2>1, <2>2
      <3> QED
        BY <3>1, <1>3
    <2> QED
      BY <2>2
  <1>5. /\ net' = [net EXCEPT ![p] = "ok"]
        /\ reply' = [reply EXCEPT ![p] = IF m.op = "list" THEN group ELSE Nil]
    BY <1>2 DEF Serve
  <1>6. /\ net'[p] = "ok" /\ (m.op = "list" => reply'[p] = group)
        /\ \A q \in Callers \ {p} : net'[q] = net[q] /\ reply'[q] = reply[q]
    BY <1>0, <1>2, <1>5 DEF RpcTypeOK
  <1>7. /\ m.op = "stream" => group'.stream = m.arg
        /\ m.op # "stream" => group' = group
        /\ group'.id = group.id /\ group'.at = group.at
    BY <1>0, <1>2 DEF Serve, Groups
  <1>8. \A q \in Callers : At(q)' = At(q)
    BY <1>1 DEF At
  <1> HIDE DEF m, p
  <1>9. group'.at = "joined" /\ LinkedToDuck'
    BY <1>0, <1>1, <1>7 DEF QuietInv, LinkedToDuck, Ducked
  <1>10. Answering'
    BY <1>0, <1>1, <1>2, <1>6, <1>7, <1>8 DEF Answering
  <1>11. WireInv'
    <2> SUFFICES ASSUME NEW i \in DOMAIN wire'
                 PROVE  /\ wire'[i].from # Nil
                        /\ wire'[i].msg.op = "stream" =>
                              /\ wire'[i].msg.gid = group'.id
                              /\ cfgGroup' = group'.id /\ cfgStream' = Ann
                        /\ Says(At(wire[i].from)', wire'[i].msg)
      BY DEF WireInv
    <2>1. i + 1 \in DOMAIN wire /\ wire'[i] = wire[i + 1]
      BY <1>3
    <2> QED
      BY <1>0, <1>1, <1>7, <2>1 DEF WireInv, At
  <1>12. NoStrand'
    <2>1. ASSUME m.op = "stream", m.arg = Ann PROVE Owing'
      <3>1. p # Watchdog /\ p # Scanner
        BY <1>2, <2>1 DEF At, Listing
      <3>2. p \in Requests /\ pc[p] \in Calling /\ At(p) = pc[p]
        BY <1>0, <1>2, <3>1 DEF At, RpcInv
      <3>3. pc[p] \in Ducking
        BY <1>2, <2>1, <3>2 DEF Calling, Listing, Ducking
      <3> QED
        BY <3>2, <3>3, <1>1, QuietParts DEF Owing, HoldInv, Ducking
    <2>2. ASSUME m.op # "stream", Owing PROVE Owing'
      <3>1. ASSUME NEW i \in DOMAIN wire, wire[i].msg.op = "stream", wire[i].msg.arg # Ann
            PROVE  Owing'
        BY <1>2, <1>4, <2>2, <3>1 DEF Owing, m
      <3> QED
        BY <1>1, <2>2, <3>1 DEF Owing
    <2>3. group'.stream = Ann => Owing'
      BY <1>7, <2>1, <2>2, StrandSplit DEF QuietInv
    <2> QED
      BY <1>10, <2>3 DEF Answering, NoStrand, Owing, RestorePending
  <1>13. RestoreFirst'
    <2> SUFFICES ASSUME NEW i \in DOMAIN wire', wire'[i].from = Watchdog
                 PROVE  /\ sticky' = Nil /\ cfgStream' = Ann
                        /\ \A r \in Requests :
                              /\ pc'[r] \notin {"switch", "holdSwitch", "play", "restore", "release"}
                              /\ pc'[r] \in Listing =>
                                    \E j \in DOMAIN wire' : j > i /\ wire'[j].from = r
      BY DEF RestoreFirst
    <2>1. i + 1 \in DOMAIN wire /\ wire[i + 1].from = Watchdog /\ i \in Nat /\ i >= 1
      BY <1>3
    <2>2. ASSUME NEW j \in DOMAIN wire, j > i + 1
          PROVE  j - 1 \in DOMAIN wire' /\ j - 1 > i /\ wire'[j - 1] = wire[j]
      <3>1. DOMAIN wire \subseteq Nat
        BY <1>0, LenProperties DEF RpcTypeOK
      <3> QED
        BY <1>4, <2>1, <2>2, <3>1
    <2>3. \A r \in Requests : pc[r] \in Listing =>
             \E j \in DOMAIN wire : j > i + 1 /\ wire[j].from = r
      BY <2>1 DEF QuietInv, RestoreFirst
    <2>4. \A r \in Requests : pc[r] \in Listing =>
             \E j \in DOMAIN wire' : j > i /\ wire'[j].from = r
      BY <2>2, <2>3
    <2> QED
      BY <1>1, <2>1, <2>4 DEF QuietInv, RestoreFirst
  <1>14. KnowsGroup'
    <2> SUFFICES ASSUME NEW r \in Requests, pc[r] \in Critical
                 PROVE  /\ pc[r] \in Listing /\ net'[r] = "ok" => reply'[r].stream = group'.stream
                        /\ pc[r] = "play" /\ live[r] = Nil => group'.stream # Ann
                        /\ pc[r] \in {"restore", "release"} /\ net'[r] = "ok" => group'.stream # Ann
      BY <1>0, <1>1 DEF KnowsGroup, Listing, Critical
    <2>1. owner = r /\ r \in Callers
      BY <1>0 DEF Serialised
    <2>2. CASE p = r
      <3>1. At(p) = pc[r]
        BY <2>2 DEF At
      <3> QED
        BY <1>0, <1>2, <1>6, <1>7, <2>1, <2>2, <3>1 DEF RpcInv, Calling
    <2>3. CASE p # r
      <3>1. p \in {Watchdog, Scanner} /\ net'[r] = net[r] /\ reply'[r] = reply[r]
        BY <1>2, <1>6, <2>1, <2>3
      <3>2. p = Watchdog => m.arg # Ann /\ WatchdogPending
        BY <1>2 DEF At, WatchdogPending, p
      <3>3. p = Scanner => m.op = "list"
        BY <1>2 DEF At, Listing
      <3> QED
        BY <1>0, <1>7, <3>1, <3>2, <3>3, PendingFacts DEF KnowsGroup
    <2> QED
      BY <2>2, <2>3
  <1> QED
    BY <1>9, <1>10, <1>11, <1>12, <1>13, <1>14 DEF QuietInv

\* What else may happen to a zone does not, or does nothing.
LEMMA NothingStrikes ==
    ASSUME QuietInv, Calmly
    PROVE  /\ ~ClientJoins /\ ~Drop /\ ~SnapserverRestarts /\ ~Crash /\ ~UserActs
           /\ \A p \in Callers : ~Dial(p) /\ ~CallFails(p)
  <1>1. \A d \in {"rpc", "drop", "crash", "restart", "user"} : ~Spend(d)
    BY QuietParts DEF OtherTypeOK, Disturbances, Calmly, Spend
  <1>2. ~ClientJoins
    BY QuietParts DEF ClientJoins
  <1>3. \A p \in Callers : ~Dial(p)
    BY QuietParts DEF Answering, Dial
  <1>4. ~Drop /\ ~SnapserverRestarts /\ ~Crash /\ ~UserActs
    BY <1>1 DEF Drop, SnapserverRestarts, Crash, UserActs
  <1>5. \A p \in Callers : ~CallFails(p)
    BY <1>1 DEF CallFails
  <1> QED
    BY <1>2, <1>3, <1>4, <1>5

LEMMA QuietStutter ==
    ASSUME QuietInv, UNCHANGED vars, ZoneInv'
    PROVE  QuietInv'
  BY DEF vars, lockVars, reqVars, holdVars, cfgVars, rpcVars, snapVars,
         QuietInv, Answering, LinkedToDuck, Ducked, NoStrand,
         RestorePending, WireInv, RestoreFirst, KnowsGroup, At

LEMMA QuietNext ==
    ASSUME QuietInv, [Next]_vars, Calmly
    PROVE  QuietInv'
  <1>0. ZoneInv'
    BY NextLemma DEF QuietInv
  <1>1. CASE \E r \in Requests, k \in Kinds, v \in Volumes \cup {Nil} : Arrive(r, k, v)
    BY <1>0, <1>1, QuietArrive
  <1>2. CASE Grant
    BY <1>0, <1>2, QuietGrant
  <1>3. CASE \E r \in Requests : Step(r)
    BY <1>0, <1>3, QuietRequest
  <1>4. CASE Timer
    BY <1>0, <1>4, QuietTimer
  <1>5. CASE Serve
    BY <1>0, <1>5, QuietServe
  <1>6. CASE ScanDone \/ ScanStarts
    BY <1>0, <1>6, QuietScan
  <1>7. CASE Toggle \/ \E v \in Volumes : UserSetsVolume(v)
    BY <1>0, <1>7, QuietWorld
  <1>8. CASE Rest \/ UNCHANGED vars
    BY <1>0, <1>8, QuietStutter DEF Rest
  <1> QED
    BY <1>1, <1>2, <1>3, <1>4, <1>5, <1>6, <1>7, <1>8, NothingStrikes DEF Next, Disturb

\* A step that changes nothing is calm.
LEMMA StutterIsCalm ==
    [Calmly]_vars => Calmly
  BY DEF Calmly, vars

\* At rest the invariant holds, whatever has happened before.
LEMMA QuietAtRest ==
    AtRest /\ ZoneInv => QuietInv
  <1> USE NilIsNot
  <1> SUFFICES ASSUME AtRest, ZoneInv PROVE QuietInv
    OBVIOUS
  <1>1. wire = <<>> /\ DOMAIN wire = {}
    BY EmptySeq DEF AtRest
  <1>2. Answering
    BY DEF AtRest, Answering
  <1>3. LinkedToDuck /\ NoStrand
    BY DEF AtRest, LinkedToDuck, Ducked, NoStrand, ZoneInv, HoldInv, HoldHasTimer
  <1>4. WireInv /\ RestoreFirst /\ KnowsGroup
    BY <1>1 DEF AtRest, WireInv, RestoreFirst, KnowsGroup, Listing
  <1> QED
    BY <1>2, <1>3, <1>4 DEF AtRest, QuietInv

\* The add-on starts at rest.
LEMMA StartsAtRest ==
    Init => AtRest
  BY AnnAssumption DEF Init, AtRest

\* The inductive invariant of a zone in which calls are answered and nobody else
\* touches the group, from any state of rest: restores come before anything that
\* could be confused by them, and what a request has been told of the group stays
\* true while it holds the lock (streamer.py:435-497, 545-599, 266-300).
THEOREM Calm == Spec => [](AtRest /\ [][Calmly]_vars => []QuietInv)
  <1>1. ZoneInv /\ AtRest => QuietInv
    BY QuietAtRest
  <1>2. QuietInv /\ [Next]_vars /\ [Calmly]_vars => QuietInv'
    BY QuietNext, StutterIsCalm
  <1> QED
    BY <1>1, <1>2, Invariance, PTL DEF Spec

\* A zone on its announcement stream is owed the way back by a hold with a timer,
\* by the request that switched it or by a restore on its way (streamer.py:268-271).
THEOREM NeverStranded == Spec => [](AtRest /\ [][Calmly]_vars => []NoStrand)
  <1>1. QuietInv => NoStrand
    BY DEF QuietInv
  <1> QED
    BY <1>1, Calm, PTL

\* Only a call changes the group, and only the way back takes it off the
\* announcement stream.
LEMMA GroupChanges ==
    ASSUME QuietInv, [Next]_vars, Calmly, group'.stream # group.stream
    PROVE  /\ Serve
           /\ group.stream = Ann => sticky = Nil /\ \A r \in Requests : pc[r] # "play"
  <1> DEFINE m == Head(wire).msg
             p == Head(wire).from
  <1> USE NilIsNot
  <1>1. Serve
    BY NothingStrikes
       DEF Next, Disturb, Arrive, Grant, Step, VolumeDone, Listed, SwitchDone, PlayEnd, RestoreDone,
           HoldListed, HoldDone, ReleaseDone, Timer, TimerExpires, WatchdogDefers,
           WatchdogFires, WatchdogDone, ScanDone, ScanStarts, Toggle, UserSetsVolume, Rest,
           vars, snapVars
  <1>2. /\ p \in Callers /\ m.op = "stream" /\ group'.stream = m.arg
        /\ 1 \in DOMAIN wire /\ wire[1] = Head(wire)
        /\ At(p) \in Listing => m.op = "list"
        /\ At(p) = "volume" => m.op = "volume"
        /\ At(p) \in Ducking => m.arg = Ann
        /\ p # Watchdog /\ p # Scanner => p \in Requests /\ owner = p /\ net[p] = "sent"
    BY <1>1, HeadFacts, QuietParts DEF Serve, OtherTypeOK, Groups
  <1>3. ASSUME group.stream = Ann
        PROVE  sticky = Nil /\ \A r \in Requests : pc[r] # "play"
    <2>1. CASE p = Watchdog
      BY <1>2, <2>1, PendingFacts DEF WatchdogPending
    <2>2. CASE p = Scanner
      BY <1>2, <2>2 DEF At, Listing
    <2>3. CASE p # Watchdog /\ p # Scanner
      <3>1. pc[p] \in Calling /\ At(p) = pc[p]
        BY <1>2, <2>3, QuietParts DEF RpcInv, At
      <3>2. pc[p] \in {"restore", "release"}
        BY <1>2, <1>3, <3>1 DEF Calling, Listing, Ducking
      <3>3. sticky = Nil
        BY <1>2, <2>3, <3>2, QuietParts DEF KnowsGroup
      <3>4. \A r \in Requests : pc[r] # "play"
        BY <1>2, <2>3, <3>2, QuietParts DEF Serialised, Critical
      <3> QED
        BY <3>3, <3>4
    <2> QED
      BY <2>1, <2>2, <2>3
  <1> QED
    BY <1>1, <1>3

\* Nothing yanks the group out from under an announcement, nor between two
\* announcements of an exchange (streamer.py:257, 284).
THEOREM NeverYanked == Spec => [](AtRest /\ [][Calmly]_vars => NoYank)
  <1>1. QuietInv /\ [Next]_vars /\ [Calmly]_vars =>
          [group.stream = Ann /\ group'.stream # Ann =>
              sticky = Nil /\ \A r \in Requests : pc[r] # "play"]_vars
    BY GroupChanges, StutterIsCalm
  <1> QED
    BY <1>1, Calm, PTL DEF Spec, NoYank

\* When an answer or a release is over, the zone is back on a live stream
\* (streamer.py:471-475, watchdog.py:14-17).
THEOREM ExchangesUnduck == Spec => [](AtRest /\ [][Calmly]_vars => ExchangeEndUnducks)
  <1> DEFINE Ends == \A r \in Requests :
                        /\ pc[r] \in {"play", "restore", "release"}
                        /\ pc'[r] = "done"
                        /\ kind[r] \in {"answer", "release"}
                        => group'.stream # Ann
  <1>1. ASSUME QuietInv, [Next]_vars, Calmly PROVE Ends
    <2> SUFFICES ASSUME NEW r \in Requests, pc[r] \in {"play", "restore", "release"},
                        pc'[r] = "done", kind[r] \in {"answer", "release"}
                 PROVE  group'.stream # Ann
      OBVIOUS
    <2>1. /\ pc \in [Requests -> PCs] /\ live \in [Requests -> Streams \cup {Ann, Nil}]
          /\ owner = r /\ owner # Nil
          /\ \A q \in Requests : pc[q] \in Critical => q = r
          /\ pc[r] = "play" => kind[r] = "answer"
      BY <1>1, NilIsNot, QuietParts DEF LockTypeOK, HoldTypeOK, Serialised, Critical, KnowsGroup
    <2>2. ASSUME NEW q \in Requests, NEW k \in Kinds, NEW v \in Volumes \cup {Nil}, Arrive(q, k, v)
          PROVE  FALSE
      <3>1. q # r /\ (pc' = [pc EXCEPT ![q] = "done"] \/ pc' = [pc EXCEPT ![q] = "queued"])
        BY <2>1, <2>2 DEF Arrive, Uncontended, Locked
      <3> QED
        BY <2>1, <3>1
    <2>3. ~Grant
      BY <2>1 DEF Grant, Locked
    <2>4. pc' # pc
      BY <2>1
    <2>5. \E q \in Requests : Step(q)
      BY <1>1, <2>2, <2>3, <2>4, NothingStrikes
         DEF Next, Disturb, Timer, TimerExpires, WatchdogDefers, WatchdogFires, WatchdogDone,
             Serve, ScanDone, ScanStarts, Toggle, UserSetsVolume, Rest, vars, reqVars
    <2>6. Step(r)
      BY <2>1, <2>5 DEF Step, VolumeDone, Listed, SwitchDone, PlayEnd, RestoreDone,
                        HoldListed, HoldDone, ReleaseDone, Critical
    <2>7. CASE PlayEnd(r)
      <3>1. live[r] = Nil \/ pc' = [pc EXCEPT ![r] = "restore"]
        BY <2>1, <2>7 DEF PlayEnd, EndsExchange, Goes
      <3>2. live[r] = Nil
        BY <2>1, <3>1
      <3> QED
        BY <1>1, <2>7, <3>2, QuietParts DEF PlayEnd, KnowsGroup, snapVars
    <2>8. CASE RestoreDone(r) \/ ReleaseDone(r)
      <3>1. net[r] = "ok" /\ pc[r] \in {"restore", "release"} /\ UNCHANGED group
        BY <1>1, <2>8, OwnerFacts DEF RestoreDone, ReleaseDone, Critical, snapVars
      <3> QED
        BY <1>1, <3>1, QuietParts DEF KnowsGroup
    <2> QED
      BY <2>6, <2>7, <2>8 DEF Step, VolumeDone, Listed, SwitchDone, HoldListed, HoldDone
  <1>2. QuietInv /\ [Next]_vars /\ [Calmly]_vars => [Ends]_vars
    BY <1>1, StutterIsCalm
  <1> QED
    BY <1>2, Calm, PTL DEF Spec, ExchangeEndUnducks

-----------------------------------------------------------------------------
(* The volume.                                                             *)

\* A request that is not about to set the volume keeps what is known of it.
LEMMA VolumeRequest ==
    ASSUME QuietInv, QuietInv', VolumeInv, NEW r \in Requests,
           owner' \in {r, Nil}, pc'[r] # "volume", UNCHANGED snapVol,
           volCache' # Nil => snapVol = volCache',
           pc'[r] \in {"list", "switch", "play"} /\ vol'[r] # Nil => volCache' = vol'[r]
    PROVE  VolumeInv'
  <1> USE NilIsNot
  <1>1. \A q \in Requests : pc'[q] \in Critical => q = r
    BY DEF QuietInv, ZoneInv, Serialised
  <1>2. \A q \in Requests : pc'[q] # "volume"
    BY <1>1 DEF Critical
  <1>3. \A i \in DOMAIN wire' : wire'[i].msg.op # "volume"
    <2>1. ASSUME NEW i \in DOMAIN wire', wire'[i].msg.op = "volume" PROVE FALSE
      <3>1. At(wire[i].from)' = "volume"
        BY <2>1 DEF QuietInv, WireInv, Says
      <3> QED
        BY <1>2, <3>1 DEF At
    <2> QED
      BY <2>1
  <1> QED
    BY <1>1, <1>2, <1>3 DEF VolumeInv, Critical

\* Whoever plays at once either asked for no volume or for the one that is set.
LEMMA VolumeBegin ==
    ASSUME QuietInv, QuietInv', VolumeInv, NEW r \in Requests,
           NEW k \in Kinds, NEW v \in Volumes \cup {Nil},
           owner = Nil, pc[r] \in {"new", "queued"}, Begin(r, k, v), vol'[r] = v,
           \A q \in Requests \ {r} : vol'[q] = vol[q],
           UNCHANGED <<volCache, snapVol>>
    PROVE  VolumeInv'
  <1> USE NilIsNot
  <1>0. LockTypeOK /\ RpcTypeOK /\ RpcInv /\ Serialised /\ Answering /\ WireInv
    BY QuietParts
  <1>1. \A q \in Requests : pc[q] \notin Critical
    BY <1>0 DEF Serialised
  <1>2. volCache # Nil => snapVol = volCache
    BY <1>1 DEF VolumeInv, Critical
  <1>3. CASE ~VolumeIsSet(v) /\ Goes(r, "volume") /\ Calls(r, SetVolume(v))
    <2>1. /\ v \in Volumes /\ v # Nil /\ pc'[r] = "volume"
          /\ \A q \in Requests \ {r} : pc'[q] = pc[q]
      BY <1>0, <1>3 DEF VolumeIsSet, Goes, LockTypeOK
    <2>2. net'[r] = "sent" /\ wire' = Append(wire, [from |-> r, msg |-> SetVolume(v)])
      BY <1>0, <1>3 DEF Calls, Answering, RpcTypeOK
    <2>3. \A i \in DOMAIN wire : wire[i].msg.op # "volume"
      <3>1. ASSUME NEW i \in DOMAIN wire, wire[i].msg.op = "volume" PROVE FALSE
        <4>1. At(wire[i].from) = "volume"
          BY <1>0, <3>1 DEF WireInv, Says
        <4> QED
          BY <1>1, <4>1 DEF At, Critical
      <3> QED
        BY <3>1
    <2>4. [from |-> r, msg |-> SetVolume(v)] \in Entries
      BY <2>1, MessagesFacts DEF Entries
    <2>5. /\ DOMAIN wire' = 1 .. Len(wire) + 1 /\ DOMAIN wire = 1 .. Len(wire)
          /\ Len(wire) \in Nat
          /\ \A i \in DOMAIN wire : wire'[i] = wire[i]
          /\ wire'[Len(wire) + 1] = [from |-> r, msg |-> SetVolume(v)]
      BY <1>0, <2>2, <2>4, AppendFacts DEF RpcTypeOK
    <2>6. \A i \in DOMAIN wire' : i \in DOMAIN wire \/ i = Len(wire) + 1
      BY <2>5
    <2>7. \A i \in DOMAIN wire' :
             wire'[i].msg.op = "volume" => wire'[i].msg.arg = vol'[wire'[i].from]
      BY <2>3, <2>5, <2>6 DEF SetVolume
    <2> QED
      BY <1>1, <2>1, <2>2, <2>7 DEF VolumeInv, Critical
  <1>4. CASE BeginAnnounce(r, v) /\ VolumeIsSet(v) /\ StartSwitch(r)
    <2>1. pc'[r] \in {"list", "play"} /\ owner' = r
      BY <1>0, <1>4 DEF StartSwitch, Goes, LockTypeOK
    <2> QED
      BY <1>2, <1>4, <2>1, VolumeRequest DEF VolumeIsSet
  <1>5. CASE BeginHold(r) \/ BeginRelease(r)
    <2>1. pc'[r] \in {"holdList", "release", "done"} /\ owner' \in {r, Nil}
      BY <1>0, <1>5 DEF BeginHold, BeginRelease, Finish, Unlocks, Goes, LockTypeOK
    <2> QED
      BY <1>2, <2>1, VolumeRequest
  <1> QED
    BY <1>3, <1>4, <1>5 DEF Begin, BeginAnnounce

\* A step that leaves the requests and the volume alone and sends nothing of theirs.
LEMMA VolumeOutside ==
    ASSUME QuietInv, QuietInv', VolumeInv, NEW p \in {Watchdog, Scanner}, Sends(p),
           UNCHANGED <<pc, vol, volCache, snapVol>>,
           \A r \in Requests : net'[r] = net[r]
    PROVE  VolumeInv'
  <1> USE NilIsNot
  <1>1. ASSUME NEW i \in DOMAIN wire', wire'[i].msg.op = "volume"
        PROVE  wire'[i].msg.arg = vol'[wire'[i].from]
    <2>1. At(wire[i].from)' = "volume"
      BY <1>1 DEF QuietInv, WireInv, Says
    <2>2. wire'[i].from # p
      BY <2>1 DEF At
    <2>3. i \in DOMAIN wire /\ wire'[i] = wire[i]
      BY <2>2 DEF Sends
    <2> QED
      BY <1>1, <2>3 DEF VolumeInv
  <1> QED
    BY <1>1 DEF VolumeInv

LEMMA VolumeArrive ==
    ASSUME QuietInv, QuietInv', VolumeInv,
           NEW r \in Requests, NEW k \in Kinds, NEW v \in Volumes \cup {Nil}, Arrive(r, k, v)
    PROVE  VolumeInv'
  <1> USE NilIsNot
  <1>0. LockTypeOK /\ OtherTypeOK /\ RpcInv /\ pc[r] = "new" /\ net[r] = "idle"
    BY QuietParts DEF Arrive, RpcInv, Calling
  <1>1. /\ UNCHANGED <<volCache, snapVol>>
        /\ vol'[r] = v /\ \A q \in Requests \ {r} : vol'[q] = vol[q]
    BY <1>0 DEF Arrive, snapVars, OtherTypeOK
  <1>2. CASE Uncontended /\ Begin(r, k, v)
    BY <1>0, <1>1, <1>2, VolumeBegin DEF Uncontended, Locked
  <1>3. CASE UNCHANGED rpcVars /\ (pc' = [pc EXCEPT ![r] = "done"] \/ pc' = [pc EXCEPT ![r] = "queued"])
    <2>1. /\ pc'[r] \in {"done", "queued"} /\ UNCHANGED <<net, wire>>
          /\ \A q \in Requests \ {r} : pc'[q] = pc[q]
      BY <1>0, <1>3 DEF LockTypeOK, rpcVars
    <2>2. \A i \in DOMAIN wire : wire[i].from # r
      BY <1>0 DEF RpcInv
    <2>3. \A i \in DOMAIN wire : wire[i].msg.op = "volume" => wire[i].from \in Requests
      BY QuietParts DEF WireInv, Says, At
    <2>4. \A i \in DOMAIN wire' :
             wire'[i].msg.op = "volume" => wire'[i].msg.arg = vol'[wire'[i].from]
      BY <1>1, <2>1, <2>2, <2>3 DEF VolumeInv
    <2>5. volCache # Nil /\ (\A q \in Requests : pc'[q] # "volume") => snapVol = volCache
      BY <1>0, <2>1 DEF VolumeInv
    <2> QED
      BY <1>1, <2>1, <2>4, <2>5 DEF VolumeInv
  <1> QED
    BY <1>2, <1>3 DEF Arrive

LEMMA VolumeGrant ==
    ASSUME QuietInv, QuietInv', VolumeInv, Grant
    PROVE  VolumeInv'
  <1> DEFINE r == Head(queue)
  <1>0. Serialised /\ LockTypeOK /\ OtherTypeOK /\ owner = Nil
    BY QuietParts DEF Grant, Locked
  <1>1. UNCHANGED <<vol, volCache, snapVol>>
    BY DEF Grant, snapVars
  <1>2. r \in Requests /\ pc[r] = "queued" /\ Begin(r, kind[r], vol[r])
    <2>1. r \in Requests /\ 1 \in DOMAIN queue /\ r = queue[1]
      BY <1>0, TailFacts DEF Grant, LockTypeOK
    <2> QED
      BY <1>0, <2>1 DEF Grant, Serialised
  <1>3. kind[r] \in Kinds /\ vol[r] \in Volumes \cup {Nil}
    BY <1>0, <1>2 DEF OtherTypeOK, Begin, Kinds
  <1> HIDE DEF r
  <1> QED
    BY <1>0, <1>1, <1>2, <1>3, VolumeBegin

LEMMA VolumeStep ==
    ASSUME QuietInv, QuietInv', VolumeInv, NEW r \in Requests, Step(r)
    PROVE  VolumeInv'
  <1> USE NilIsNot
  <1>0. /\ LockTypeOK /\ OtherTypeOK /\ pc[r] \in Critical
        /\ owner = r /\ \A q \in Requests : pc[q] \in Critical => q = r
    BY QuietParts DEF Serialised, Step, VolumeDone, Listed, SwitchDone, PlayEnd, RestoreDone,
                      HoldListed, HoldDone, ReleaseDone, Critical
  <1>1. UNCHANGED <<vol, snapVol>>
    BY DEF Step, VolumeDone, Listed, SwitchDone, PlayEnd, RestoreDone,
           HoldListed, HoldDone, ReleaseDone, snapVars
  <1>2. CASE VolumeDone(r)
    <2>1. net[r] = "ok" /\ pc[r] = "volume"
      BY <1>0, <1>2, OwnerFacts DEF VolumeDone
    <2>2. volCache' = vol[r] /\ snapVol = vol[r]
      BY <1>2, <2>1 DEF VolumeDone, VolumeInv
    <2>3. pc'[r] \in {"list", "play"} /\ owner' = r
      BY <1>0, <1>2 DEF VolumeDone, StartSwitch, Goes, LockTypeOK
    <2> QED
      BY <1>1, <2>2, <2>3, VolumeRequest
  <1>3. CASE Step(r) /\ ~VolumeDone(r)
    <2>1. /\ volCache' = volCache /\ owner' \in {r, Nil} /\ pc[r] # "volume"
          /\ pc'[r] # "volume"
          /\ pc'[r] \in {"list", "switch", "play"} => pc[r] \in {"list", "switch", "play"}
      BY <1>0, <1>3 DEF Step, Listed, SwitchDone, PlayEnd, RestoreDone, HoldListed, HoldDone,
                        ReleaseDone, Finish, Unlocks, Goes, LockTypeOK
    <2>2. volCache # Nil => snapVol = volCache
      BY <1>0, <2>1 DEF VolumeInv, Critical
    <2> QED
      BY <1>1, <2>1, <2>2, VolumeRequest DEF VolumeInv
  <1> QED
    BY <1>2, <1>3

LEMMA VolumeServe ==
    ASSUME QuietInv, QuietInv', VolumeInv, Serve
    PROVE  VolumeInv'
  <1> DEFINE m == Head(wire).msg
             p == Head(wire).from
  <1> USE NilIsNot
  <1>0. RpcTypeOK /\ Serialised /\ RpcInv /\ WireInv
    BY QuietParts
  <1>1. UNCHANGED <<pc, vol, volCache>>
    BY DEF Serve, reqVars
  <1>2. /\ 1 \in DOMAIN wire /\ wire[1] = Head(wire)
        /\ p \in Callers /\ net[p] = "sent"
        /\ At(p) = "volume" => m.op = "volume"
    BY HeadFacts DEF Serve
  <1>3. m.op = "volume" => p \in Requests /\ pc[p] = "volume" /\ m.arg = vol[p]
    <2>1. m.op = "volume" => At(p) = "volume" /\ m.arg = vol[p]
      BY <1>0, <1>2 DEF WireInv, Says, VolumeInv
    <2> QED
      BY <2>1 DEF At
  <1>4. \A i \in DOMAIN wire' : i + 1 \in DOMAIN wire /\ wire'[i] = wire[i + 1]
    BY <1>0, TailFacts DEF Serve, RpcTypeOK
  <1>5. /\ \A q \in Callers \ {p} : net'[q] = net[q]
        /\ snapVol' = IF m.op = "volume" THEN m.arg ELSE snapVol
    BY <1>0 DEF Serve, RpcTypeOK
  <1> HIDE DEF m, p
  <1>6. \A i \in DOMAIN wire' :
           wire'[i].msg.op = "volume" => wire'[i].msg.arg = vol'[wire'[i].from]
    BY <1>1, <1>4 DEF VolumeInv
  <1>7. \A r \in Requests : pc[r] = "volume" /\ net'[r] = "ok" => snapVol' = vol[r]
    <2> SUFFICES ASSUME NEW r \in Requests, pc[r] = "volume", net'[r] = "ok"
                 PROVE  snapVol' = vol[r]
      OBVIOUS
    <2>1. CASE p = r
      BY <1>2, <1>3, <1>5, <2>1 DEF At
    <2>2. CASE p # r
      <3>1. m.op # "volume"
        BY <1>0, <1>3, <2>2 DEF Serialised, Critical
      <3> QED
        BY <1>5, <2>2, <3>1 DEF VolumeInv
    <2> QED
      BY <2>1, <2>2
  <1>8. volCache # Nil /\ (\A r \in Requests : pc[r] # "volume") => snapVol' = volCache
    BY <1>3, <1>5 DEF VolumeInv
  <1> QED
    BY <1>1, <1>6, <1>7, <1>8 DEF VolumeInv

\* The watchdog, the scan and the administrator.
LEMMA VolumeRest ==
    ASSUME QuietInv, QuietInv', VolumeInv, Timer \/ ScanStarts \/ ScanDone \/ Toggle
    PROVE  VolumeInv'
  <1> USE NilIsNot
  <1>0. RpcTypeOK /\ RpcInv /\ Answering /\ WireInv
    BY QuietParts
  <1>1. UNCHANGED <<pc, vol, volCache, snapVol>>
    BY DEF Timer, TimerExpires, WatchdogDefers, WatchdogFires, WatchdogDone, ScanStarts, ScanDone,
           Toggle, reqVars, snapVars
  <1>2. \E p \in {Watchdog, Scanner} :
           \/ UNCHANGED <<net, wire>>
           \/ HangsUp(p)
           \/ \E m \in Messages : Calls(p, m)
    <2>1. CASE TimerExpires \/ WatchdogDefers \/ Toggle
      BY <2>1 DEF TimerExpires, WatchdogDefers, Toggle, rpcVars
    <2>2. CASE ScanStarts
      BY <2>2, MessagesFacts DEF ScanStarts
    <2>3. CASE WatchdogFires
      <3>1. sticky \in Streams \cup {Ann} /\ cfgGroup \in Nat \cup {Nil}
        BY <2>3, QuietParts DEF WatchdogFires, HoldTypeOK, HoldInv, HoldHasTimer, OtherTypeOK
      <3> QED
        BY <2>3, <3>1, MessagesFacts DEF WatchdogFires
    <2>4. CASE WatchdogDone \/ ScanDone
      BY <2>4 DEF WatchdogDone, ScanDone
    <2> QED
      BY <2>1, <2>2, <2>3, <2>4 DEF Timer
  <1>3. PICK p \in {Watchdog, Scanner} :
           \/ UNCHANGED <<net, wire>>
           \/ HangsUp(p)
           \/ \E m \in Messages : Calls(p, m)
    BY <1>2
  <1>4. Sends(p) /\ \A r \in Requests : net'[r] = net[r]
    <2>1. CASE UNCHANGED <<net, wire>> \/ HangsUp(p)
      BY <1>0, <2>1 DEF HangsUp, Sends, RpcTypeOK
    <2>2. ASSUME NEW m \in Messages, Calls(p, m)
          PROVE  Sends(p) /\ \A r \in Requests : net'[r] = net[r]
      <3>1. [from |-> p, msg |-> m] \in Entries
        BY DEF Entries
      <3>2. wire' = Append(wire, [from |-> p, msg |-> m]) /\ net' = [net EXCEPT ![p] = "sent"]
        BY <1>0, <2>2 DEF Calls, Answering
      <3>3. /\ DOMAIN wire' = 1 .. Len(wire) + 1 /\ DOMAIN wire = 1 .. Len(wire)
            /\ Len(wire) \in Nat
            /\ \A i \in DOMAIN wire : wire'[i] = wire[i]
            /\ wire'[Len(wire) + 1].from = p
        BY <1>0, <3>1, <3>2, AppendFacts DEF RpcTypeOK
      <3> QED
        BY <1>0, <3>2, <3>3 DEF Sends, RpcTypeOK
    <2> QED
      BY <1>3, <2>1, <2>2
  <1> QED
    BY <1>1, <1>4, VolumeOutside

\* An announcement plays at the volume it asked for, whether its request set it or
\* found it in the cache, from any state of rest in which the cache is right
\* (streamer.py:417-431).
THEOREM VolumeKept ==
    Spec => [](AtRest /\ volCache \in {Nil, snapVol} /\ [][Alone]_vars => []PlaysAtItsVolume)
  <1> DEFINE Start == AtRest /\ volCache \in {Nil, snapVol}
  <1>1. ZoneInv /\ Start => QuietInv /\ VolumeInv
    <2> SUFFICES ASSUME ZoneInv, Start PROVE QuietInv /\ VolumeInv
      OBVIOUS
    <2>1. wire = <<>> /\ DOMAIN wire = {}
      BY EmptySeq DEF AtRest
    <2> QED
      BY <2>1, QuietAtRest DEF AtRest, VolumeInv
  <1>2. QuietInv /\ VolumeInv /\ [Next]_vars /\ [Alone]_vars => (QuietInv /\ VolumeInv)'
    <2> SUFFICES ASSUME QuietInv, VolumeInv, [Next]_vars, [Alone]_vars PROVE QuietInv' /\ VolumeInv'
      OBVIOUS
    <2> DEFINE d == "volume"
    <2>8. Calmly /\ left'[d] = left[d]
      BY DEF Alone, Calmly, vars
    <2>0. QuietInv'
      BY <2>8, QuietNext
    <2>1. CASE \E r \in Requests, k \in Kinds, v \in Volumes \cup {Nil} : Arrive(r, k, v)
      BY <2>0, <2>1, VolumeArrive
    <2>2. CASE Grant
      BY <2>0, <2>2, VolumeGrant
    <2>3. CASE \E r \in Requests : Step(r)
      BY <2>0, <2>3, VolumeStep
    <2>4. CASE Timer \/ ScanStarts \/ ScanDone \/ Toggle
      BY <2>0, <2>4, VolumeRest
    <2>5. CASE Serve
      BY <2>0, <2>5, VolumeServe
    <2>6. CASE Rest \/ UNCHANGED vars
      BY <2>6, <2>0 DEF Rest, vars, reqVars, rpcVars, snapVars, VolumeInv
    <2>7. ~\E v \in Volumes : UserSetsVolume(v)
      BY <2>8, QuietParts DEF UserSetsVolume, Spend, OtherTypeOK, Disturbances
    <2> QED
      BY <2>0, <2>1, <2>2, <2>3, <2>4, <2>5, <2>6, <2>7, <2>8, NothingStrikes DEF Next, Disturb
  <1>3. QuietInv /\ VolumeInv => PlaysAtItsVolume
    <2> SUFFICES ASSUME QuietInv, VolumeInv, NEW r \in Requests, pc[r] = "play", vol[r] # Nil
                 PROVE  snapVol = vol[r]
      BY DEF PlaysAtItsVolume
    <2>1. \A q \in Requests : pc[q] # "volume"
      BY QuietParts DEF Serialised, Critical
    <2> QED
      BY <2>1 DEF VolumeInv
  <1> HIDE DEF Start
  <1>4. Spec => [](Start /\ [][Alone]_vars => []PlaysAtItsVolume)
    BY <1>1, <1>2, <1>3, Invariance, PTL DEF Spec
  <1> QED
    BY <1>4 DEF Start

-----------------------------------------------------------------------------
(* The zone implements module DuckingPromise.                              *)

\* What the refinement mapping puts in the place of its variables.
Heard == {r \in Requests : pc[r] = "play" /\ live[r] # Nil}
HomeOf ==
    IF group.stream # Ann THEN group.stream
    ELSE IF Owed = {} THEN Ann ELSE CHOOSE s \in Owed : TRUE

\* Where an owed stream comes from.
LEMMA OwedFacts ==
    /\ sticky \notin {Nil, Ann} => sticky \in Owed
    /\ \A r \in Requests : live[r] \notin {Nil, Ann} => live[r] \in Owed
    /\ \A i \in DOMAIN wire :
          wire[i].msg.op = "stream" /\ wire[i].msg.arg \notin {Nil, Ann} => wire[i].msg.arg \in Owed
    /\ \A s \in Owed :
          /\ s \notin {Nil, Ann}
          /\ \/ s = sticky
             \/ \E r \in Requests : s = live[r]
             \/ \E i \in DOMAIN wire : wire[i].msg.op = "stream" /\ s = wire[i].msg.arg
  BY DEF Owed

\* A way back on the wire is the watchdog's or the lock owner's, and the only one.
LEMMA WayBack ==
    ASSUME QuietInv, HomeInv, NEW i \in DOMAIN wire,
           wire[i].msg.op = "stream", wire[i].msg.arg # Ann
    PROVE  /\ sticky = Nil /\ group.stream = Ann /\ wire[i].msg.arg # Nil
           /\ \/ wire[i].from = Watchdog /\ \A r \in Requests : live[r] = Nil
              \/ /\ wire[i].from \in Requests /\ owner = wire[i].from
                 /\ pc[owner] \in {"restore", "release"}
                 /\ \A r \in Requests : live[r] # Nil => r = owner /\ live[r] = wire[i].msg.arg
           /\ \A j \in DOMAIN wire :
                 wire[j].msg.op = "stream" /\ wire[j].msg.arg # Ann => j = i
  <1> USE NilIsNot
  <1>1. \A j \in DOMAIN wire : wire[j].msg.op = "stream" /\ wire[j].msg.arg # Ann =>
           \/ wire[j].from = Watchdog
           \/ /\ wire[j].from \in Requests /\ owner = wire[j].from
              /\ pc[wire[j].from] \in {"restore", "release"}
    <2> SUFFICES ASSUME NEW j \in DOMAIN wire,
                        wire[j].msg.op = "stream", wire[j].msg.arg # Ann, wire[j].from # Watchdog
                 PROVE  /\ wire[j].from \in Requests /\ owner = wire[j].from
                        /\ pc[wire[j].from] \in {"restore", "release"}
      OBVIOUS
    <2> DEFINE p == wire[j].from
    <2>1. p \in Callers /\ net[p] = "sent" /\ Fits(At(p), wire[j].msg) /\ Says(At(p), wire[j].msg)
      BY QuietParts, WireEntry DEF RpcInv, WireInv
    <2>2. p # Scanner
      BY <2>1 DEF Fits, At, Listing
    <2>3. p \in Requests /\ pc[p] \in Calling /\ At(p) = pc[p]
      BY <2>1, <2>2, QuietParts DEF RpcInv, At, Callers
    <2>4. pc[p] \in {"restore", "release"}
      BY <2>1, <2>3 DEF Fits, Says, Calling, Listing, Ducking
    <2> QED
      BY <2>3, <2>4, QuietParts DEF Serialised, Critical
  <1>2. wire[i].from = Watchdog =>
           sticky = Nil /\ \A r \in Requests :
              live[r] = Nil /\ pc[r] \notin {"restore", "release"}
    BY PendingFacts DEF WatchdogPending, HomeInv
  <1>3. \A r \in Requests : live[r] # Nil => owner = r
    BY QuietParts DEF HomeInv, Serialised, Critical
  <1>4. wire[i].from # Watchdog =>
           sticky = Nil /\ \A r \in Requests : live[r] # Nil => r = owner /\ live[r] = wire[i].msg.arg
    <2> SUFFICES ASSUME wire[i].from # Watchdog
                 PROVE  sticky = Nil /\
                        \A r \in Requests : live[r] # Nil => r = owner /\ live[r] = wire[i].msg.arg
      OBVIOUS
    <2>1. /\ owner \in Requests /\ owner = wire[i].from /\ pc[owner] \in {"restore", "release"}
          /\ At(wire[i].from) = pc[owner]
      BY <1>1 DEF At
    <2> QED
      BY <2>1, <1>3, QuietParts DEF KnowsGroup, HomeInv
  <1>5. \A j \in DOMAIN wire : wire[j].msg.op = "stream" /\ wire[j].msg.arg # Ann =>
           wire[j].from = wire[i].from
    <2>1. \A j \in DOMAIN wire : wire[j].from = Watchdog =>
             \A r \in Requests : pc[r] \notin {"restore", "release"}
      BY PendingFacts DEF WatchdogPending
    <2> QED
      BY <1>1, <2>1
  <1>6. wire[i].msg.arg # Nil /\ wire[i].from # Nil
    BY QuietParts, WireEntry DEF Messages, WireInv
  <1>7. group.stream = Ann
    BY DEF HomeInv
  <1> QED
    BY <1>1, <1>2, <1>4, <1>5, <1>6, <1>7, QuietParts DEF RpcInv

\* Nobody owes two streams.
LEMMA OwedOnce ==
    ASSUME QuietInv, HomeInv, NEW s \in Owed, NEW t \in Owed
    PROVE  s = t
  <1> USE NilIsNot
  <1>1. \A r \in Requests : live[r] # Nil => owner = r
    BY QuietParts DEF HomeInv, Serialised, Critical
  <1>2. CASE \E i \in DOMAIN wire : wire[i].msg.op = "stream" /\ wire[i].msg.arg # Ann
    BY <1>2, WayBack, OwedFacts
  <1>3. CASE ~\E i \in DOMAIN wire : wire[i].msg.op = "stream" /\ wire[i].msg.arg # Ann
    <2>1. \A u \in Owed : u # Nil /\ (u = sticky \/ \E r \in Requests : u = live[r])
      BY <1>3, OwedFacts
    <2>2. ASSUME sticky # Nil, NEW r \in Requests, live[r] # Nil PROVE live[r] = sticky
      BY <2>2, QuietParts DEF HomeInv, KnowsGroup, Ducking
    <2> QED
      BY <1>1, <2>1, <2>2
  <1> QED
    BY <1>2, <1>3

\* On the announcement stream somebody owes a way back, and home is where it leads.
LEMMA HomeValue ==
    QuietInv /\ HomeInv /\ group.stream = Ann => Owed # {} /\ \A s \in Owed : HomeOf = s
  <1> USE NilIsNot
  <1> SUFFICES ASSUME QuietInv, HomeInv, group.stream = Ann
               PROVE  Owed # {} /\ \A s \in Owed : HomeOf = s
    OBVIOUS
  <1>1. Owed # {}
    <2>1. \A r \in Requests : live[r] # Ann
      BY QuietParts DEF HoldInv
    <2>2. sticky # Ann /\ Owing
      BY QuietParts, StrandSplit DEF HoldInv, QuietInv
    <2>3. \A i \in DOMAIN wire : wire[i].msg.op = "stream" => wire[i].msg.arg # Nil
      <3>1. \A i \in DOMAIN wire : wire[i].msg \in Messages
        BY QuietParts, WireEntry
      <3> QED
        BY <3>1 DEF Messages
    <2> QED
      BY <2>1, <2>2, <2>3, OwedFacts DEF Owing
  <1>2. (CHOOSE s \in Owed : TRUE) \in Owed
    BY <1>1
  <1> QED
    BY <1>1, <1>2, OwedOnce DEF HomeOf

\* Home stays what it is while the group stays and nobody forgets what he owes.
LEMMA HomeStays ==
    ASSUME QuietInv, HomeInv, QuietInv', HomeInv', group' = group,
           group.stream = Ann => Owed \subseteq Owed'
    PROVE  HomeOf' = HomeOf
  <1>1. QuietInv /\ HomeInv /\ group.stream = Ann => Owed # {} /\ \A s \in Owed : HomeOf = s
    BY HomeValue
  <1>2. (QuietInv /\ HomeInv /\ group.stream = Ann => Owed # {} /\ \A s \in Owed : HomeOf = s)'
    BY HomeValue, PTL
  <1> QED
    BY <1>1, <1>2 DEF HomeOf

\* The part of a step of request r that its place decides.
HomeStep(r) ==
    /\ group' = group
    /\ sticky' # Nil => group.stream = Ann
    /\ live'[r] # Nil => pc'[r] \in {"switch", "holdSwitch", "play", "restore"}
    /\ pc'[r] \in Ducking => sticky' = Nil /\ net'[r] = "sent" /\ live'[r] = group.stream
    /\ pc'[r] = "play" /\ live'[r] # Nil => group.stream = Ann /\ sticky' \in {Nil, live'[r]}
    /\ pc'[r] \in {"restore", "release"} => group.stream = Ann
    /\ pc'[r] = "restore" => \A j \in DOMAIN wire' \ DOMAIN wire : wire'[j].msg.arg = live'[r]
    /\ group.stream = Ann => /\ sticky # Nil => sticky \in Owed'
                             /\ live[r] # Nil => live[r] \in Owed'

\* All that is left to show for such a step.
LEMMA HomeRequest ==
    ASSUME QuietInv, QuietInv', HomeInv, NEW r \in Requests, owner \in {r, Nil}, owner' \in {r, Nil},
           net[r] # "sent", Sends(r), HomeStep(r),
           \A q \in Requests \ {r} : live'[q] = live[q] /\ pc'[q] = pc[q]
    PROVE  HomeInv' /\ HomeOf' = HomeOf
  <1> USE NilIsNot
  <1>1. \A q \in Requests \ {r} : pc[q] \notin Critical /\ live[q] = Nil
    BY QuietParts DEF Serialised, HomeInv, Critical
  <1>2. \A i \in DOMAIN wire : wire[i].from # r
    BY QuietParts DEF RpcInv
  <1>3. ASSUME NEW i \in DOMAIN wire', wire'[i].msg.op = "stream", wire'[i].msg.arg # Ann
        PROVE  /\ group'.stream = Ann
               /\ At(wire[i].from)' = "restore" =>
                     wire'[i].from = Watchdog \/ wire'[i].msg.arg = live'[wire'[i].from]
    <2>1. CASE i \in DOMAIN wire
      <3>1. wire'[i] = wire[i] /\ group.stream = Ann
        BY <1>3, <2>1 DEF Sends, HomeInv, HomeStep
      <3>2. wire[i].from = Watchdog \/ wire[i].from \in Requests \ {r}
        BY <1>2, <1>3, <2>1, <3>1, WayBack
      <3>3. wire[i].from \in Requests \ {r} => At(wire[i].from)' # "restore"
        BY <1>1, <3>1 DEF At, Critical
      <3> QED
        BY <3>1, <3>2, <3>3 DEF HomeStep
    <2>2. CASE i \notin DOMAIN wire
      <3>1. wire'[i].from = r /\ At(wire[i].from)' = pc'[r]
        BY <2>2 DEF Sends, At
      <3>2. Fits(At(wire[i].from)', wire'[i].msg) /\ Says(At(wire[i].from)', wire'[i].msg)
        BY <3>1 DEF QuietInv, ZoneInv, RpcInv, WireInv
      <3>3. pc'[r] \in Calling
        BY <3>1 DEF QuietInv, ZoneInv, RpcInv
      <3>4. pc'[r] \in {"restore", "release"}
        BY <1>3, <3>1, <3>2, <3>3 DEF Fits, Says, Calling, Listing, Ducking
      <3> QED
        BY <2>2, <3>1, <3>4 DEF HomeStep
    <2> QED
      BY <2>1, <2>2
  <1>4. HomeInv'
    BY <1>1, <1>3 DEF HomeInv, HomeStep, Critical, Ducking
  <1>5. ASSUME group.stream = Ann PROVE Owed \subseteq Owed'
    <2>1. \A i \in DOMAIN wire : i \in DOMAIN wire' /\ wire'[i] = wire[i]
      BY DEF Sends
    <2>2. \A i \in DOMAIN wire :
             wire[i].msg.op = "stream" /\ wire[i].msg.arg \notin {Nil, Ann} => wire[i].msg.arg \in Owed'
      BY <2>1 DEF Owed
    <2> QED
      BY <1>1, <1>5, <2>2, OwedFacts DEF HomeStep
  <1> QED
    BY <1>4, <1>5, HomeStays DEF HomeStep

\* A request calls or hangs up; its call is the only new one.
LEMMA CallSends ==
    ASSUME QuietInv, NEW r \in Callers, NEW m \in Messages, Calls(r, m)
    PROVE  /\ Sends(r) /\ net'[r] = "sent"
           /\ \E j \in DOMAIN wire' : wire'[j].msg = m
           /\ \A j \in DOMAIN wire' \ DOMAIN wire : wire'[j].msg = m
  <1> DEFINE e == [from |-> r, msg |-> m]
  <1>0. RpcTypeOK /\ Answering
    BY QuietParts
  <1>1. e \in Entries /\ e.from = r /\ e.msg = m
    BY DEF Entries
  <1>2. wire' = Append(wire, e) /\ net' = [net EXCEPT ![r] = "sent"]
    BY <1>0 DEF Calls, Answering
  <1>3. /\ DOMAIN wire' = 1 .. Len(wire) + 1 /\ DOMAIN wire = 1 .. Len(wire)
        /\ Len(wire) \in Nat
        /\ \A i \in DOMAIN wire : wire'[i] = wire[i]
        /\ wire'[Len(wire) + 1] = e
    BY <1>0, <1>1, <1>2, AppendFacts DEF RpcTypeOK
  <1>4. Sends(r)
    BY <1>1, <1>3 DEF Sends
  <1> QED
    BY <1>0, <1>1, <1>2, <1>3, <1>4 DEF RpcTypeOK

LEMMA HangUpSends ==
    ASSUME QuietInv, NEW r \in Callers, HangsUp(r)
    PROVE  Sends(r) /\ net'[r] = "idle" /\ wire' = wire
  BY QuietParts DEF HangsUp, Sends, RpcTypeOK

\* A request that finishes hands on what it owed, or owes nothing.
LEMMA HomeFinish ==
    ASSUME QuietInv, QuietInv', HomeInv, NEW r \in Requests, owner \in {r, Nil}, net[r] # "sent",
           Finish(r), group' = group,
           sticky' # Nil => group.stream = Ann,
           group.stream = Ann => /\ sticky # Nil => sticky' = sticky
                                 /\ live[r] # Nil => sticky' = live[r]
    PROVE  HomeInv' /\ HomeOf' = HomeOf
  <1> USE NilIsNot
  <1>0. LockTypeOK /\ HoldTypeOK /\ HoldInv
    BY QuietParts
  <1>1. /\ owner' = Nil /\ pc'[r] = "done" /\ live'[r] = Nil /\ HangsUp(r)
        /\ \A q \in Requests \ {r} : live'[q] = live[q] /\ pc'[q] = pc[q]
    BY <1>0 DEF Finish, Unlocks, LockTypeOK, HoldTypeOK
  <1>2. Sends(r)
    BY <1>1, HangUpSends
  <1>3. sticky' \notin {Nil, Ann} => sticky' \in Owed'
    BY DEF Owed
  <1>4. HomeStep(r)
    BY <1>0, <1>1, <1>3 DEF HomeStep, HoldInv, Ducking
  <1> QED
    BY <1>1, <1>2, <1>4, HomeRequest

LEMMA HomeBegin ==
    ASSUME QuietInv, QuietInv', HomeInv, NEW r \in Requests,
           NEW k \in Kinds, NEW v \in Volumes \cup {Nil},
           owner = Nil, pc[r] \in {"new", "queued"}, Begin(r, k, v), group' = group
    PROVE  HomeInv' /\ HomeOf' = HomeOf
  <1> USE NilIsNot
  <1>0. /\ LockTypeOK /\ HoldTypeOK /\ HoldInv /\ net[r] = "idle" /\ live[r] = Nil
    BY QuietParts DEF RpcInv, Calling, HomeInv
  <1>1. sticky # Nil => group.stream = Ann /\ sticky # Ann
    BY <1>0 DEF HomeInv, HoldInv
  <1>2. sticky' \notin {Nil, Ann} => sticky' \in Owed'
    BY DEF Owed
  <1>3. CASE /\ UNCHANGED <<live, sticky>>
             /\ \E where \in {"volume", "list", "holdList", "play"} : Goes(r, where)
             /\ HangsUp(r) \/ \E m \in Messages : Calls(r, m)
    <2>1. /\ owner' = r /\ pc'[r] \in {"volume", "list", "holdList", "play"}
          /\ \A q \in Requests \ {r} : live'[q] = live[q] /\ pc'[q] = pc[q]
      BY <1>0, <1>3 DEF Goes, LockTypeOK
    <2>2. Sends(r)
      BY <1>3, CallSends, HangUpSends
    <2>3. HomeStep(r)
      BY <1>0, <1>1, <1>2, <1>3, <2>1 DEF HomeStep, Ducking
    <2> QED
      BY <1>0, <2>1, <2>2, <2>3, HomeRequest
  <1>4. CASE sticky # Nil /\ Arm(sticky) /\ Finish(r)
    BY <1>0, <1>1, <1>4, HomeFinish DEF Arm
  <1>5. CASE /\ sticky # Nil /\ Goes(r, "release") /\ Calls(r, SetStream(cfgGroup, sticky))
             /\ Disarm /\ UNCHANGED live
    <2>1. /\ owner' = r /\ pc'[r] = "release"
          /\ \A q \in Requests \ {r} : live'[q] = live[q] /\ pc'[q] = pc[q]
      BY <1>0, <1>5 DEF Goes, LockTypeOK
    <2> DEFINE m == SetStream(cfgGroup, sticky)
    <2>2. m \in Messages /\ m.op = "stream" /\ m.arg = sticky
      BY <1>0, <1>5, MessagesFacts, QuietParts DEF OtherTypeOK, HoldTypeOK, SetStream
    <2>3. Sends(r) /\ \E j \in DOMAIN wire' : wire'[j].msg = m
      BY <1>5, <2>2, CallSends
    <2>4. sticky \in Owed'
      BY <1>1, <1>5, <2>2, <2>3 DEF Owed
    <2>5. HomeStep(r)
      BY <1>0, <1>1, <1>5, <2>1, <2>4 DEF HomeStep, Disarm, Ducking
    <2> QED
      BY <1>0, <2>1, <2>3, <2>5, HomeRequest
  <1>6. CASE sticky = Nil /\ Disarm /\ Finish(r)
    BY <1>0, <1>6, HomeFinish DEF Disarm
  <1>7. \A u \in Volumes : SetVolume(u) \in Messages
    BY MessagesFacts
  <1> QED
    BY <1>3, <1>4, <1>5, <1>6, <1>7, MessagesFacts
       DEF Begin, BeginAnnounce, BeginHold, BeginRelease, StartSwitch, VolumeIsSet, holdVars

LEMMA HomeOwnStep ==
    ASSUME QuietInv, QuietInv', HomeInv, NEW r \in Requests, Step(r)
    PROVE  HomeInv' /\ HomeOf' = HomeOf
  <1> USE NilIsNot
  <1>0. /\ LockTypeOK /\ HoldTypeOK /\ OtherTypeOK /\ HoldInv
        /\ pc[r] \in Critical /\ owner = r /\ net[r] # "sent" /\ (pc[r] # "play" => net[r] = "ok")
    BY OwnerFacts, QuietParts
       DEF Step, VolumeDone, Listed, SwitchDone, PlayEnd, RestoreDone,
           HoldListed, HoldDone, ReleaseDone, Critical
  <1>1. group' = group
    BY DEF Step, VolumeDone, Listed, SwitchDone, PlayEnd, RestoreDone,
           HoldListed, HoldDone, ReleaseDone, snapVars
  <1>2. /\ sticky # Nil => group.stream = Ann /\ sticky # Ann
        /\ live[r] # Nil => live[r] # Ann /\ pc[r] \in {"switch", "holdSwitch", "play", "restore"}
    BY <1>0 DEF HomeInv, HoldInv
  <1>3. /\ sticky' \notin {Nil, Ann} => sticky' \in Owed'
        /\ live'[r] \notin {Nil, Ann} => live'[r] \in Owed'
    BY DEF Owed
  <1>4. CASE VolumeDone(r)
    <2>1. /\ owner' = r /\ pc[r] = "volume" /\ pc'[r] \in {"list", "play"}
          /\ \A q \in Requests \ {r} : live'[q] = live[q] /\ pc'[q] = pc[q]
          /\ UNCHANGED <<live, sticky>>
      BY <1>0, <1>4 DEF VolumeDone, StartSwitch, Goes, LockTypeOK, holdVars
    <2>2. Sends(r)
      BY <1>4, CallSends, HangUpSends, MessagesFacts DEF VolumeDone, StartSwitch
    <2>3. HomeStep(r)
      BY <1>1, <1>2, <1>3, <2>1 DEF HomeStep, Ducking
    <2> QED
      BY <1>0, <2>1, <2>2, <2>3, HomeRequest
  <1>5. CASE Listed(r) \/ HoldListed(r)
    <2>1. /\ pc[r] \in Listing /\ live[r] = Nil
          /\ reply[r].stream = group.stream /\ reply[r] \in Groups
          /\ reply[r].id = group.id /\ reply[r].at = "joined"
          /\ cfgStream = Ann /\ sticky' = sticky
          /\ group.stream = Ann => sticky # Nil
      BY <1>2, <1>5, ListedFacts DEF Listed, HoldListed, Listing, holdVars
    <2>2. CASE /\ live'[r] = group.stream /\ group.stream # Ann
               /\ live' = [live EXCEPT ![r] = live'[r]]
               /\ \E where \in Ducking : Goes(r, where)
               /\ Calls(r, SetStream(reply[r].id, cfgStream))
      <3>1. /\ owner' = r /\ pc'[r] \in Ducking
            /\ \A q \in Requests \ {r} : live'[q] = live[q] /\ pc'[q] = pc[q]
        BY <1>0, <2>2 DEF Goes, LockTypeOK, HoldTypeOK, Ducking
      <3>2. SetStream(reply[r].id, cfgStream) \in Messages
        BY <2>1, MessagesFacts, QuietParts
      <3>3. Sends(r) /\ net'[r] = "sent"
        BY <2>2, <3>2, CallSends
      <3>4. HomeStep(r)
        BY <1>1, <1>2, <2>1, <2>2, <3>1, <3>3 DEF HomeStep, Ducking
      <3> QED
        BY <1>0, <3>1, <3>3, <3>4, HomeRequest
    <2>3. CASE /\ group.stream = Ann /\ live' = [live EXCEPT ![r] = sticky]
               /\ Goes(r, "play") /\ HangsUp(r)
      <3>1. /\ owner' = r /\ pc'[r] = "play" /\ live'[r] = sticky
            /\ \A q \in Requests \ {r} : live'[q] = live[q] /\ pc'[q] = pc[q]
        BY <1>0, <2>3 DEF Goes, LockTypeOK, HoldTypeOK
      <3>2. Sends(r)
        BY <2>3, HangUpSends
      <3>3. HomeStep(r)
        BY <1>1, <1>2, <1>3, <2>1, <2>3, <3>1 DEF HomeStep, Ducking
      <3> QED
        BY <1>0, <3>1, <3>2, <3>3, HomeRequest
    <2>4. CASE Finish(r)
      BY <1>0, <1>1, <1>2, <2>1, <2>4, HomeFinish
    <2>5. CASE Listed(r)
      <3>1. group.stream # Ann => sticky = Nil
        BY <1>2
      <3>2. CASE reply[r].stream # cfgStream
        <4>1. /\ live' = [live EXCEPT ![r] = group.stream]
              /\ Goes(r, "switch") /\ Calls(r, SetStream(reply[r].id, cfgStream))
          BY <1>0, <2>1, <2>5, <3>1, <3>2 DEF Listed, Found, Home
        <4>2. live'[r] = group.stream
          BY <1>0, <4>1 DEF HoldTypeOK
        <4> QED
          BY <2>1, <2>2, <3>2, <4>1, <4>2 DEF Ducking
      <3>3. CASE reply[r].stream = cfgStream
        <4>1. /\ live' = [live EXCEPT ![r] = sticky]
              /\ Goes(r, "play") /\ HangsUp(r)
          BY <1>0, <2>1, <2>5, <3>3 DEF Listed, Found, Home
        <4> QED
          BY <2>1, <2>3, <3>3, <4>1
      <3> QED
        BY <3>2, <3>3
    <2>6. CASE HoldListed(r)
      <3>1. CASE ~Finish(r)
        <4>1. /\ live' = [live EXCEPT ![r] = group.stream] /\ reply[r].stream # cfgStream
              /\ Goes(r, "holdSwitch") /\ Calls(r, SetStream(reply[r].id, cfgStream))
          BY <1>0, <2>1, <2>6, <3>1 DEF HoldListed
        <4>2. live'[r] = group.stream
          BY <1>0, <4>1 DEF HoldTypeOK
        <4> QED
          BY <2>1, <2>2, <4>1, <4>2 DEF Ducking
      <3> QED
        BY <2>4, <3>1
    <2> QED
      BY <1>5, <2>5, <2>6
  <1>6. CASE SwitchDone(r)
    <2>1. /\ owner' = r /\ pc[r] = "switch" /\ pc'[r] = "play" /\ HangsUp(r)
          /\ \A q \in Requests \ {r} : live'[q] = live[q] /\ pc'[q] = pc[q]
          /\ UNCHANGED <<live, sticky>> /\ net[r] = "ok"
      BY <1>0, <1>6 DEF SwitchDone, Goes, LockTypeOK, HoldTypeOK, holdVars
    <2>2. Sends(r)
      BY <2>1, HangUpSends
    <2>3. HomeStep(r)
      BY <1>1, <1>2, <1>3, <2>1 DEF HomeStep, HomeInv, Ducking
    <2> QED
      BY <1>0, <2>1, <2>2, <2>3, HomeRequest
  <1>7. CASE PlayEnd(r)
    <2>1. pc[r] = "play" /\ (live[r] # Nil => group.stream = Ann /\ sticky \in {Nil, live[r]})
      BY <1>7 DEF PlayEnd, HomeInv
    <2>2. CASE Finish(r)
      <3>1. \/ live[r] = Nil /\ sticky' = sticky
            \/ live[r] # Nil /\ sticky' = live[r]
        BY <1>0, <1>7, <2>2 DEF PlayEnd, Finish, Arm, Goes, holdVars, LockTypeOK
      <3> QED
        BY <1>0, <1>1, <1>2, <2>1, <2>2, <3>1, HomeFinish
    <2>3. CASE /\ live[r] # Nil /\ Disarm /\ Goes(r, "restore")
               /\ Calls(r, SetStream(cfgGroup, live[r])) /\ UNCHANGED live
      <3>1. /\ owner' = r /\ pc'[r] = "restore"
            /\ \A q \in Requests \ {r} : live'[q] = live[q] /\ pc'[q] = pc[q]
        BY <1>0, <2>3 DEF Goes, LockTypeOK
      <3> DEFINE m == SetStream(cfgGroup, live[r])
      <3>2. m \in Messages /\ m.op = "stream" /\ m.arg = live[r]
        BY <1>0, <2>3, MessagesFacts DEF OtherTypeOK, HoldTypeOK, SetStream
      <3>3. /\ Sends(r) /\ \E j \in DOMAIN wire' : wire'[j].msg = m
            /\ \A j \in DOMAIN wire' \ DOMAIN wire : wire'[j].msg = m
        BY <2>3, <3>2, CallSends
      <3>4. HomeStep(r)
        BY <1>1, <1>2, <1>3, <2>1, <2>3, <3>1, <3>2, <3>3 DEF HomeStep, Disarm, Ducking
      <3> QED
        BY <1>0, <3>1, <3>3, <3>4, HomeRequest
    <2> QED
      BY <1>7, <2>2, <2>3 DEF PlayEnd
  <1>8. CASE HoldDone(r)
    <2>1. pc[r] = "holdSwitch" /\ sticky = Nil /\ group.stream = Ann /\ sticky' = live[r] /\ Finish(r)
      BY <1>0, <1>8 DEF HoldDone, Arm, HomeInv, Ducking
    <2> QED
      BY <1>0, <1>1, <2>1, HomeFinish
  <1>9. CASE RestoreDone(r) \/ ReleaseDone(r)
    <2>1. group.stream # Ann /\ sticky' = sticky /\ Finish(r)
      BY <1>0, <1>9, QuietParts DEF RestoreDone, ReleaseDone, KnowsGroup, holdVars
    <2> QED
      BY <1>0, <1>1, <1>2, <2>1, HomeFinish
  <1> QED
    BY <1>4, <1>5, <1>6, <1>7, <1>8, <1>9 DEF Step

\* The watchdog, the scan, the administrator and the slider.
LEMMA HomeOutside ==
    ASSUME QuietInv, QuietInv', HomeInv, NEW p \in {Watchdog, Scanner}, Sends(p),
           UNCHANGED <<pc, live, group>>, \A r \in Requests : net'[r] = net[r],
           sticky' \in {sticky, Nil},
           sticky' # sticky => sticky \in Owed',
           p = Watchdog => wire' = wire \/ sticky # Nil
    PROVE  HomeInv' /\ HomeOf' = HomeOf
  <1> USE NilIsNot
  <1>1. \A i \in DOMAIN wire : i \in DOMAIN wire' /\ wire'[i] = wire[i]
    BY DEF Sends
  <1>2. ASSUME NEW i \in DOMAIN wire', wire'[i].msg.op = "stream", wire'[i].msg.arg # Ann
        PROVE  /\ group'.stream = Ann
               /\ At(wire[i].from)' = "restore" =>
                     wire'[i].from = Watchdog \/ wire'[i].msg.arg = live'[wire'[i].from]
    <2>1. CASE i \in DOMAIN wire
      BY <1>1, <1>2, <2>1 DEF HomeInv, At
    <2>2. CASE i \notin DOMAIN wire
      <3>1. wire'[i].from = p
        BY <2>2 DEF Sends
      <3>2. p # Scanner
        BY <1>2, <3>1 DEF QuietInv, ZoneInv, RpcInv, Fits, At, Listing
      <3> QED
        BY <2>2, <3>1, <3>2 DEF HomeInv
    <2> QED
      BY <2>1, <2>2
  <1>3. HomeInv'
    BY <1>2 DEF HomeInv
  <1>4. Owed \subseteq Owed'
    <2>1. \A i \in DOMAIN wire :
             wire[i].msg.op = "stream" /\ wire[i].msg.arg \notin {Nil, Ann} => wire[i].msg.arg \in Owed'
      BY <1>1 DEF Owed
    <2>2. \A r \in Requests : live[r] \notin {Nil, Ann} => live[r] \in Owed'
      BY DEF Owed
    <2>3. sticky \notin {Nil, Ann} => sticky \in Owed'
      BY DEF Owed
    <2> QED
      BY <2>1, <2>2, <2>3, OwedFacts
  <1> QED
    BY <1>3, <1>4, HomeStays

LEMMA HomeRest ==
    ASSUME QuietInv, QuietInv', HomeInv,
           Timer \/ ScanStarts \/ ScanDone \/ Toggle \/ \E v \in Volumes : UserSetsVolume(v)
    PROVE  HomeInv' /\ HomeOf' = HomeOf
  <1> USE NilIsNot
  <1>0. RpcTypeOK /\ Answering /\ HoldTypeOK /\ HoldInv /\ OtherTypeOK
    BY QuietParts
  <1>1. UNCHANGED <<pc, live, group>>
    BY DEF Timer, TimerExpires, WatchdogDefers, WatchdogFires, WatchdogDone, ScanStarts, ScanDone,
           Toggle, UserSetsVolume, reqVars, snapVars
  <1>2. CASE TimerExpires \/ WatchdogDefers \/ Toggle \/ \E v \in Volumes : UserSetsVolume(v)
    <2>1. UNCHANGED <<sticky, net, wire>>
      BY <1>2 DEF TimerExpires, WatchdogDefers, Toggle, UserSetsVolume, holdVars, rpcVars
    <2>2. Sends(Scanner)
      BY <2>1 DEF Sends
    <2> QED
      BY <1>1, <2>1, <2>2, HomeOutside
  <1>3. CASE WatchdogFires
    <2> DEFINE m == SetStream(cfgGroup, sticky)
    <2>1. sticky # Nil /\ sticky # Ann /\ sticky' = Nil /\ Calls(Watchdog, m)
      BY <1>0, <1>3 DEF WatchdogFires, Disarm, HoldInv, HoldHasTimer
    <2>2. m \in Messages /\ m.op = "stream" /\ m.arg = sticky
      BY <1>0, <2>1, MessagesFacts DEF OtherTypeOK, HoldTypeOK, SetStream
    <2>3. /\ Sends(Watchdog) /\ \E j \in DOMAIN wire' : wire'[j].msg = m
          /\ \A r \in Requests : net'[r] = net[r]
      BY <1>0, <2>1, <2>2, CallSends DEF Calls, Answering, RpcTypeOK
    <2>4. sticky \in Owed'
      BY <2>1, <2>2, <2>3 DEF Owed
    <2> QED
      BY <1>1, <2>1, <2>3, <2>4, HomeOutside
  <1>4. CASE ScanStarts
    <2>1. sticky' = sticky /\ Calls(Scanner, ListGroups) /\ ListGroups \in Messages
      BY <1>4, MessagesFacts DEF ScanStarts, holdVars
    <2>2. Sends(Scanner) /\ \A r \in Requests : net'[r] = net[r]
      BY <1>0, <2>1, CallSends DEF Calls, Answering, RpcTypeOK
    <2> QED
      BY <1>1, <2>1, <2>2, HomeOutside
  <1>5. CASE WatchdogDone \/ ScanDone
    <2>1. sticky' = sticky /\ \E p \in {Watchdog, Scanner} : HangsUp(p)
      BY <1>5 DEF WatchdogDone, ScanDone, holdVars
    <2>2. PICK p \in {Watchdog, Scanner} : HangsUp(p)
      BY <2>1
    <2>3. Sends(p) /\ wire' = wire /\ \A r \in Requests : net'[r] = net[r]
      BY <1>0, <2>2 DEF HangsUp, Sends, RpcTypeOK
    <2> QED
      BY <1>1, <2>1, <2>3, HomeOutside
  <1> QED
    BY <1>2, <1>3, <1>4, <1>5 DEF Timer

\* Arriving at a zone that is busy, or that has nothing to do.
LEMMA HomeQueue ==
    ASSUME QuietInv, QuietInv', HomeInv, NEW r \in Requests, pc[r] = "new",
           pc' = [pc EXCEPT ![r] = "done"] \/ pc' = [pc EXCEPT ![r] = "queued"],
           UNCHANGED <<live, sticky, group, net, wire>>
    PROVE  HomeInv' /\ HomeOf' = HomeOf
  <1> USE NilIsNot
  <1>1. /\ pc'[r] \in {"done", "queued"} /\ live[r] = Nil /\ net[r] = "idle"
        /\ \A q \in Requests \ {r} : pc'[q] = pc[q]
    BY QuietParts DEF LockTypeOK, HomeInv, RpcInv, Calling
  <1>2. \A i \in DOMAIN wire : wire[i].from # r
    BY <1>1, QuietParts DEF RpcInv
  <1>3. HomeInv'
    BY <1>1, <1>2 DEF HomeInv, Ducking, At
  <1>4. Owed' = Owed
    BY DEF Owed
  <1> QED
    BY <1>3, <1>4, HomeStays

LEMMA HomeArrive ==
    ASSUME QuietInv, QuietInv', HomeInv,
           NEW r \in Requests, NEW k \in Kinds, NEW v \in Volumes \cup {Nil}, Arrive(r, k, v)
    PROVE  HomeInv' /\ HomeOf' = HomeOf
  <1>1. pc[r] = "new" /\ UNCHANGED group
    BY DEF Arrive, snapVars
  <1>2. CASE Uncontended /\ Begin(r, k, v)
    BY <1>1, <1>2, HomeBegin DEF Uncontended, Locked
  <1>3. CASE /\ UNCHANGED <<live, holdVars, rpcVars>>
             /\ pc' = [pc EXCEPT ![r] = "done"] \/ pc' = [pc EXCEPT ![r] = "queued"]
    BY <1>1, <1>3, HomeQueue DEF holdVars, rpcVars
  <1> QED
    BY <1>2, <1>3 DEF Arrive

LEMMA HomeGrant ==
    ASSUME QuietInv, QuietInv', HomeInv, Grant
    PROVE  HomeInv' /\ HomeOf' = HomeOf
  <1> DEFINE r == Head(queue)
  <1>0. Serialised /\ LockTypeOK /\ OtherTypeOK /\ owner = Nil
    BY QuietParts DEF Grant, Locked
  <1>1. UNCHANGED group
    BY DEF Grant, snapVars
  <1>2. r \in Requests /\ pc[r] = "queued" /\ Begin(r, kind[r], vol[r])
    <2>1. r \in Requests /\ 1 \in DOMAIN queue /\ r = queue[1]
      BY <1>0, TailFacts DEF Grant, LockTypeOK
    <2> QED
      BY <1>0, <2>1 DEF Grant, Serialised
  <1>3. kind[r] \in Kinds /\ vol[r] \in Volumes \cup {Nil}
    BY <1>0, <1>2 DEF OtherTypeOK, Begin, Kinds
  <1> HIDE DEF r
  <1> QED
    BY <1>0, <1>1, <1>2, <1>3, HomeBegin

\* A call that snapserver runs is no step of the promise unless it switches the
\* group, and then it ducks it or brings the music back.
LEMMA HomeServe ==
    ASSUME QuietInv, QuietInv', HomeInv, Calmly, Serve
    PROVE  /\ HomeInv' /\ HomeOf' = HomeOf
           /\ \/ group'.stream = group.stream
              \/ group.stream # Ann /\ group'.stream = Ann
              \/ group.stream = Ann /\ group'.stream = HomeOf /\ Heard = {}
  <1> DEFINE m == Head(wire).msg
             p == Head(wire).from
  <1> USE NilIsNot
  <1>0. RpcTypeOK /\ Serialised /\ RpcInv /\ HoldInv /\ HoldTypeOK /\ OtherTypeOK /\ group \in Groups
    BY QuietParts DEF OtherTypeOK
  <1>1. UNCHANGED <<owner, pc, live, sticky>>
    BY DEF Serve, lockVars, reqVars, holdVars
  <1>2. /\ 1 \in DOMAIN wire /\ wire[1] = Head(wire)
        /\ p \in Callers /\ m \in Messages /\ net[p] = "sent" /\ Known(m)
        /\ At(p) \in Listing => m.op = "list"
        /\ At(p) = "volume" => m.op = "volume"
        /\ At(p) \in Ducking => m.op = "stream" /\ m.arg = Ann
        /\ At(p) \in {"restore", "release"} => m.op = "stream" /\ m.arg # Ann
        /\ p # Watchdog /\ p # Scanner => p \in Requests /\ owner = p
    BY HeadFacts DEF Serve
  <1>3. \A i \in DOMAIN wire' : i + 1 \in DOMAIN wire /\ wire'[i] = wire[i + 1] /\ i + 1 # 1
    BY <1>0, TailFacts DEF Serve, RpcTypeOK
  <1>4. \A i \in DOMAIN wire : i = 1 \/ (i - 1 \in DOMAIN wire' /\ wire'[i - 1] = wire[i])
    <2>1. /\ DOMAIN wire = 1 .. Len(wire) /\ Len(wire) \in Nat
          /\ DOMAIN wire' = 1 .. Len(wire) - 1
      BY <1>0, LenProperties, HeadTailProperties DEF RpcTypeOK, Serve
    <2>2. ASSUME NEW i \in DOMAIN wire, i # 1
          PROVE  i - 1 \in DOMAIN wire' /\ wire'[i - 1] = wire[i]
      <3>1. i - 1 \in DOMAIN wire' /\ (i - 1) + 1 = i
        BY <2>1, <2>2
      <3> QED
        BY <3>1, <1>3
    <2> QED
      BY <2>2
  <1>5. net'[p] = "ok" /\ \A q \in Callers \ {p} : net'[q] = net[q]
    BY <1>0, <1>2 DEF Serve, RpcTypeOK
  <1>6. /\ m.op = "stream" => group'.stream = m.arg
        /\ m.op # "stream" => group' = group
    BY <1>0, <1>2 DEF Serve, Groups
  <1> HIDE DEF m, p
  <1>7. ASSUME NEW i \in DOMAIN wire', wire'[i].msg.op = "stream", wire'[i].msg.arg # Ann
        PROVE  /\ group'.stream = Ann
               /\ At(wire[i].from)' = "restore" =>
                     wire'[i].from = Watchdog \/ wire'[i].msg.arg = live'[wire'[i].from]
    <2>1. i + 1 \in DOMAIN wire /\ wire'[i] = wire[i + 1] /\ i + 1 # 1
      BY <1>3
    <2>2. m.op = "stream" => m.arg = Ann
      BY <1>2, <1>7, <2>1, WayBack DEF m
    <2>3. group'.stream = Ann
      BY <1>6, <1>7, <2>1, <2>2 DEF HomeInv
    <2>4. At(wire[i].from)' = At(wire[i + 1].from)
      BY <1>1, <2>1 DEF At
    <2> QED
      BY <1>1, <1>7, <2>1, <2>3, <2>4 DEF HomeInv
  <1>8. ASSUME m.op # "stream"
        PROVE  HomeInv' /\ HomeOf' = HomeOf
    <2>1. group' = group
      BY <1>6, <1>8
    <2>2. \A r \in Requests : pc[r] \in Ducking => net'[r] = net[r]
      BY <1>2, <1>5, <1>8 DEF At
    <2>3. HomeInv'
      BY <1>1, <1>7, <2>1, <2>2 DEF HomeInv
    <2>4. \A i \in DOMAIN wire :
             wire[i].msg.op = "stream" /\ wire[i].msg.arg \notin {Nil, Ann} => wire[i].msg.arg \in Owed'
      BY <1>2, <1>4, <1>8 DEF Owed, m
    <2>5. /\ sticky \notin {Nil, Ann} => sticky \in Owed'
          /\ \A r \in Requests : live[r] \notin {Nil, Ann} => live[r] \in Owed'
      BY <1>1 DEF Owed
    <2>6. Owed \subseteq Owed'
      BY <2>4, <2>5, OwedFacts
    <2> QED
      BY <2>1, <2>3, <2>6, HomeStays
  <1>9. ASSUME m.op = "stream", m.arg = Ann
        PROVE  HomeInv' /\ HomeOf' = HomeOf /\ group.stream # Ann /\ group'.stream = Ann
    <2>1. /\ p \in Requests /\ owner = p /\ pc[p] \in Ducking
      <3>1. p # Watchdog /\ p # Scanner
        BY <1>2, <1>9 DEF At, Listing
      <3>2. p \in Requests /\ owner = p /\ pc[p] \in Calling /\ At(p) = pc[p]
        BY <1>0, <1>2, <3>1 DEF At, RpcInv
      <3> QED
        BY <1>2, <1>9, <3>2 DEF Calling, Listing, Ducking
    <2>2. live[p] = group.stream /\ live[p] # Nil /\ live[p] # Ann
      BY <1>0, <1>2, <2>1 DEF HomeInv, HoldInv, Groups
    <2>3. \A r \in Requests : pc[r] \in Ducking \/ live[r] # Nil => r = p
      BY <1>0, <2>1 DEF HomeInv, Serialised, Critical, Ducking
    <2>4. HomeInv'
      BY <1>1, <1>5, <1>6, <1>7, <1>9, <2>1, <2>2, <2>3 DEF HomeInv, Ducking
    <2>5. live[p] \in Owed'
      BY <1>1, <2>1, <2>2 DEF Owed
    <2>6. (QuietInv /\ HomeInv /\ group.stream = Ann => Owed # {} /\ \A s \in Owed : HomeOf = s)'
      BY HomeValue, PTL
    <2>7. HomeOf' = live[p]
      BY <1>6, <1>9, <2>4, <2>5, <2>6
    <2>8. HomeOf = live[p]
      BY <2>2 DEF HomeOf
    <2> QED
      BY <1>6, <1>9, <2>2, <2>4, <2>7, <2>8
  <1>10. ASSUME m.op = "stream", m.arg # Ann
         PROVE  HomeInv' /\ HomeOf' = HomeOf /\ group.stream = Ann /\ group'.stream = HomeOf /\ Heard = {}
    <2>1. group.stream = Ann /\ sticky = Nil /\ m.arg # Nil /\ m.arg \in Owed
      BY <1>2, <1>10, WayBack, OwedFacts DEF m
    <2>2. HomeOf = m.arg
      BY <2>1, HomeValue
    <2>3. group'.stream # group.stream
      BY <1>6, <1>10, <2>1
    <2>4. \A r \in Requests : pc[r] # "play"
      BY <2>3, <2>1, GroupChanges DEF Next
    <2>5. \A r \in Requests : pc[r] \notin Ducking
      <3>1. ASSUME NEW r \in Requests, pc[r] \in Ducking PROVE FALSE
        <4>1. live[r] # Nil
          BY <1>0, <3>1 DEF HoldInv, Ducking
        <4>2. r = owner /\ pc[owner] \in {"restore", "release"}
          BY <1>2, <1>10, <4>1, WayBack DEF m
        <4> QED
          BY <3>1, <4>2 DEF Ducking
      <3> QED
        BY <3>1
    <2>6. HomeInv'
      BY <1>1, <1>7, <2>1, <2>4, <2>5 DEF HomeInv
    <2> QED
      BY <1>6, <1>10, <2>1, <2>2, <2>4, <2>6 DEF HomeOf, Heard
  <1> QED
    BY <1>6, <1>8, <1>9, <1>10

\* The announcement that is heard is the lock owner's.
LEMMA OneHeard ==
    ASSUME QuietInv
    PROVE  Heard = IF owner \in Heard THEN {owner} ELSE {}
  BY NilIsNot, QuietParts DEF Heard, Serialised, Critical

\* Only an unlocked zone changes hands.
LEMMA OwnerPasses ==
    ASSUME QuietInv, [Next]_vars, Calmly
    PROVE  owner = Nil \/ owner' \in {owner, Nil}
  <1>1. ASSUME NEW r \in Requests, Step(r) PROVE owner' \in {owner, Nil}
    <2>1. owner = r
      BY <1>1, QuietParts
         DEF Serialised, Step, VolumeDone, Listed, SwitchDone, PlayEnd, RestoreDone,
             HoldListed, HoldDone, ReleaseDone, Critical
    <2> QED
      BY <1>1, <2>1 DEF Step, VolumeDone, StartSwitch, Listed, SwitchDone, PlayEnd, RestoreDone,
                        HoldListed, HoldDone, ReleaseDone, Finish, Unlocks, Goes
  <1>2. ASSUME ~\E r \in Requests : Step(r), owner # Nil PROVE owner' = owner
    BY <1>2, NothingStrikes
       DEF Next, Disturb, Arrive, Uncontended, Grant, Locked, Timer, TimerExpires, WatchdogDefers,
           WatchdogFires, WatchdogDone, Serve, ScanDone, ScanStarts, Toggle, UserSetsVolume, Rest,
           vars, lockVars
  <1> QED
    BY <1>1, <1>2

\* Every other step leaves the group and home alone.
LEMMA HomeNext ==
    ASSUME QuietInv, QuietInv', HomeInv, [Next]_vars, Calmly, ~Serve
    PROVE  HomeInv' /\ HomeOf' = HomeOf /\ group'.stream = group.stream
  <1>1. group'.stream = group.stream
    BY GroupChanges
  <1>2. CASE \E r \in Requests, k \in Kinds, v \in Volumes \cup {Nil} : Arrive(r, k, v)
    BY <1>1, <1>2, HomeArrive
  <1>3. CASE Grant
    BY <1>1, <1>3, HomeGrant
  <1>4. CASE \E r \in Requests : Step(r)
    BY <1>1, <1>4, HomeOwnStep
  <1>5. CASE Timer \/ ScanStarts \/ ScanDone \/ Toggle \/ \E v \in Volumes : UserSetsVolume(v)
    BY <1>1, <1>5, HomeRest
  <1>6. CASE Rest \/ UNCHANGED vars
    <2>1. UNCHANGED <<sticky, live, wire, pc, net, group>>
      BY <1>6 DEF Rest, vars, holdVars, reqVars, rpcVars, snapVars
    <2>2. HomeInv' /\ HomeOf' = HomeOf
      BY <2>1 DEF HomeInv, At, HomeOf, Owed
    <2> QED
      BY <1>1, <2>2
  <1> QED
    BY <1>2, <1>3, <1>4, <1>5, <1>6, NothingStrikes DEF Next, Disturb

\* The steps of the promise.
Mapped == [Promise!Next]_(Promise!vars)

LEMMA StutterMaps ==
    group'.stream = group.stream /\ UNCHANGED <<HomeOf, Heard>> => Mapped
  BY Zenon DEF Mapped, Promise!vars, HomeOf, Heard

LEMMA DuckMaps ==
    ASSUME group.stream # Ann, group'.stream = Ann, UNCHANGED <<HomeOf, Heard>>
    PROVE  Mapped
  <1>1. Promise!Duck
    BY Zenon DEF Promise!Duck, HomeOf, Heard
  <1> QED
    BY <1>1 DEF Mapped, Promise!Next

LEMMA UnduckMaps ==
    ASSUME group.stream = Ann, group'.stream = HomeOf, Heard = {}, UNCHANGED <<HomeOf, Heard>>
    PROVE  Mapped
  <1>1. Promise!Unduck
    BY Zenon DEF Promise!Unduck, HomeOf, Heard
  <1> QED
    BY <1>1 DEF Mapped, Promise!Next

LEMMA SpeakMaps ==
    ASSUME group.stream = Ann, group'.stream = group.stream, UNCHANGED HomeOf,
           NEW r \in Requests, Heard = {}, Heard' = {r}
    PROVE  Mapped
  <1>1. \E s \in Requests \ Heard : Heard' = {s}
    OBVIOUS
  <1>2. Promise!Speak
    BY <1>1, Zenon DEF Promise!Speak, HomeOf, Heard
  <1> QED
    BY <1>2 DEF Mapped, Promise!Next

LEMMA HushMaps ==
    ASSUME group'.stream = group.stream, UNCHANGED HomeOf, Heard # {}, Heard' = {}
    PROVE  Mapped
  <1>1. Promise!Hush
    BY Zenon DEF Promise!Hush, HomeOf, Heard
  <1> QED
    BY <1>1 DEF Mapped, Promise!Next

LEMMA PromiseNext ==
    ASSUME QuietInv, HomeInv, [Next]_vars, Calmly
    PROVE  HomeInv' /\ Mapped
  <1>0. QuietInv'
    BY QuietNext
  <1>1. CASE Serve
    <2>1. UNCHANGED Heard
      BY <1>1 DEF Serve, reqVars, Heard
    <2> QED
      BY <1>0, <1>1, <2>1, HomeServe, StutterMaps, DuckMaps, UnduckMaps
  <1>2. CASE ~Serve
    <2>1. HomeInv' /\ HomeOf' = HomeOf /\ group'.stream = group.stream
      BY <1>0, <1>2, HomeNext
    <2>2. /\ Heard = IF owner \in Heard THEN {owner} ELSE {}
          /\ Heard' = IF owner' \in Heard' THEN {owner'} ELSE {}
          /\ owner = Nil \/ owner' \in {owner, Nil}
          /\ Nil \notin Heard /\ Nil \notin Heard'
      <3>1. (QuietInv => Heard = IF owner \in Heard THEN {owner} ELSE {})'
        BY OneHeard, PTL
      <3> QED
        BY <1>0, <3>1, OneHeard, OwnerPasses, NilIsNot DEF Heard
    <2>3. \/ Heard' = Heard
          \/ Heard # {} /\ Heard' = {}
          \/ \E r \in Requests : Heard = {} /\ Heard' = {r}
      BY <2>2 DEF Heard
    <2>4. ASSUME NEW r \in Requests, Heard = {}, Heard' = {r} PROVE group.stream = Ann
      <3>1. pc'[r] = "play" /\ live'[r] # Nil
        BY <2>4 DEF Heard
      <3> QED
        BY <2>1, <3>1 DEF HomeInv
    <2> QED
      BY <2>1, <2>3, <2>4, StutterMaps, HushMaps, SpeakMaps
  <1> QED
    BY <1>1, <1>2

\* At rest and without a hold the promise is at its beginning.
LEMMA PromiseAtRest ==
    ASSUME AtRest, ZoneInv
    PROVE  HomeInv /\ (sticky = Nil => Promise!Init)
  <1>1. wire = <<>> /\ DOMAIN wire = {}
    BY EmptySeq DEF AtRest
  <1>2. HomeInv
    BY <1>1 DEF AtRest, HomeInv, Ducking
  <1>3. group.stream \in Streams \cup {Ann}
    BY TypeSplit DEF ZoneInv, OtherTypeOK, Groups
  <1>4. Heard = {}
    BY DEF AtRest, Heard
  <1>5. ASSUME sticky = Nil PROVE group.stream \in Streams /\ group.stream # Ann
    BY <1>3, <1>5 DEF AtRest
  <1> QED
    BY <1>2, <1>4, <1>5 DEF Promise!Init, Heard

\* Who starts to play in a linked zone has switched the group, or found it held.
LEMMA StartsHeard ==
    ASSUME QuietInv, HomeInv, [Next]_vars, Calmly, Linked,
           NEW r \in Requests, pc[r] # "play", pc'[r] = "play"
    PROVE  group.stream = Ann
  <1> USE NilIsNot
  <1>0. LockTypeOK
    BY QuietParts
  <1>1. ASSUME NEW q \in Requests, NEW k \in Kinds, NEW v \in Volumes \cup {Nil}, Begin(q, k, v)
        PROVE  FALSE
    <2>1. \E where \in PCs \ {"play"} : pc' = [pc EXCEPT ![q] = where]
      BY <1>1 DEF Begin, BeginAnnounce, BeginHold, BeginRelease, StartSwitch, Finish, Goes, PCs, Critical
    <2> QED
      BY <1>0, <2>1 DEF LockTypeOK
  <1>2. ASSUME NEW q \in Requests, NEW k \in Kinds, NEW v \in Volumes \cup {Nil}, Arrive(q, k, v)
        PROVE  FALSE
    <2>1. pc' = [pc EXCEPT ![q] = "done"] \/ pc' = [pc EXCEPT ![q] = "queued"]
      BY <1>1, <1>2 DEF Arrive
    <2> QED
      BY <1>0, <2>1 DEF LockTypeOK
  <1>3. ~Grant
    <2> SUFFICES ASSUME Grant PROVE FALSE
      OBVIOUS
    <2> DEFINE q == Head(queue)
    <2>1. q \in Requests
      BY <1>0, TailFacts DEF Grant, LockTypeOK
    <2>2. Begin(q, kind[q], vol[q])
      BY DEF Grant
    <2>3. kind[q] \in Kinds /\ vol[q] \in Volumes \cup {Nil}
      BY <2>1, <2>2, QuietParts DEF OtherTypeOK, Begin, Kinds
    <2> HIDE DEF q
    <2> QED
      BY <2>1, <2>2, <2>3, <1>1
  <1>4. PICK q \in Requests : Step(q)
    BY <1>2, <1>3, NothingStrikes
       DEF Next, Disturb, Timer, TimerExpires, WatchdogDefers, WatchdogFires, WatchdogDone,
           Serve, ScanDone, ScanStarts, Toggle, UserSetsVolume, Rest, vars, reqVars
  <1>5. VolumeDone(q) \/ Listed(q) \/ SwitchDone(q)
    BY <1>0, <1>4 DEF Step, PlayEnd, RestoreDone, HoldListed, HoldDone, ReleaseDone,
                      Finish, Goes, LockTypeOK
  <1>6. q = r
    BY <1>0, <1>5 DEF VolumeDone, StartSwitch, Listed, SwitchDone, Goes, LockTypeOK
  <1>7. ~VolumeDone(r)
    BY <1>0 DEF VolumeDone, StartSwitch, Goes, LockTypeOK
  <1>8. CASE Listed(r)
    <2>1. pc[r] = "list" /\ Answered(r)
      BY <1>8 DEF Listed
    <2>2. /\ net[r] = "ok" /\ reply[r].stream = group.stream
          /\ reply[r].at = "joined" /\ cfgStream = Ann
      BY <2>1, ListedFacts DEF Listing
    <2> QED
      BY <1>0, <1>8, <2>1, <2>2 DEF Listed, Found, Goes, LockTypeOK
  <1>9. CASE SwitchDone(r)
    <2>1. pc[r] = "switch" /\ net[r] = "ok"
      BY <1>9, OwnerFacts DEF SwitchDone, Critical
    <2> QED
      BY <2>1 DEF HomeInv, Ducking
  <1> QED
    BY <1>5, <1>6, <1>7, <1>8, <1>9

\* From any state of rest, whatever group id is stored, whoever plays in a linked
\* zone is heard (streamer.py:439-460).
THEOREM EveryoneHeard == Spec => [](AtRest /\ [][Calmly]_vars => EveryoneIsHeard)
  <1>1. ZoneInv /\ AtRest => HomeInv
    BY PromiseAtRest
  <1>2. QuietInv /\ HomeInv /\ [Next]_vars /\ [Calmly]_vars =>
          /\ HomeInv'
          /\ [\A r \in Requests : pc[r] # "play" /\ pc'[r] = "play" /\ Linked => group.stream = Ann]_vars
    BY PromiseNext, StartsHeard, StutterIsCalm
  <1> QED
    BY <1>1, <1>2, Calm, Invariance, PTL DEF Spec, EveryoneIsHeard

\* What the room hears is what module DuckingPromise allows: one announcement at a
\* time, only while the music is ducked, and the music that was taken away is the
\* music that comes back, whether the answer, a release or the watchdog brings it
\* (streamer.py:254-300, 435-497, 545-599): the safety part of KeepsPromise.
THEOREM MusicComesBack ==
    Spec => [](AtRest /\ [][Calmly]_vars =>
                  /\ sticky = Nil => Promise!Init
                  /\ [][Promise!Next]_(Promise!vars))
  <1>1. ZoneInv /\ AtRest => HomeInv /\ (sticky = Nil => Promise!Init)
    BY PromiseAtRest
  <1>2. QuietInv /\ HomeInv /\ [Next]_vars /\ [Calmly]_vars =>
           HomeInv' /\ [Promise!Next]_(Promise!vars)
    BY PromiseNext, StutterIsCalm DEF Mapped
  <1> QED
    BY <1>1, <1>2, Calm, Invariance, PTL DEF Spec
=============================================================================
