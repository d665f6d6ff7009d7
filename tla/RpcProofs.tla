----------------------------- MODULE RpcProofs -----------------------------
(***************************************************************************)
(* Proofs about module SnapcastRpc: for any number of tasks, connections,  *)
(* calls and losses, nobody's future is forgotten, a connected client has  *)
(* a read loop, and a call succeeds only if snapserver has run it.         *)
(***************************************************************************)
EXTENDS SnapcastRpc, SequenceTheorems, TLAPS

\* Ids are given out once; a future lives as long as its call.
OwnIds ==
    /\ \A t, u \in Tasks :
          pc[t] = "waiting" /\ pc[u] = "waiting" /\ call[t] = call[u] => t = u
    /\ \A t \in Tasks : future[t] # "none" <=> pc[t] = "waiting"

\* Only what has been run is answered.
Honest ==
    /\ \A s \in Sockets : outbox[s] \in Seq(ran)
    /\ \A t \in Tasks : future[t] = "ok" => call[t] \in ran

\* On a client that is not connected nobody waits, except since disconnect().
Settles ==
    ~connected => \A t \in Tasks : future[t] = "waiting" => call[t] \in cut

Reading == \A l \in Sockets : loop[l] = "waiting" => reads[l] \in Sockets

RpcInv == TypeOK /\ OwnIds /\ Honest /\ Settles /\ Reading /\ NobodyForgotten /\ NeverDeaf

-----------------------------------------------------------------------------
(* Helpers.                                                                *)

\* A queue keeps its type when it grows, shrinks or is emptied, and when ids are added.
LEMMA Queues ==
    ASSUME NEW A, NEW B, A \subseteq B, NEW q \in [Sockets -> Seq(A)],
           NEW s \in Sockets, NEW e \in B
    PROVE  /\ q \in [Sockets -> Seq(B)]
           /\ [q EXCEPT ![s] = Append(@, e)] \in [Sockets -> Seq(B)]
           /\ [q EXCEPT ![s] = <<>>] \in [Sockets -> Seq(A)]
           /\ q[s] # <<>> => Head(q[s]) \in A /\ [q EXCEPT ![s] = Tail(@)] \in [Sockets -> Seq(A)]
<1>1. q \in [Sockets -> Seq(B)]
  BY SeqMonotonic
<1>2. Append(q[s], e) \in Seq(B)
  BY <1>1
<1>3. q[s] # <<>> => Head(q[s]) \in A /\ Tail(q[s]) \in Seq(A)
  BY HeadTailProperties
<1>4. <<>> \in Seq(A)
  BY EmptySeq
<1>5. QED BY <1>1, <1>2, <1>3, <1>4

LEMMA InitLemma == Init => RpcInv
<1> SUFFICES ASSUME Init PROVE RpcInv
  OBVIOUS
<1>1. 1 \in Sockets
  BY BoundsAssumption DEF Sockets
<1>2. <<>> \in Seq(1 .. lastId) /\ <<>> \in Seq(ran)
  BY EmptySeq
<1>3. MaxCalls \in Nat
  BY BoundsAssumption
<1>4. TypeOK
  BY <1>1, <1>2, <1>3 DEF Init, TypeOK
<1>5. OwnIds /\ Honest /\ Settles /\ Reading /\ NobodyForgotten
  BY <1>2 DEF Init, OwnIds, Honest, Settles, Reading, NobodyForgotten
<1>6. NeverDeaf
  BY <1>1 DEF Init, NeverDeaf
<1>7. QED BY <1>4, <1>5, <1>6 DEF RpcInv

-----------------------------------------------------------------------------
(* The two parts that several actions share.                               *)

\* What writing a request leaves behind.
LEMMA SendsLemma ==
    ASSUME TypeOK, NEW t \in Tasks, NEW s \in Sockets, Sends(t, s),
           pc[t] # "waiting", OwnIds, UNCHANGED ran, UNCHANGED outbox, UNCHANGED cut,
           pending' = pending \cup {NextId(t)}, Honest
    PROVE  /\ lastId' = lastId + 1 /\ lastId' \in 0 .. MaxCalls /\ 1 .. lastId \subseteq 1 .. lastId'
           /\ NextId(t) \in 1 .. lastId' /\ pending' \subseteq 1 .. lastId'
           /\ ran' \subseteq 1 .. lastId' /\ cut' \subseteq 1 .. lastId'
           /\ pc' \in [Tasks -> {"idle", "opening", "waiting"}]
           /\ call' \in [Tasks -> 0 .. lastId']
           /\ future' \in [Tasks -> {"none", "waiting", "ok", "err"}]
           /\ result' \in [Tasks -> {"none", "ok", "err"}]
           /\ inbox' \in [Sockets -> Seq(1 .. lastId')] /\ outbox' \in [Sockets -> Seq(1 .. lastId')]
           /\ OwnIds' /\ Honest'
           /\ \A u \in Tasks : future'[u] = "waiting" =>
                 \/ u = t /\ call'[u] = NextId(t)
                 \/ u # t /\ future[u] = "waiting" /\ call'[u] = call[u]
<1>1. /\ lastId \in Nat /\ MaxCalls \in Nat /\ lastId < MaxCalls /\ lastId' = lastId + 1
      /\ NextId(t) = lastId + 1
  BY BoundsAssumption DEF TypeOK, Sends, Counted, NextId
<1>2. /\ lastId' \in 0 .. MaxCalls /\ 1 .. lastId \subseteq 1 .. lastId'
      /\ 0 .. lastId \subseteq 0 .. lastId'
      /\ NextId(t) \in 1 .. lastId' /\ NextId(t) \in 0 .. lastId' /\ 0 \in 0 .. lastId'
      /\ NextId(t) \notin 0 .. lastId
  BY <1>1
<1>3. pending' \subseteq 1 .. lastId' /\ ran' \subseteq 1 .. lastId' /\ cut' \subseteq 1 .. lastId'
  BY <1>2 DEF TypeOK
<1>4. outbox' \in [Sockets -> Seq(1 .. lastId')] /\ inbox \in [Sockets -> Seq(1 .. lastId')]
  BY <1>2, Queues DEF TypeOK
<1>5. CASE /\ pc' = [pc EXCEPT ![t] = "waiting"]
           /\ call' = [call EXCEPT ![t] = NextId(t)]
           /\ future' = [future EXCEPT ![t] = "waiting"]
           /\ inbox' = IF s \in open' THEN [inbox EXCEPT ![s] = Append(@, NextId(t))] ELSE inbox
           /\ UNCHANGED result
  <2>1. inbox' \in [Sockets -> Seq(1 .. lastId')]
    BY <1>2, <1>4, <1>5, Queues DEF TypeOK
  <2>2. /\ pc' \in [Tasks -> {"idle", "opening", "waiting"}]
        /\ future' \in [Tasks -> {"none", "waiting", "ok", "err"}]
        /\ result' \in [Tasks -> {"none", "ok", "err"}]
    BY <1>5 DEF TypeOK
  <2>3. call' \in [Tasks -> 0 .. lastId']
    BY <1>2, <1>5 DEF TypeOK
  <2>4. OwnIds'
    <3>1. \A u \in Tasks : u # t => pc'[u] = pc[u] /\ call'[u] = call[u] /\ future'[u] = future[u]
      BY <1>5 DEF TypeOK
    <3>2. pc'[t] = "waiting" /\ call'[t] = NextId(t) /\ future'[t] = "waiting"
      BY <1>5 DEF TypeOK
    <3>3. \A u \in Tasks : call[u] # NextId(t)
      BY <1>2 DEF TypeOK
    <3>4. QED BY <3>1, <3>2, <3>3 DEF OwnIds
  <2>5. Honest'
    BY <1>5 DEF TypeOK, Honest
  <2>6. \A u \in Tasks : future'[u] = "waiting" =>
                 \/ u = t /\ call'[u] = NextId(t)
                 \/ u # t /\ future[u] = "waiting" /\ call'[u] = call[u]
    BY <1>5 DEF TypeOK
  <2>7. QED BY <1>1, <1>2, <1>3, <1>4, <2>1, <2>2, <2>3, <2>4, <2>5, <2>6
<1>6. CASE Returns(t, "err") /\ UNCHANGED inbox
  <2>1. inbox' \in [Sockets -> Seq(1 .. lastId')]
    BY <1>4, <1>6
  <2>2. /\ pc' \in [Tasks -> {"idle", "opening", "waiting"}]
        /\ future' \in [Tasks -> {"none", "waiting", "ok", "err"}]
        /\ result' \in [Tasks -> {"none", "ok", "err"}]
    BY <1>6 DEF TypeOK, Returns
  <2>3. call' \in [Tasks -> 0 .. lastId']
    BY <1>2, <1>6 DEF TypeOK, Returns
  <2>4. OwnIds'
    BY <1>6 DEF TypeOK, Returns, OwnIds
  <2>5. Honest'
    BY <1>6 DEF TypeOK, Honest, Returns
  <2>6. \A u \in Tasks : future'[u] = "waiting" =>
                 u # t /\ future[u] = "waiting" /\ call'[u] = call[u]
    BY <1>6 DEF TypeOK, Returns
  <2>7. QED BY <1>1, <1>2, <1>3, <1>4, <2>1, <2>2, <2>3, <2>4, <2>5, <2>6
<1>7. QED BY <1>5, <1>6 DEF Sends

\* A loop that settles some futures and then reads on or ends.
LEMMA LoopLemma ==
    ASSUME RpcInv, NEW l \in Sockets, NEW ids, NEW futures, ReadsOn(l, futures, ids) \/ Ends(l, futures, ids),
           ids \subseteq pending,
           futures \in [Tasks -> {"none", "waiting", "ok", "err"}],
           \A t \in Tasks : futures[t] = "none" <=> future[t] = "none",
           \A t \in Tasks : futures[t] = "ok" => call[t] \in ran,
           \A t \in Tasks : futures[t] = "waiting" =>
                               future[t] = "waiting" /\ (call[t] \in ids \/ call[t] \in cut),
           UNCHANGED <<sock, lastId, pc, call, result, open, inbox, ran, cut, losses>>,
           outbox' \in [Sockets -> Seq(1 .. lastId)],
           \A s \in Sockets : outbox'[s] \in Seq(ran)
    PROVE  RpcInv'
<1>1. CASE /\ connected
           /\ loop' = [loop EXCEPT ![l] = "waiting"]
           /\ reads' = [reads EXCEPT ![l] = sock]
           /\ future' = futures /\ pending' = ids
           /\ UNCHANGED connected
  <2>1. TypeOK'
    <3>1. loop' \in [Sockets -> {"none", "new", "waiting", "dead"}] /\ reads' \in [Sockets -> Sockets \cup {0}]
      BY <1>1 DEF RpcInv, TypeOK
    <3>2. future' \in [Tasks -> {"none", "waiting", "ok", "err"}] /\ pending' \subseteq 1 .. lastId'
      BY <1>1 DEF RpcInv, TypeOK
    <3>3. QED BY <1>1, <3>1, <3>2 DEF RpcInv, TypeOK
  <2>2. OwnIds' /\ Honest' /\ Settles' /\ NobodyForgotten'
    BY <1>1 DEF RpcInv, OwnIds, Honest, Settles, NobodyForgotten
  <2>3. loop'[l] = "waiting" /\ reads'[l] = sock'
    BY <1>1 DEF RpcInv, TypeOK
  <2>4. Reading'
    BY <1>1 DEF RpcInv, TypeOK, Reading
  <2>5. QED BY <2>1, <2>2, <2>3, <2>4 DEF RpcInv, NeverDeaf
<1>2. CASE Ends(l, futures, ids)
  <2>1. TypeOK'
    <3>1. loop' \in [Sockets -> {"none", "new", "waiting", "dead"}] /\ reads' \in [Sockets -> Sockets \cup {0}]
      BY <1>2 DEF RpcInv, TypeOK, Ends
    <3>2. future' \in [Tasks -> {"none", "waiting", "ok", "err"}] /\ pending' \subseteq 1 .. lastId'
      BY <1>2 DEF RpcInv, TypeOK, Ends
    <3>3. connected' \in BOOLEAN
      BY <1>2 DEF Ends, AfterLoop
    <3>4. QED BY <3>1, <3>2, <3>3 DEF RpcInv, TypeOK
  <2>2. ~connected'
    BY <1>2 DEF Ends, AfterLoop
  <2>3. \A t \in Tasks : future'[t] = IF futures[t] = "waiting" /\ call[t] \in ids THEN "err" ELSE futures[t]
    BY <1>2 DEF Ends
  <2>4. OwnIds' /\ Honest'
    BY <2>3 DEF RpcInv, OwnIds, Honest
  <2>5. Settles' /\ NobodyForgotten'
    BY <2>3 DEF Settles, NobodyForgotten
  <2>6. Reading'
    BY <1>2 DEF RpcInv, TypeOK, Reading, Ends
  <2>7. QED BY <2>1, <2>2, <2>4, <2>5, <2>6 DEF RpcInv, NeverDeaf
<1>3. QED BY <1>1, <1>2 DEF ReadsOn

-----------------------------------------------------------------------------
LEMMA StepLemma == RpcInv /\ [Next]_vars => RpcInv'
<1> SUFFICES ASSUME RpcInv, [Next]_vars PROVE RpcInv'
  OBVIOUS
<1>0. TypeOK /\ OwnIds /\ Honest /\ Settles /\ Reading /\ NobodyForgotten /\ NeverDeaf
  BY DEF RpcInv
<1>1. ASSUME NEW t \in Tasks, Call(t) PROVE RpcInv'
  <2>1. /\ pc[t] = "idle" /\ connected /\ Sends(t, sock) /\ pending' = pending \cup {NextId(t)}
        /\ UNCHANGED <<open, connected, sock, loop, reads, outbox, ran, cut>>
    BY <1>1 DEF Call, loopVars
  <2>2. sock \in Sockets
    BY <1>0 DEF TypeOK
  <2>3. /\ lastId' \in 0 .. MaxCalls
        /\ pending' \subseteq 1 .. lastId'
        /\ ran' \subseteq 1 .. lastId' /\ cut' \subseteq 1 .. lastId'
        /\ pc' \in [Tasks -> {"idle", "opening", "waiting"}]
        /\ call' \in [Tasks -> 0 .. lastId']
        /\ future' \in [Tasks -> {"none", "waiting", "ok", "err"}]
        /\ result' \in [Tasks -> {"none", "ok", "err"}]
        /\ inbox' \in [Sockets -> Seq(1 .. lastId')] /\ outbox' \in [Sockets -> Seq(1 .. lastId')]
        /\ OwnIds' /\ Honest'
        /\ \A u \in Tasks : future'[u] = "waiting" =>
                 \/ u = t /\ call'[u] = NextId(t)
                 \/ u # t /\ future[u] = "waiting" /\ call'[u] = call[u]
    BY <1>0, <2>1, <2>2, SendsLemma
  <2>4. TypeOK'
    BY <1>0, <2>1, <2>3 DEF TypeOK
  <2>5. Settles' /\ NobodyForgotten' /\ NeverDeaf' /\ Reading'
    BY <1>0, <2>1, <2>3 DEF Settles, NobodyForgotten, NeverDeaf, Reading
  <2>6. QED BY <2>3, <2>4, <2>5 DEF RpcInv
<1>2. ASSUME NEW t \in Tasks, Reconnect(t) PROVE RpcInv'
  <2>1. /\ pc[t] = "idle" /\ ~connected /\ open' = open \ {sock} /\ pending' = {}
        /\ pc' = [pc EXCEPT ![t] = "opening"]
        /\ UNCHANGED <<connected, sock, lastId, call, future, result, loop, reads, inbox, outbox, ran, cut>>
    BY <1>2 DEF Reconnect, loopVars
  <2>2. TypeOK'
    BY <1>0, <2>1 DEF TypeOK
  <2>3. OwnIds' /\ Honest' /\ Settles' /\ NobodyForgotten' /\ NeverDeaf' /\ Reading'
    BY <1>0, <2>1 DEF TypeOK, OwnIds, Honest, Settles, NobodyForgotten, NeverDeaf, Reading
  <2>4. QED BY <2>2, <2>3 DEF RpcInv
<1>3. ASSUME NEW t \in Tasks, Opened(t) PROVE RpcInv'
  <2>1. PICK s \in Sockets :
           /\ sock' = s /\ open' = open \cup {s} /\ loop' = [loop EXCEPT ![s] = "new"] /\ Sends(t, s)
    BY <1>3 DEF Opened
  <2>2. /\ pc[t] = "opening" /\ connected' = TRUE /\ pending' = pending \cup {NextId(t)}
        /\ UNCHANGED <<reads, outbox, ran, cut>>
    BY <1>3 DEF Opened
  <2>3. /\ lastId' \in 0 .. MaxCalls
        /\ pending' \subseteq 1 .. lastId'
        /\ ran' \subseteq 1 .. lastId' /\ cut' \subseteq 1 .. lastId'
        /\ pc' \in [Tasks -> {"idle", "opening", "waiting"}]
        /\ call' \in [Tasks -> 0 .. lastId']
        /\ future' \in [Tasks -> {"none", "waiting", "ok", "err"}]
        /\ result' \in [Tasks -> {"none", "ok", "err"}]
        /\ inbox' \in [Sockets -> Seq(1 .. lastId')] /\ outbox' \in [Sockets -> Seq(1 .. lastId')]
        /\ OwnIds' /\ Honest'
        /\ \A u \in Tasks : future'[u] = "waiting" =>
                 \/ u = t /\ call'[u] = NextId(t)
                 \/ u # t /\ future[u] = "waiting" /\ call'[u] = call[u]
    BY <1>0, <2>1, <2>2, SendsLemma
  <2>4. TypeOK'
    BY <1>0, <2>1, <2>2, <2>3 DEF TypeOK
  <2>5. loop'[sock'] = "new"
    BY <1>0, <2>1 DEF TypeOK
  <2>6. Settles' /\ NobodyForgotten' /\ NeverDeaf' /\ Reading'
    BY <1>0, <2>1, <2>2, <2>3, <2>5 DEF TypeOK, Settles, NobodyForgotten, NeverDeaf, Reading
  <2>7. QED BY <2>3, <2>4, <2>6 DEF RpcInv
<1>4. ASSUME NEW t \in Tasks, NEW r \in {"ok", "err"}, Returns(t, r), pending' \in {pending, pending \ {call[t]}},
             pc[t] \in {"opening", "waiting"}, pc[t] = "opening" => pending' = pending,
             UNCHANGED <<connected, sock, lastId, loopVars, netVars>>
      PROVE  RpcInv'
  <2>1. /\ pc' = [pc EXCEPT ![t] = "idle"] /\ call' = [call EXCEPT ![t] = 0]
        /\ future' = [future EXCEPT ![t] = "none"] /\ result' = [result EXCEPT ![t] = r]
        /\ UNCHANGED <<connected, sock, lastId, loop, reads, open, inbox, outbox, ran, cut>>
    BY <1>4 DEF Returns, loopVars, netVars
  <2>2. lastId \in Nat /\ 0 \in 0 .. lastId
    BY <1>0, BoundsAssumption DEF TypeOK
  <2>3. TypeOK'
    BY <1>0, <1>4, <2>1, <2>2 DEF TypeOK
  <2>4. OwnIds' /\ Honest' /\ Settles'
    BY <1>0, <2>1 DEF TypeOK, OwnIds, Honest, Settles
  <2>5. NobodyForgotten'
    BY <1>0, <1>4, <2>1 DEF TypeOK, OwnIds, NobodyForgotten
  <2>6. NeverDeaf' /\ Reading'
    BY <1>0, <2>1 DEF NeverDeaf, Reading
  <2>7. QED BY <2>3, <2>4, <2>5, <2>6 DEF RpcInv
<1>5. ASSUME NEW t \in Tasks, OpenFails(t) \/ Finishes(t) \/ TimesOut(t) PROVE RpcInv'
  BY <1>4, <1>5 DEF OpenFails, Finishes, TimesOut
<1>6. CASE Disconnect
  <2>1. /\ connected' = FALSE /\ open' = open \ {sock} /\ cut' = cut \cup pending
        /\ UNCHANGED <<sock, pending, lastId, pc, call, future, result, loop, reads, inbox, ran>>
    BY <1>6 DEF Disconnect, taskVars, loopVars
  <2>2. sock \in Sockets /\ outbox \in [Sockets -> Seq(ran)] /\ outbox \in [Sockets -> Seq(1 .. lastId)]
    BY <1>0 DEF TypeOK, Honest
  <2>3. outbox' \in [Sockets -> Seq(ran)] /\ outbox' \in [Sockets -> Seq(1 .. lastId)]
    BY <1>6, <2>2, EmptySeq DEF Disconnect
  <2>4. TypeOK'
    BY <1>0, <2>1, <2>3 DEF TypeOK
  <2>5. OwnIds' /\ Honest' /\ Settles' /\ NobodyForgotten' /\ NeverDeaf' /\ Reading'
    BY <1>0, <2>1, <2>3 DEF OwnIds, Honest, Settles, NobodyForgotten, NeverDeaf, Reading
  <2>6. QED BY <2>4, <2>5 DEF RpcInv
<1>7. ASSUME NEW l \in Sockets, LoopStarts(l) \/ ReadsEnd(l) PROVE RpcInv'
  <2>1. ReadsOn(l, future, pending) \/ Ends(l, future, pending)
    BY <1>7 DEF LoopStarts, ReadsEnd
  <2>2. UNCHANGED <<sock, lastId, pc, call, result, open, inbox, outbox, ran, cut, losses>>
    BY <1>7 DEF LoopStarts, ReadsEnd, netVars
  <2>3. \A t \in Tasks : future[t] = "waiting" => call[t] \in pending \/ call[t] \in cut
    BY <1>0 DEF NobodyForgotten
  <2>4. /\ \A t \in Tasks : future[t] = "ok" => call[t] \in ran
        /\ \A s \in Sockets : outbox'[s] \in Seq(ran)
        /\ outbox' \in [Sockets -> Seq(1 .. lastId)]
        /\ future \in [Tasks -> {"none", "waiting", "ok", "err"}]
    BY <1>0, <2>2 DEF Honest, TypeOK
  <2>5. QED BY <2>1, <2>2, <2>3, <2>4, LoopLemma
<1>8. ASSUME NEW l \in Sockets, ReadsAnswer(l) PROVE RpcInv'
  <2> DEFINE id == Head(outbox[reads[l]])
  <2>1. loop[l] = "waiting" /\ outbox[reads[l]] # <<>> /\ outbox' = [outbox EXCEPT ![reads[l]] = Tail(@)]
    BY <1>8 DEF ReadsAnswer
  <2>2. PICK r \in {"ok", "err"} : ReadsOn(l, Settled({id} \cap pending, r), pending \ {id})
    BY <1>8 DEF ReadsAnswer
  <2>3. UNCHANGED <<sock, lastId, pc, call, result, open, inbox, ran, cut, losses>>
    BY <1>8 DEF ReadsAnswer
  <2>4. outbox \in [Sockets -> Seq(ran)] /\ outbox \in [Sockets -> Seq(1 .. lastId)]
    BY <1>0 DEF TypeOK, Honest
  <2>5. reads[l] \in Sockets
    BY <1>0, <2>1 DEF Reading
  <2>6. id \in ran /\ outbox' \in [Sockets -> Seq(ran)] /\ outbox' \in [Sockets -> Seq(1 .. lastId)]
    BY <2>1, <2>4, <2>5, HeadTailProperties
  <2>7. Settled({id} \cap pending, r) \in [Tasks -> {"none", "waiting", "ok", "err"}]
    BY <1>0 DEF Settled, TypeOK
  <2>8. /\ \A t \in Tasks : Settled({id} \cap pending, r)[t] = "none" <=> future[t] = "none"
        /\ \A t \in Tasks : Settled({id} \cap pending, r)[t] = "ok" => call[t] \in ran
        /\ \A t \in Tasks : Settled({id} \cap pending, r)[t] = "waiting" =>
              future[t] = "waiting" /\ (call[t] \in pending \ {id} \/ call[t] \in cut)
    BY <1>0, <2>6 DEF Settled, Honest, NobodyForgotten
  <2>9. QED BY <2>2, <2>3, <2>6, <2>7, <2>8, LoopLemma
<1>9. ASSUME NEW s \in Sockets, Serve(s) PROVE RpcInv'
  <2>1. /\ inbox[s] # <<>> /\ inbox' = [inbox EXCEPT ![s] = Tail(@)] /\ ran' = ran \cup {Head(inbox[s])}
        /\ outbox' = IF s \in open THEN [outbox EXCEPT ![s] = Append(@, Head(inbox[s]))] ELSE outbox
        /\ UNCHANGED <<connected, sock, pending, lastId, pc, call, future, result, loop, reads, open, cut>>
    BY <1>9 DEF Serve, taskVars, loopVars
  <2>2. Head(inbox[s]) \in 1 .. lastId /\ inbox' \in [Sockets -> Seq(1 .. lastId)]
    BY <1>0, <2>1, Queues DEF TypeOK
  <2>3. ran \subseteq ran' /\ Head(inbox[s]) \in ran' /\ ran' \subseteq 1 .. lastId
    BY <1>0, <2>1, <2>2 DEF TypeOK
  <2>4. outbox \in [Sockets -> Seq(ran)] /\ outbox \in [Sockets -> Seq(1 .. lastId)]
    BY <1>0 DEF TypeOK, Honest
  <2>5. outbox' \in [Sockets -> Seq(ran')] /\ outbox' \in [Sockets -> Seq(1 .. lastId)]
    BY <2>1, <2>2, <2>3, <2>4, Queues
  <2>6. TypeOK'
    BY <1>0, <2>1, <2>2, <2>3, <2>5 DEF TypeOK
  <2>7. OwnIds' /\ Honest' /\ Settles' /\ NobodyForgotten' /\ NeverDeaf' /\ Reading'
    BY <1>0, <2>1, <2>3, <2>5 DEF OwnIds, Honest, Settles, NobodyForgotten, NeverDeaf, Reading
  <2>8. QED BY <2>6, <2>7 DEF RpcInv
<1>10. ASSUME NEW s \in Sockets, Lose(s) PROVE RpcInv'
  <2>1. /\ open' = open \ {s} /\ inbox' = [inbox EXCEPT ![s] = <<>>]
        /\ outbox' \in {outbox, [outbox EXCEPT ![s] = <<>>]}
        /\ UNCHANGED <<connected, sock, pending, lastId, pc, call, future, result, loop, reads, ran, cut>>
    BY <1>10 DEF Lose, taskVars, loopVars
  <2>2. outbox \in [Sockets -> Seq(ran)] /\ outbox \in [Sockets -> Seq(1 .. lastId)]
    BY <1>0 DEF TypeOK, Honest
  <2>3. /\ outbox' \in [Sockets -> Seq(ran)] /\ outbox' \in [Sockets -> Seq(1 .. lastId)]
        /\ inbox' \in [Sockets -> Seq(1 .. lastId)]
    BY <1>0, <2>1, <2>2, EmptySeq DEF TypeOK
  <2>4. TypeOK'
    BY <1>0, <2>1, <2>3 DEF TypeOK
  <2>5. OwnIds' /\ Honest' /\ Settles' /\ NobodyForgotten' /\ NeverDeaf' /\ Reading'
    BY <1>0, <2>1, <2>3 DEF OwnIds, Honest, Settles, NobodyForgotten, NeverDeaf, Reading
  <2>6. QED BY <2>4, <2>5 DEF RpcInv
<1>11. CASE UNCHANGED vars
  BY <1>11 DEF vars, taskVars, loopVars, netVars, RpcInv, TypeOK, OwnIds, Honest, Settles,
               NobodyForgotten, NeverDeaf, Reading
<1>12. QED
  BY <1>1, <1>2, <1>3, <1>5, <1>6, <1>7, <1>8, <1>9, <1>10, <1>11
     DEF Next, TaskStep, LoopStep, Quiet

LEMMA RpcInvariance == Spec => []RpcInv
  BY InitLemma, StepLemma, PTL DEF Spec

-----------------------------------------------------------------------------

\* Ids, futures and queues have their types, for any number of tasks and connections.
THEOREM RpcTyping == Spec => []TypeOK
<1>1. RpcInv => TypeOK
  BY DEF RpcInv
<1>2. QED BY <1>1, RpcInvariance, PTL

\* A task that waits is registered, unless it waited when other settings were saved.
THEOREM NoFutureForgotten == Spec => []NobodyForgotten
<1>1. RpcInv => NobodyForgotten
  BY DEF RpcInv
<1>2. QED BY <1>1, RpcInvariance, PTL

\* A client that takes itself for connected has a loop that reads its socket.
THEOREM ConnectedListens == Spec => []NeverDeaf
<1>1. RpcInv => NeverDeaf
  BY DEF RpcInv
<1>2. QED BY <1>1, RpcInvariance, PTL

-----------------------------------------------------------------------------
(* A call is run at most once and succeeds only if it has run: each step   *)
(* is one of module CallPromise, or none.                                  *)

Status == [t \in Tasks |-> IF pc[t] = "idle" THEN "idle" ELSE "asked"]
Ran == [t \in Tasks |-> pc[t] = "waiting" /\ call[t] \in ran]

Mapped == [Promise!Next]_(Promise!vars)

\* The steps of the promise, one task's part at a time.
LEMMA StutterMaps == UNCHANGED <<Status, Ran, result>> => Mapped
  BY Zenon DEF Mapped, Promise!vars, Status, Ran

LEMMA AskMaps ==
    ASSUME NEW t \in Tasks, Status[t] = "idle", UNCHANGED result,
           Status' = [Status EXCEPT ![t] = "asked"], Ran' = [Ran EXCEPT ![t] = FALSE]
    PROVE  Mapped
<1>1. Promise!Ask(t)
  BY Zenon DEF Promise!Ask, Status, Ran
<1>2. QED BY <1>1 DEF Mapped, Promise!Next

LEMMA RefuseMaps ==
    ASSUME NEW t \in Tasks, Status[t] = "idle", UNCHANGED <<Status, Ran>>,
           result' = [result EXCEPT ![t] = "err"]
    PROVE  Mapped
<1>1. Promise!Refuse(t)
  BY Zenon DEF Promise!Refuse, Status, Ran
<1>2. QED BY <1>1 DEF Mapped, Promise!Next

LEMMA RunMaps ==
    ASSUME NEW t \in Tasks, Status[t] = "asked", ~Ran[t], UNCHANGED <<Status, result>>,
           Ran' = [Ran EXCEPT ![t] = TRUE]
    PROVE  Mapped
<1>1. Promise!Run(t)
  BY Zenon DEF Promise!Run, Status, Ran
<1>2. QED BY <1>1 DEF Mapped, Promise!Next

LEMMA ReturnMaps ==
    ASSUME NEW t \in Tasks, Status[t] = "asked", NEW r, r = "err" \/ (Ran[t] /\ r = "ok"),
           result' = [result EXCEPT ![t] = r],
           Status' = [Status EXCEPT ![t] = "idle"], Ran' = [Ran EXCEPT ![t] = FALSE]
    PROVE  Mapped
<1>1. Promise!Return(t)
  BY Zenon DEF Promise!Return, Status, Ran
<1>2. QED BY <1>1 DEF Mapped, Promise!Next

\* Nothing that the promise sees changes.
LEMMA Unseen == UNCHANGED <<pc, call, ran, result>> => Mapped
<1> SUFFICES ASSUME UNCHANGED <<pc, call, ran, result>> PROVE Mapped
  OBVIOUS
<1>1. UNCHANGED <<Status, Ran, result>>
  BY DEF Status, Ran
<1>2. QED BY <1>1, StutterMaps

\* A new id has not been run.
LEMMA SendsMaps ==
    ASSUME TypeOK, NEW t \in Tasks, NEW s, Sends(t, s), pc[t] # "waiting", UNCHANGED ran
    PROVE  /\ \/ Status' = [Status EXCEPT ![t] = "asked"] /\ UNCHANGED result
              \/ Status' = [Status EXCEPT ![t] = "idle"] /\ result' = [result EXCEPT ![t] = "err"]
           /\ UNCHANGED Ran
<1>1. NextId(t) \notin ran
  <2>1. lastId \in Nat
    BY BoundsAssumption DEF TypeOK
  <2>2. QED BY <2>1 DEF TypeOK, NextId
<1>2. CASE /\ pc' = [pc EXCEPT ![t] = "waiting"] /\ call' = [call EXCEPT ![t] = NextId(t)]
           /\ UNCHANGED result
  <2>1. Status' = [Status EXCEPT ![t] = "asked"]
    BY <1>2 DEF Status, TypeOK
  <2>2. UNCHANGED Ran
    BY <1>1, <1>2 DEF Ran, TypeOK
  <2>3. QED BY <1>2, <2>1, <2>2
<1>3. CASE Returns(t, "err")
  <2>1. Status' = [Status EXCEPT ![t] = "idle"] /\ result' = [result EXCEPT ![t] = "err"]
    BY <1>3 DEF Status, TypeOK, Returns
  <2>2. UNCHANGED Ran
    BY <1>3 DEF Ran, TypeOK, Returns
  <2>3. QED BY <2>1, <2>2
<1>4. QED BY <1>2, <1>3 DEF Sends

LEMMA StepMaps == RpcInv /\ [Next]_vars => Mapped
<1> SUFFICES ASSUME RpcInv, [Next]_vars PROVE Mapped
  OBVIOUS
<1>0. TypeOK /\ OwnIds /\ Honest
  BY DEF RpcInv
<1>1. ASSUME NEW t \in Tasks, Call(t) PROVE Mapped
  <2>1. Sends(t, sock) /\ pc[t] = "idle" /\ UNCHANGED ran
    BY <1>1 DEF Call
  <2>2. Status[t] = "idle" /\ Ran[t] = FALSE
    BY <2>1 DEF Status, Ran
  <2>3. UNCHANGED Ran /\ Ran' = [Ran EXCEPT ![t] = FALSE]
    BY <1>0, <2>1, <2>2, SendsMaps DEF Ran
  <2>4. CASE Status' = [Status EXCEPT ![t] = "asked"] /\ UNCHANGED result
    BY <2>2, <2>3, <2>4, AskMaps
  <2>5. CASE Status' = [Status EXCEPT ![t] = "idle"] /\ result' = [result EXCEPT ![t] = "err"]
    <3>1. UNCHANGED Status
      BY <2>2, <2>5 DEF Status
    <3>2. QED BY <2>2, <2>3, <2>5, <3>1, RefuseMaps
  <2>6. QED BY <1>0, <2>1, <2>4, <2>5, SendsMaps
<1>2. ASSUME NEW t \in Tasks, Reconnect(t) PROVE Mapped
  <2>1. pc[t] = "idle" /\ pc' = [pc EXCEPT ![t] = "opening"] /\ UNCHANGED <<call, ran, result>>
    BY <1>2 DEF Reconnect
  <2>2. Status[t] = "idle" /\ Status' = [Status EXCEPT ![t] = "asked"]
    BY <1>0, <2>1 DEF Status, TypeOK
  <2>3. Ran' = [Ran EXCEPT ![t] = FALSE]
    BY <1>0, <2>1 DEF Ran, TypeOK
  <2>4. QED BY <2>1, <2>2, <2>3, AskMaps
<1>3. ASSUME NEW t \in Tasks, Opened(t) PROVE Mapped
  <2>1. PICK s \in Sockets : Sends(t, s)
    BY <1>3 DEF Opened
  <2>2. pc[t] = "opening" /\ UNCHANGED ran
    BY <1>3 DEF Opened
  <2>3. Status[t] = "asked" /\ Ran[t] = FALSE
    BY <2>2 DEF Status, Ran
  <2>4. UNCHANGED Ran /\ Ran' = [Ran EXCEPT ![t] = FALSE]
    BY <1>0, <2>1, <2>2, <2>3, SendsMaps DEF Ran
  <2>5. CASE Status' = [Status EXCEPT ![t] = "asked"] /\ UNCHANGED result
    <3>1. UNCHANGED Status
      BY <2>3, <2>5 DEF Status
    <3>2. QED BY <2>4, <2>5, <3>1, StutterMaps
  <2>6. CASE Status' = [Status EXCEPT ![t] = "idle"] /\ result' = [result EXCEPT ![t] = "err"]
    BY <2>3, <2>4, <2>6, ReturnMaps
  <2>7. QED BY <1>0, <2>1, <2>2, <2>5, <2>6, SendsMaps
<1>4. ASSUME NEW t \in Tasks, NEW r, Returns(t, r), UNCHANGED ran, pc[t] \in {"opening", "waiting"},
             (r = "ok" /\ pc[t] = "waiting" /\ future[t] = "ok") \/ r = "err"
      PROVE  Mapped
  <2>1. Status[t] = "asked" /\ Status' = [Status EXCEPT ![t] = "idle"] /\ result' = [result EXCEPT ![t] = r]
    BY <1>0, <1>4 DEF Status, TypeOK, Returns
  <2>2. Ran' = [Ran EXCEPT ![t] = FALSE]
    BY <1>0, <1>4 DEF Ran, TypeOK, Returns
  <2>3. (Ran[t] /\ r = "ok") \/ r = "err"
    BY <1>0, <1>4 DEF Ran, Honest
  <2>4. QED BY <2>1, <2>2, <2>3, ReturnMaps
<1>5. ASSUME NEW t \in Tasks, OpenFails(t) \/ Finishes(t) \/ TimesOut(t) PROVE Mapped
  BY <1>4, <1>5 DEF OpenFails, Finishes, TimesOut, netVars
<1>6. ASSUME NEW l \in Sockets, LoopStep(l) PROVE Mapped
  BY <1>6, Unseen DEF LoopStep, LoopStarts, ReadsAnswer, ReadsEnd, netVars
<1>7. ASSUME NEW s \in Sockets, Serve(s) PROVE Mapped
  <2> DEFINE id == Head(inbox[s])
  <2>1. ran' = ran \cup {id} /\ UNCHANGED <<pc, call, result>>
    BY <1>7 DEF Serve, taskVars
  <2>2. UNCHANGED <<Status, result>>
    BY <2>1 DEF Status
  <2>3. CASE \E t \in Tasks : pc[t] = "waiting" /\ call[t] = id /\ id \notin ran
    <3>1. PICK t \in Tasks : pc[t] = "waiting" /\ call[t] = id /\ id \notin ran
      BY <2>3
    <3>2. Status[t] = "asked" /\ ~Ran[t]
      BY <3>1 DEF Status, Ran
    <3>3. \A u \in Tasks : pc[u] = "waiting" /\ call[u] = id => u = t
      BY <1>0, <3>1 DEF OwnIds
    <3>4. Ran' = [Ran EXCEPT ![t] = TRUE]
      BY <2>1, <3>1, <3>3 DEF Ran
    <3>5. QED BY <2>2, <3>2, <3>4, RunMaps
  <2>4. CASE ~ \E t \in Tasks : pc[t] = "waiting" /\ call[t] = id /\ id \notin ran
    <3>1. \A t \in Tasks : (pc[t] = "waiting" /\ call[t] \in ran') <=> (pc[t] = "waiting" /\ call[t] \in ran)
      BY <2>1, <2>4
    <3>2. UNCHANGED Ran
      BY <2>1, <3>1 DEF Ran
    <3>3. QED BY <2>2, <3>2, StutterMaps
  <2>5. QED BY <2>3, <2>4
<1>8. ASSUME NEW s \in Sockets, Lose(s) PROVE Mapped
  BY <1>8, Unseen DEF Lose, taskVars
<1>9. CASE Disconnect
  BY <1>9, Unseen DEF Disconnect, taskVars
<1>10. CASE UNCHANGED vars
  BY <1>10, Unseen DEF vars, taskVars, netVars
<1>11. QED
  BY <1>1, <1>2, <1>3, <1>5, <1>6, <1>7, <1>8, <1>9, <1>10 DEF Next, TaskStep, Quiet

\* Every call is run at most once, and reported as a success only if it has run,
\* however the connection is lost, closed and opened by several tasks at once: the
\* safety part of KeepsCallPromise.
THEOREM CallsAreKept == Spec => Promise!Init /\ [][Promise!Next]_(Promise!vars)
<1>1. Init => Promise!Init
  BY DEF Init, Promise!Init
<1>2. RpcInv /\ [Next]_vars => [Promise!Next]_(Promise!vars)
  BY StepMaps DEF Mapped
<1>3. QED BY <1>1, <1>2, RpcInvariance, PTL DEF Spec
=============================================================================
