---------------------------- MODULE SnapcastRpc ----------------------------
(***************************************************************************)
(* SnapcastClient (app/snapcast.py): the one JSON-RPC connection that all  *)
(* requests of the add-on share.  Module Zone takes a call as one step     *)
(* there and one back; this module is what happens in between: pending     *)
(* futures, the read loop, connections that are lost, and callers that     *)
(* reconnect at the same time.                                             *)
(***************************************************************************)
EXTENDS Naturals, Sequences, FiniteSets

CONSTANTS
    Tasks,        \* asyncio tasks that call
    MaxSockets,   \* bound: connections opened
    MaxCalls,     \* bound: calls made
    MaxLosses     \* bound: connections lost or closed

ASSUME BoundsAssumption == {MaxSockets, MaxCalls, MaxLosses} \subseteq Nat /\ MaxSockets > 0

Sockets == 1 .. MaxSockets

VARIABLES
    connected,    \* _connected
    sock,         \* the socket behind _reader and _writer
    open,         \* sockets that neither side has closed
    pending,      \* keys of _pending
    lastId,       \* _next_id()'s counter
    pc,           \* each task: idle, opening a connection, waiting for its future
    call,         \* the id of its call
    future,       \* its future: waiting, ok or err
    result,       \* how its last call returned
    loop,         \* the _read_loop task started with each socket
    reads,        \* the socket whose reader that loop waits on
    inbox,        \* requests snapserver has yet to run, per socket
    outbox,       \* answers the add-on has yet to read, per socket
    ran,          \* ids snapserver has run
    cut,          \* ids that waited when the settings were saved
    losses

taskVars == <<pc, call, future, result>>
loopVars == <<loop, reads>>
netVars  == <<open, inbox, outbox, ran, cut, losses>>
vars == <<connected, sock, pending, lastId, taskVars, loopVars, netVars>>

TypeOK ==
    /\ connected \in BOOLEAN
    /\ sock \in Sockets /\ open \subseteq Sockets
    /\ lastId \in 0 .. MaxCalls
    /\ pending \subseteq 1 .. lastId /\ ran \subseteq 1 .. lastId /\ cut \subseteq 1 .. lastId
    /\ pc \in [Tasks -> {"idle", "opening", "waiting"}]
    /\ call \in [Tasks -> 0 .. lastId]
    /\ future \in [Tasks -> {"none", "waiting", "ok", "err"}]
    /\ result \in [Tasks -> {"none", "ok", "err"}]
    /\ loop \in [Sockets -> {"none", "new", "waiting", "dead"}]
    /\ reads \in [Sockets -> Sockets \cup {0}]
    /\ inbox \in [Sockets -> Seq(1 .. lastId)] /\ outbox \in [Sockets -> Seq(1 .. lastId)]

Init ==
    /\ connected = TRUE /\ sock = 1 /\ open = {1}
    /\ pending = {} /\ lastId = 0
    /\ pc = [t \in Tasks |-> "idle"] /\ call = [t \in Tasks |-> 0]
    /\ future = [t \in Tasks |-> "none"] /\ result = [t \in Tasks |-> "none"]
    /\ loop = [s \in Sockets |-> IF s = 1 THEN "new" ELSE "none"]
    /\ reads = [s \in Sockets |-> 0]
    /\ inbox = [s \in Sockets |-> <<>>] /\ outbox = [s \in Sockets |-> <<>>]
    /\ ran = {} /\ cut = {} /\ losses = 0

-----------------------------------------------------------------------------
(* _call() and reconnect().                                                *)

NextId(t) == lastId + 1

NotCounted == lastId                                                 \* a slip
Counted == lastId + 1

Returns(t, r) ==
    /\ pc' = [pc EXCEPT ![t] = "idle"]
    /\ call' = [call EXCEPT ![t] = 0]
    /\ future' = [future EXCEPT ![t] = "none"]
    /\ result' = [result EXCEPT ![t] = r]

\* From the new id to the await of the future nothing yields.  On a connection
\* that is gone the write may raise, which leaves the id in _pending.
Sends(t, s) ==
    /\ lastId < MaxCalls
    /\ lastId' = Counted
    /\ \/ /\ pc' = [pc EXCEPT ![t] = "waiting"]
          /\ call' = [call EXCEPT ![t] = NextId(t)]
          /\ future' = [future EXCEPT ![t] = "waiting"]
          /\ inbox' = IF s \in open' THEN [inbox EXCEPT ![s] = Append(@, NextId(t))] ELSE inbox
          /\ UNCHANGED result
       \/ /\ s \notin open'
          /\ Returns(t, "err")
          /\ UNCHANGED inbox

Call(t) ==
    /\ pc[t] = "idle" /\ connected
    /\ UNCHANGED open
    /\ Sends(t, sock)
    /\ pending' = pending \cup {NextId(t)}
    /\ UNCHANGED <<connected, sock, loopVars, outbox, ran, cut, losses>>

\* reconnect() up to its await: the old writer is closed, the futures forgotten.
Reconnect(t) ==
    /\ pc[t] = "idle" /\ ~connected
    /\ lastId < MaxCalls
    /\ open' = open \ {sock}
    /\ pending' = {}
    /\ pc' = [pc EXCEPT ![t] = "opening"]
    /\ UNCHANGED <<connected, sock, lastId, call, future, result, loopVars,
                   inbox, outbox, ran, cut, losses>>

Opened(t) ==
    /\ pc[t] = "opening"
    /\ \E s \in Sockets :
          /\ loop[s] = "none" /\ \A k \in Sockets : k < s => loop[k] # "none"
          /\ sock' = s
          /\ open' = open \cup {s}
          /\ loop' = [loop EXCEPT ![s] = "new"]
          /\ Sends(t, s)
    /\ connected' = TRUE
    /\ pending' = pending \cup {NextId(t)}
    /\ UNCHANGED <<reads, outbox, ran, cut, losses>>

OpenFails(t) ==
    /\ pc[t] = "opening"
    /\ Returns(t, "err")
    /\ UNCHANGED <<connected, sock, pending, lastId, loopVars, netVars>>

Finishes(t) ==
    /\ pc[t] = "waiting" /\ future[t] \in {"ok", "err"}
    /\ Returns(t, future[t])
    /\ UNCHANGED <<connected, sock, pending, lastId, loopVars, netVars>>

TimesOut(t) ==
    /\ pc[t] = "waiting" /\ future[t] = "waiting"
    /\ pending' = pending \ {call[t]}
    /\ Returns(t, "err")
    /\ UNCHANGED <<connected, sock, lastId, loopVars, netVars>>

\* disconnect(), when other settings are saved.  The client that takes over has no
\* part here; the tasks that hold this one go on.  The futures stay in _pending.  Of
\* a client that is not connected it changes nothing that reconnect() would not.
Disconnect ==
    /\ connected
    /\ losses < MaxLosses /\ losses' = losses + 1
    /\ connected' = FALSE
    /\ open' = open \ {sock}
    /\ outbox' \in {outbox, [outbox EXCEPT ![sock] = <<>>]}
    /\ cut' = cut \cup pending
    /\ UNCHANGED <<sock, pending, lastId, taskVars, loopVars, inbox, ran>>

-----------------------------------------------------------------------------
(* _read_loop().                                                           *)

\* A slip: the answer goes to whoever waits.
SettlesAnybody(ids, r) ==
    [t \in Tasks |-> IF future[t] = "waiting" /\ ids # {} THEN r ELSE future[t]]

Settled(ids, r) ==
    [t \in Tasks |-> IF future[t] = "waiting" /\ call[t] \in ids THEN r ELSE future[t]]

StaysConnected == connected                                          \* a slip
AfterLoop == FALSE

\* A slip: the futures are forgotten instead of failed.
EndsForgetting(l, futures, ids) ==
    /\ loop' = [loop EXCEPT ![l] = "dead"]
    /\ connected' = AfterLoop
    /\ future' = futures
    /\ pending' = {}
    /\ reads' = [reads EXCEPT ![l] = 0]

\* `finally`: whatever still waits fails, whichever connection it went out on.
Ends(l, futures, ids) ==
    /\ loop' = [loop EXCEPT ![l] = "dead"]
    /\ connected' = AfterLoop
    /\ future' = [t \in Tasks |->
                     IF futures[t] = "waiting" /\ call[t] \in ids THEN "err" ELSE futures[t]]
    /\ pending' = {}
    /\ reads' = [reads EXCEPT ![l] = 0]

\* A second reader on one stream raises RuntimeError.
Contended(l, s) ==
    /\ \E k \in Sockets \ {l} : loop[k] = "waiting" /\ reads[k] = s
    /\ outbox[s] = <<>>

\* The head of the while loop: readline() on the present _reader.
ReadsOn(l, futures, ids) ==
    \/ /\ connected /\ ~Contended(l, sock)
       /\ loop' = [loop EXCEPT ![l] = "waiting"]
       /\ reads' = [reads EXCEPT ![l] = sock]
       /\ future' = futures
       /\ pending' = ids
       /\ UNCHANGED connected
    \/ /\ ~connected \/ Contended(l, sock)
       /\ Ends(l, futures, ids)

LoopStarts(l) ==
    /\ loop[l] = "new"
    /\ ReadsOn(l, future, pending)
    /\ UNCHANGED <<sock, lastId, pc, call, result, netVars>>

\* An answer, a result or an error, resolves the future registered under its id;
\* others are ignored.
ReadsAnswer(l) ==
    /\ loop[l] = "waiting"
    /\ outbox[reads[l]] # <<>>
    /\ LET id == Head(outbox[reads[l]])
       IN  \E r \in {"ok", "err"} : ReadsOn(l, Settled({id} \cap pending, r), pending \ {id})
    /\ outbox' = [outbox EXCEPT ![reads[l]] = Tail(@)]
    /\ UNCHANGED <<sock, lastId, pc, call, result, open, inbox, ran, cut, losses>>

ReadsEnd(l) ==
    /\ loop[l] = "waiting"
    /\ reads[l] \notin open /\ outbox[reads[l]] = <<>>
    /\ Ends(l, future, pending)
    /\ UNCHANGED <<sock, lastId, pc, call, result, netVars>>

-----------------------------------------------------------------------------
(* Snapserver and the network.                                             *)

Serve(s) ==
    /\ inbox[s] # <<>>
    /\ inbox' = [inbox EXCEPT ![s] = Tail(@)]
    /\ ran' = ran \cup {Head(inbox[s])}
    /\ outbox' = IF s \in open THEN [outbox EXCEPT ![s] = Append(@, Head(inbox[s]))] ELSE outbox
    /\ UNCHANGED <<connected, sock, pending, lastId, taskVars, loopVars, open, cut, losses>>

\* With the connection go the requests that snapserver has not received and
\* some of the answers.
Lose(s) ==
    /\ s \in open
    /\ losses < MaxLosses /\ losses' = losses + 1
    /\ open' = open \ {s}
    /\ inbox' = [inbox EXCEPT ![s] = <<>>]
    /\ outbox' \in {outbox, [outbox EXCEPT ![s] = <<>>]}
    /\ UNCHANGED <<connected, sock, pending, lastId, taskVars, loopVars, ran, cut>>

Quiet ==
    /\ \A t \in Tasks : pc[t] = "idle"
    /\ UNCHANGED vars

TaskStep(t) == Opened(t) \/ OpenFails(t) \/ Finishes(t)
LoopStep(l) == LoopStarts(l) \/ ReadsAnswer(l) \/ ReadsEnd(l)

Next ==
    \/ \E t \in Tasks : Call(t) \/ Reconnect(t) \/ TaskStep(t) \/ TimesOut(t)
    \/ \E s \in Sockets : LoopStep(s) \/ Serve(s) \/ Lose(s)
    \/ Disconnect
    \/ Quiet

Spec == Init /\ [][Next]_vars

\* The event loop runs every ready task and read loop; the timer of a call that
\* still waits expires.  Nothing is assumed of snapserver or of the network.
FairSpec ==
    /\ Spec
    /\ \A t \in Tasks : WF_vars(TaskStep(t)) /\ WF_vars(TimesOut(t))
    /\ \A s \in Sockets : WF_vars(LoopStep(s))

-----------------------------------------------------------------------------
(* Properties.                                                             *)

\* reconnect() clears _pending without failing the futures in it ("clearing any
\* pending futures", snapcast.py:92).  That forgets nobody: a task that waits is
\* registered, unless it was waiting when somebody saved other settings.
NobodyForgotten ==
    \A t \in Tasks : future[t] = "waiting" => call[t] \in pending \cup cut

\* The client is never deaf: while it takes itself for connected, some loop
\* reads the present socket or is about to.
NeverDeaf ==
    connected => \E l \in Sockets :
        loop[l] = "new" \/ (loop[l] = "waiting" /\ reads[l] = sock)

\* Every call keeps the promise of module CallPromise although callers reconnect
\* over each other and one closes the connection: at most once, no success without
\* execution, and an end.
Promise == INSTANCE CallPromise WITH
    status <- [t \in Tasks |-> IF pc[t] = "idle" THEN "idle" ELSE "asked"],
    ran <- [t \in Tasks |-> pc[t] = "waiting" /\ call[t] \in ran]
KeepsCallPromise == Promise!Spec
=============================================================================
