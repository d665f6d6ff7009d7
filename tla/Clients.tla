------------------------------- MODULE Clients -------------------------------
(***************************************************************************)
(* The announcement ports of the streamer add-on: switching clients on and *)
(* off (app/main.py), giving out ports and saving them (app/state.py), and *)
(* the scan that takes over the ports which the running snapserver really  *)
(* uses (app/provisioning.py).  Handlers interleave at their awaits; the   *)
(* add-on may crash and a save may fail at any of them.                    *)
(*                                                                         *)
(* Whether a client is linked to its stream, and what an announcement does *)
(* with that, is in module Zone.  A definition marked "a slip" is the next *)
(* definition with a mistake in it.                                        *)
(***************************************************************************)
EXTENDS Naturals

CONSTANTS
    Clients,    \* snapclient ids, which name streams of their own
    Tabs,       \* browser tabs on /ui/clients
    Ports,      \* ANNOUNCE_PORT_BASE and those above it, as far as they are needed
    Shared,     \* ports of the tcp streams that groups may play when scanned
    None,
    Budget      \* how often each deed may be done

Deeds == {"toggle", "scan", "install", "crash", "disk"}

ASSUME PortsAssumption == Ports \subseteq Nat \ {0} /\ Shared \subseteq Nat \ {0}
ASSUME NoneAssumption == None \notin Clients
ASSUME BudgetAssumption == Budget \in [Deeds -> Nat]

VARIABLES
    mem,        \* the clients and ports_in_use of the AppState in memory
    disk,       \* what state.json says of them
    asking,     \* per tab: the client whose name its toggle is waiting for
    scan,       \* scan_and_link() in progress, or None
    conf,       \* snapserver: the port of the stream named after each client, or 0
    astray,     \* history: has a scan met anything but the snippet in force?
    left        \* deeds still to come

vars == <<mem, disk, asking, scan, conf, astray, left>>

\* ports_in_use has no duplicates: only allocate_port() adds to it.
States ==
    [known : SUBSET Clients, on : SUBSET Clients,
     port : [Clients -> Ports \cup Shared \cup {0}], inUse : SUBSET Ports]

\* at: the client whose group is being looked up, None before the loop;
\* orphan: that client's ClientState has been replaced meanwhile;
\* grown: the dictionary iterated over has got another key.
Scans ==
    [at : Clients \cup {None}, todo : SUBSET Clients,
     streams : [Clients -> Ports \cup Shared \cup {0}],
     changed : BOOLEAN, orphan : BOOLEAN, grown : BOOLEAN]

TypeOK ==
    /\ mem \in States
    /\ disk \in States
    /\ asking \in [Tabs -> Clients \cup {None}]
    /\ scan \in Scans \cup {None}
    /\ conf \in [Clients -> Ports \cup Shared \cup {0}]
    /\ astray \in BOOLEAN
    /\ left \in [Deeds -> Nat]

Spend(ds) ==
    /\ \A d \in ds : left[d] > 0
    /\ left' = [d \in Deeds |-> IF d \in ds THEN left[d] - 1 ELSE left[d]]

Saves(m) == disk' = m

\* The process starts again from state.json as it finds it.
Restart(d) ==
    /\ mem' = d
    /\ disk' = d
    /\ asking' = [t \in Tabs |-> None]
    /\ scan' = None

-----------------------------------------------------------------------------
(* ui_client_toggle().                                                     *)

\* A ClientState with defaults, whether or not there is one already.
Fresh(m, c) == [m EXCEPT !.known = @ \cup {c}, !.on = @ \ {c}, !.port[c] = 0]

FreePortFromZero(m) ==                                               \* a slip
    CHOOSE p \in ({0} \cup Ports) \ m.inUse : \A q \in ({0} \cup Ports) \ m.inUse : p <= q
FreePort(m) == CHOOSE p \in Ports \ m.inUse : \A q \in Ports \ m.inUse : p <= q

Allocates(m, c) == c \notin m.on /\ m.port[c] = 0

\* What allocate_port() saves: the port is taken, and its client not yet told.
Allocated(m, c) == [m EXCEPT !.on = @ \cup {c}, !.inUse = @ \cup {FreePort(m)}]

KeepsFreedPort(m, c) == [m EXCEPT !.on = @ \ {c}, !.inUse = @ \ {m.port[c]}] \* a slip
SwitchedOff(m, c) ==
    [m EXCEPT !.on = @ \ {c}, !.inUse = @ \ {m.port[c]}, !.port[c] = 0]

Flipped(m, c) ==
    IF c \in m.on THEN SwitchedOff(m, c)
    ELSE IF Allocates(m, c) THEN [Allocated(m, c) EXCEPT !.port[c] = FreePort(m)]
    ELSE [m EXCEPT !.on = @ \cup {c}]

SavesAllocationOnly(m, c) ==                                         \* a slip
    disk' = IF Allocates(m, c) THEN Allocated(m, c) ELSE disk
SavesToggle(m, c) == Saves(Flipped(m, c))

\* The rest of the handler, without an await, on the memory m.
Flips(m, c) ==
    /\ Allocates(m, c) => Ports \ m.inUse # {}
    /\ \/ /\ Spend({"toggle"})
          /\ mem' = Flipped(m, c)
          /\ SavesToggle(m, c)
       \/ /\ Spend({"toggle", "disk"})                  \* the last save fails
          /\ mem' = Flipped(m, c)
          /\ disk' = IF Allocates(m, c) THEN Allocated(m, c) ELSE disk
       \/ /\ Spend({"toggle", "disk"})                  \* allocate_port()'s save fails
          /\ Allocates(m, c)
          /\ mem' = Allocated(m, c)
          /\ UNCHANGED disk
    /\ astray' = (astray \/ scan # None)

ToggleKnown(c) ==
    /\ c \in mem.known
    /\ Flips(mem, c)
    /\ UNCHANGED <<asking, scan, conf>>

ToggleAsks(t, c) ==
    /\ asking[t] = None
    /\ left["toggle"] > 0
    /\ c \notin mem.known
    /\ asking' = [asking EXCEPT ![t] = c]
    /\ UNCHANGED <<mem, disk, scan, conf, astray, left>>

\* The name has arrived, or not; nobody looks again whether the client is known.
ToggleStores(t) ==
    /\ asking[t] # None
    /\ Flips(Fresh(mem, asking[t]), asking[t])
    /\ asking' = [asking EXCEPT ![t] = None]
    /\ \/ /\ scan = None
          /\ UNCHANGED scan
       \/ /\ scan # None
          /\ scan' = [scan EXCEPT !.orphan = @ \/ scan.at = asking[t],
                                  !.grown = @ \/ asking[t] \notin mem.known]
    /\ UNCHANGED conf

\* The add-on dies between the two saves of a toggle.
CrashAllocating(m, c) ==
    /\ Allocates(m, c)
    /\ Ports \ m.inUse # {}
    /\ Spend({"toggle", "crash"})
    /\ Restart(Allocated(m, c))
    /\ UNCHANGED <<conf, astray>>

-----------------------------------------------------------------------------
(* scan_and_link().                                                        *)

\* The managed block of snapserver.conf.
Snippet(m) == [c \in Clients |-> IF c \in m.on THEN m.port[c] ELSE 0]

NamedOrNot(m, c) == c \in m.on                                       \* a slip
Named(m, c) == c \in m.on /\ scan.streams[c] # 0
Linked(m, cs) ==
    [m EXCEPT !.port = [c \in Clients |->
        IF c \in cs /\ Named(m, c) THEN scan.streams[c] ELSE m.port[c]]]

\* The loop from one await to the next, on the memory m: it deals with the
\* clients cs and then asks for the group of another, or comes to its end.
\* Clients that have no stream of their own and are in no group are only
\* reported.
Loops(m, todo, changed) ==
    \E cs \in SUBSET todo :
        LET linked == Linked(m, cs)
            dirty == changed \/ \E c \in cs : Named(m, c)
        IN  /\ mem' = linked
            /\ \/ \E c \in todo \ cs :
                    /\ c \in m.on /\ ~Named(m, c)
                    /\ scan' = [scan EXCEPT !.at = c, !.todo = todo \ (cs \cup {c}),
                                            !.changed = dirty, !.orphan = FALSE,
                                            !.grown = FALSE]
                    /\ UNCHANGED <<disk, left>>
               \/ /\ cs = todo
                  /\ scan' = None
                  /\ \/ dirty /\ Saves(linked) /\ UNCHANGED left
                     \/ dirty /\ Spend({"disk"}) /\ UNCHANGED disk
                     \/ ~dirty /\ UNCHANGED <<disk, left>>

\* list_streams() has answered and list_clients() is under way.
ScanStarts ==
    /\ scan = None
    /\ Spend({"scan"})
    /\ scan' = [at |-> None, todo |-> {}, streams |-> conf,
                changed |-> FALSE, orphan |-> FALSE, grown |-> FALSE]
    /\ astray' = (astray \/ conf # Snippet(mem))
    /\ UNCHANGED <<mem, disk, asking, conf>>

ScanLoops ==
    /\ scan # None /\ scan.at = None
    /\ Loops(mem, mem.known, FALSE)
    /\ UNCHANGED <<asking, conf, astray>>

\* list_groups() has answered: the client takes the port of what its group
\* plays, if it has one (p # 0), and the loop goes on unless the dictionary has grown.
ScanAdopts(p) ==
    /\ scan # None /\ scan.at # None
    /\ astray' = (astray \/ p # 0)
    /\ LET adopted == IF p # 0 /\ ~scan.orphan THEN [mem EXCEPT !.port[scan.at] = p] ELSE mem
       IN  \/ /\ ~scan.grown
              /\ Loops(adopted, scan.todo, scan.changed \/ p # 0)
           \/ /\ scan.grown                                  \* RuntimeError
              /\ mem' = adopted
              /\ scan' = None
              /\ UNCHANGED <<disk, left>>
    /\ UNCHANGED <<asking, conf>>

\* A call of the scan fails: what it has changed so far stays unsaved.
ScanFails ==
    /\ scan # None
    /\ scan' = None
    /\ UNCHANGED <<mem, disk, asking, conf, astray, left>>

-----------------------------------------------------------------------------
(* The administrator and the machine.                                      *)

\* The snippet shown is pasted into snapserver.conf and snapserver reloaded.
Install ==
    /\ Spend({"install"})
    /\ conf' = Snippet(mem)
    /\ UNCHANGED <<mem, disk, asking, scan, astray>>

\* Every other handler that saves, saves the whole state.
OtherSave ==
    /\ Saves(mem)
    /\ UNCHANGED <<mem, asking, scan, conf, astray, left>>

Crash ==
    /\ Spend({"crash"})
    /\ Restart(disk)
    /\ UNCHANGED <<conf, astray>>

Init ==
    /\ mem = [known |-> {}, on |-> {}, port |-> [c \in Clients |-> 0], inUse |-> {}]
    /\ disk = mem
    /\ asking = [t \in Tabs |-> None]
    /\ scan = None
    /\ conf = [c \in Clients |-> 0]
    /\ astray = FALSE
    /\ left = Budget

Rest ==
    /\ scan = None /\ (left["toggle"] = 0 \/ \A t \in Tabs : asking[t] = None)
    /\ UNCHANGED vars

Next ==
    \/ \E c \in Clients : ToggleKnown(c)
    \/ \E t \in Tabs, c \in Clients : ToggleAsks(t, c)
    \/ \E t \in Tabs : ToggleStores(t)
    \/ \E c \in mem.known : CrashAllocating(mem, c)
    \/ \E t \in Tabs : asking[t] # None /\ CrashAllocating(Fresh(mem, asking[t]), asking[t])
    \/ ScanStarts \/ ScanLoops \/ ScanFails
    \/ \E p \in Shared \cup {0} : ScanAdopts(p)
    \/ Install \/ OtherSave \/ Crash
    \/ Rest

Spec == Init /\ [][Next]_vars

-----------------------------------------------------------------------------
\* Ports are reserved, each for one client.
HasOwnPorts(m) ==
    /\ \A c \in Clients : m.port[c] # 0 => m.port[c] \in m.inUse
    /\ \A c, d \in Clients : c # d /\ m.port[c] # 0 => m.port[c] # m.port[d]

\* Each client that is on has a port of its own, in memory and after a restart,
\* and that port is reserved (docs/architecture.md:24, state.py:124-132) --
\* whatever overlaps, crashes or is not saved, as long as each scan finds the
\* snippet in force installed and nothing else to adopt.
OwnPort == ~astray => HasOwnPorts(mem) /\ HasOwnPorts(disk)

\* "Each enabled Snapcast client gets a dedicated TCP port"
\* (docs/architecture.md:24): no two clients that are on share one.  It does not hold
\* when a scan finds a snippet that is no longer in force.
OwnPortAlways ==
    \A c, d \in mem.on : c # d /\ mem.port[c] # 0 => mem.port[c] # mem.port[d]

\* What the administrator has switched on or off survives a restart
\* (M1_ACCEPTANCE.md:24), also when a scan was cut short, a client was stored
\* twice or the process died between two saves -- unless a save failed.
EnabledSurvives == left["disk"] = Budget["disk"] => disk.on = mem.on

\* A client that is on can be announced to, that is it has some port
\* (streamer.py:411-412): no overlap of toggles and scans takes it away.
EnabledHasPort ==
    left["disk"] = Budget["disk"] /\ left["crash"] = Budget["crash"] =>
        \A c \in mem.on : mem.port[c] # 0
=============================================================================
