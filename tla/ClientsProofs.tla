---------------------------- MODULE ClientsProofs ----------------------------
(***************************************************************************)
(* Proofs about module Clients, for any number of clients, tabs, ports and *)
(* deeds.                                                                  *)
(***************************************************************************)
EXTENDS Clients, WellFoundedInduction, TLAPS

\* While nothing has gone astray, a scan has read the very ports it will write.
Synced ==
    ~astray /\ scan # None =>
        \A c \in mem.on : scan.streams[c] # 0 => scan.streams[c] = mem.port[c]

Inv == TypeOK /\ OwnPort /\ Synced

-----------------------------------------------------------------------------
(* What the parts of a toggle do to a state.                               *)

\* allocate_port() finds a free port if there is one.
LEMMA FreePortFact ==
    ASSUME NEW m \in States, Ports \ m.inUse # {}
    PROVE  FreePort(m) \in Ports \ m.inUse
  <1> DEFINE less == OpToRel(<, Nat)
  <1>1. IsWellFoundedOn(less, Nat)
    BY NatLessThanWellFounded
  <1>2. Ports \ m.inUse \subseteq Nat
    BY PortsAssumption
  <1>3. \A i, j \in Nat : i < j => <<i, j>> \in less
    BY DEF OpToRel
  <1> HIDE DEF less
  <1>4. PICK p \in Ports \ m.inUse : \A q \in Ports \ m.inUse : ~(<<q, p>> \in less)
    BY <1>1, <1>2, WFMin
  <1>5. ASSUME NEW q \in Ports \ m.inUse PROVE p <= q
    <2>1. p \in Nat /\ q \in Nat
      BY <1>2
    <2>2. ~(q < p)
      BY <2>1, <1>3, <1>4
    <2> QED
      BY <2>1, <2>2
  <1> QED
    BY <1>5 DEF FreePort

\* A ClientState with defaults owns nothing, and what it replaced frees nothing.
LEMMA FreshFact ==
    ASSUME NEW m \in States, NEW c \in Clients
    PROVE  /\ Fresh(m, c) \in States
           /\ HasOwnPorts(m) => HasOwnPorts(Fresh(m, c))
           /\ Fresh(m, c).on = m.on \ {c}
           /\ \A d \in Clients : d # c => Fresh(m, c).port[d] = m.port[d]
  BY DEF Fresh, States, HasOwnPorts

\* A port that has just been allocated belongs to nobody.
LEMMA AllocatedFact ==
    ASSUME NEW m \in States, NEW c \in Clients, Ports \ m.inUse # {}
    PROVE  /\ Allocated(m, c) \in States
           /\ HasOwnPorts(m) => HasOwnPorts(Allocated(m, c))
  BY FreePortFact DEF Allocated, States, HasOwnPorts

\* A toggle leaves every client with a port of its own.
LEMMA FlippedFact ==
    ASSUME NEW m \in States, NEW c \in Clients, Allocates(m, c) => Ports \ m.inUse # {}
    PROVE  /\ Flipped(m, c) \in States
           /\ HasOwnPorts(m) => HasOwnPorts(Flipped(m, c))
  <1>1. CASE c \in m.on
    BY <1>1 DEF Flipped, SwitchedOff, States, HasOwnPorts
  <1>2. CASE c \notin m.on /\ Allocates(m, c)
    <2>1. FreePort(m) \in Ports /\ FreePort(m) \notin m.inUse
      BY <1>2, FreePortFact
    <2>2. Flipped(m, c) = [m EXCEPT !.on = @ \cup {c}, !.inUse = @ \cup {FreePort(m)},
                                    !.port[c] = FreePort(m)]
      BY <1>2 DEF Flipped, Allocated, States
    <2>3. Flipped(m, c) \in States
      <3>1. [m.port EXCEPT ![c] = FreePort(m)] \in [Clients -> Ports \cup Shared \cup {0}]
        BY <2>1 DEF States
      <3>2. m.inUse \cup {FreePort(m)} \in SUBSET Ports /\ m.on \cup {c} \in SUBSET Clients
        BY <2>1 DEF States
      <3> QED
        BY <2>2, <3>1, <3>2 DEF States
    <2>4. /\ Flipped(m, c).port[c] = FreePort(m)
          /\ \A d \in Clients : d # c => Flipped(m, c).port[d] = m.port[d]
          /\ Flipped(m, c).inUse = m.inUse \cup {FreePort(m)}
      BY <2>2 DEF States
    <2> QED
      BY <2>1, <2>3, <2>4 DEF HasOwnPorts
  <1>3. CASE c \notin m.on /\ ~Allocates(m, c)
    BY <1>3 DEF Flipped, States, HasOwnPorts
  <1> QED
    BY <1>1, <1>2, <1>3

\* Whatever becomes of its saves, a toggle keeps memory and file in order.
LEMMA FlipsFact ==
    ASSUME NEW m \in States, NEW c \in Clients, disk \in States, left \in [Deeds -> Nat],
           astray \in BOOLEAN, Flips(m, c)
    PROVE  /\ mem' \in States /\ disk' \in States /\ left' \in [Deeds -> Nat]
           /\ astray' \in BOOLEAN
           /\ HasOwnPorts(m) /\ HasOwnPorts(disk) => HasOwnPorts(mem') /\ HasOwnPorts(disk')
           /\ astray' = (astray \/ scan # None)
  <1>1. Flipped(m, c) \in States /\ (HasOwnPorts(m) => HasOwnPorts(Flipped(m, c)))
    BY FlippedFact DEF Flips
  <1>2. Allocates(m, c) =>
          Allocated(m, c) \in States /\ (HasOwnPorts(m) => HasOwnPorts(Allocated(m, c)))
    BY AllocatedFact DEF Flips
  <1>3. left' \in [Deeds -> Nat]
    BY DEF Flips, Spend, Deeds
  <1> QED
    BY <1>1, <1>2, <1>3 DEF Flips, SavesToggle, Saves

-----------------------------------------------------------------------------
(* What the scan does to a state.                                          *)

InSync(m) == \A c \in m.on : scan.streams[c] # 0 => scan.streams[c] = m.port[c]

\* Linking replaces ports by those of streams, so by the same ones if in sync.
LEMMA LinkedFact ==
    ASSUME NEW m \in States, NEW cs \in SUBSET Clients, scan \in Scans
    PROVE  /\ Linked(m, cs) \in States
           /\ Linked(m, cs).on = m.on
           /\ \A c \in Clients : m.port[c] # 0 => Linked(m, cs).port[c] # 0
           /\ InSync(m) => Linked(m, cs) = m
  <1> DEFINE f == [c \in Clients |->
                     IF c \in cs /\ Named(m, c) THEN scan.streams[c] ELSE m.port[c]]
  <1>1. f \in [Clients -> Ports \cup Shared \cup {0}]
    BY DEF States, Scans
  <1>2. Linked(m, cs) = [m EXCEPT !.port = f]
    BY DEF Linked
  <1>3. \A c \in Clients : m.port[c] # 0 => f[c] # 0
    BY DEF Named
  <1>4. InSync(m) => f = m.port
    <2> SUFFICES ASSUME InSync(m) PROVE \A c \in Clients : f[c] = m.port[c]
      BY DEF States
    <2> QED
      BY DEF InSync, Named
  <1> HIDE DEF f
  <1> QED
    BY <1>1, <1>2, <1>3, <1>4 DEF States

\* From one await to the next the scan saves what is in memory or nothing.
LEMMA LoopsFact ==
    ASSUME NEW m \in States, NEW todo \in SUBSET Clients, NEW changed \in BOOLEAN,
           scan \in Scans, disk \in States, left \in [Deeds -> Nat], Loops(m, todo, changed)
    PROVE  /\ mem' \in States
           /\ disk' = mem' \/ disk' = disk
           /\ left' = left \/ Spend({"disk"})
           /\ left' \in [Deeds -> Nat]
           /\ scan' = None \/ (scan' \in Scans /\ scan'.streams = scan.streams)
           /\ mem'.on = m.on
           /\ \A c \in Clients : m.port[c] # 0 => mem'.port[c] # 0
           /\ InSync(m) => mem' = m
  <1>1. PICK cs \in SUBSET todo :
          LET linked == Linked(m, cs)
              dirty == changed \/ \E c \in cs : Named(m, c)
          IN  /\ mem' = linked
              /\ \/ \E c \in todo \ cs :
                      /\ c \in m.on /\ ~Named(m, c)
                      /\ scan' = [scan EXCEPT !.at = c, !.todo = todo \ (cs \cup {c}),
                                              !.changed = dirty, !.orphan = FALSE,
                                              !.grown = FALSE]
                      /\ UNCHANGED <<disk, left>>
                 \/ /\ cs = todo
                    /\ scan' = None
                    /\ \/ dirty /\ Saves(linked) /\ UNCHANGED left
                       \/ dirty /\ Spend({"disk"}) /\ UNCHANGED disk
                       \/ ~dirty /\ UNCHANGED <<disk, left>>
    BY DEF Loops
  <1>2. cs \in SUBSET Clients
    OBVIOUS
  <1>3. mem' = Linked(m, cs)
    BY <1>1
  <1>4. disk' = mem' \/ disk' = disk
    BY <1>1 DEF Saves
  <1>5. left' = left \/ Spend({"disk"})
    BY <1>1
  <1>6. left' \in [Deeds -> Nat]
    BY <1>5 DEF Spend, Deeds
  <1>7. scan' = None \/ (scan' \in Scans /\ scan'.streams = scan.streams)
    <2> DEFINE dirty == changed \/ \E c \in cs : Named(m, c)
    <2>1. dirty \in BOOLEAN
      OBVIOUS
    <2>2. scan' = None \/ \E c \in todo \ cs :
            scan' = [scan EXCEPT !.at = c, !.todo = todo \ (cs \cup {c}),
                                 !.changed = dirty, !.orphan = FALSE, !.grown = FALSE]
      BY <1>1
    <2> HIDE DEF dirty
    <2> QED
      BY <2>1, <2>2 DEF Scans
  <1> QED
    BY <1>2, <1>3, <1>4, <1>5, <1>6, <1>7, LinkedFact

-----------------------------------------------------------------------------
(* Every client has a port of its own.                                     *)

\* Nobody has a port at first.
LEMMA InitInv == Init => Inv
  <1> SUFFICES ASSUME Init PROVE Inv
    OBVIOUS
  <1>1. mem \in States /\ disk = mem
    BY DEF Init, States
  <1>2. TypeOK
    BY <1>1, BudgetAssumption DEF Init, TypeOK
  <1>3. HasOwnPorts(mem)
    BY DEF Init, HasOwnPorts
  <1> QED
    BY <1>1, <1>2, <1>3 DEF Init, Inv, OwnPort, Synced

\* A toggle during a scan sends it astray; at any other time there is no scan.
LEMMA ToggleInv ==
    ASSUME Inv, NEW m \in States, NEW c \in Clients, Flips(m, c),
           HasOwnPorts(mem) => HasOwnPorts(m),
           asking' \in [Tabs -> Clients \cup {None}], scan' \in Scans \cup {None},
           scan = None => scan' = None, UNCHANGED conf
    PROVE  Inv'
  <1>1. /\ mem' \in States /\ disk' \in States /\ left' \in [Deeds -> Nat]
        /\ astray' \in BOOLEAN
        /\ HasOwnPorts(m) /\ HasOwnPorts(disk) => HasOwnPorts(mem') /\ HasOwnPorts(disk')
        /\ astray' = (astray \/ scan # None)
    BY FlipsFact DEF Inv, TypeOK
  <1>2. TypeOK'
    BY <1>1 DEF Inv, TypeOK
  <1>3. OwnPort'
    BY <1>1 DEF Inv, OwnPort, HasOwnPorts
  <1>4. Synced'
    BY <1>1 DEF Synced
  <1> QED
    BY <1>2, <1>3, <1>4 DEF Inv

\* A restart brings back what the file says, without any scan.
LEMMA RestartInv ==
    ASSUME Inv, NEW d \in States, Restart(d), HasOwnPorts(mem) /\ HasOwnPorts(disk) => HasOwnPorts(d),
           left' \in [Deeds -> Nat], UNCHANGED <<conf, astray>>
    PROVE  Inv'
  <1>1. TypeOK'
    BY DEF Inv, TypeOK, Restart
  <1>2. OwnPort'
    BY DEF Inv, OwnPort, Restart, HasOwnPorts
  <1>3. Synced'
    BY DEF Synced, Restart
  <1> QED
    BY <1>1, <1>2, <1>3 DEF Inv

\* A loop over memory that is in order leaves it so.
LEMMA LoopInv ==
    ASSUME Inv, scan # None, NEW m \in States, NEW todo \in SUBSET Clients, NEW changed \in BOOLEAN,
           Loops(m, todo, changed), UNCHANGED <<asking, conf>>, astray' \in BOOLEAN,
           ~astray' => ~astray /\ m = mem
    PROVE  Inv'
  <1>0. scan \in Scans /\ disk \in States /\ left \in [Deeds -> Nat]
    BY DEF Inv, TypeOK
  <1>1. /\ mem' \in States
        /\ disk' = mem' \/ disk' = disk
        /\ left' \in [Deeds -> Nat]
        /\ scan' = None \/ (scan' \in Scans /\ scan'.streams = scan.streams)
        /\ InSync(m) => mem' = m
    BY <1>0, LoopsFact
  <1>2. TypeOK'
    BY <1>0, <1>1 DEF Inv, TypeOK
  <1>3. ~astray' => ~astray /\ mem' = mem
    BY <1>1 DEF Inv, Synced, InSync
  <1>4. OwnPort'
    BY <1>1, <1>3 DEF Inv, OwnPort, HasOwnPorts
  <1>5. Synced'
    BY <1>1, <1>3 DEF Inv, Synced
  <1> QED
    BY <1>2, <1>4, <1>5 DEF Inv

\* Every step preserves the invariant.
LEMMA NextInv == Inv /\ [Next]_vars => Inv'
  <1> SUFFICES ASSUME Inv, [Next]_vars PROVE Inv'
    OBVIOUS
  <1>0. mem \in States /\ disk \in States /\ left \in [Deeds -> Nat]
    BY DEF Inv, TypeOK
  <1>1. ASSUME NEW c \in Clients, ToggleKnown(c) PROVE Inv'
    <2>1. asking' \in [Tabs -> Clients \cup {None}] /\ scan' \in Scans \cup {None}
      BY <1>1 DEF ToggleKnown, Inv, TypeOK
    <2> QED
      BY <1>0, <1>1, <2>1, ToggleInv DEF ToggleKnown
  <1>2. ASSUME NEW t \in Tabs, NEW c \in Clients, ToggleAsks(t, c) PROVE Inv'
    BY <1>2 DEF ToggleAsks, Inv, TypeOK, OwnPort, HasOwnPorts, Synced
  <1>3. ASSUME NEW t \in Tabs, ToggleStores(t) PROVE Inv'
    <2>1. asking[t] \in Clients
      BY <1>3 DEF ToggleStores, Inv, TypeOK
    <2>2. asking' \in [Tabs -> Clients \cup {None}]
      BY <1>3 DEF ToggleStores, Inv, TypeOK
    <2>3. scan' \in Scans \cup {None} /\ (scan = None => scan' = None)
      BY <1>3, <2>1 DEF ToggleStores, Inv, TypeOK, Scans
    <2>4. /\ Fresh(mem, asking[t]) \in States
          /\ HasOwnPorts(mem) => HasOwnPorts(Fresh(mem, asking[t]))
      BY <1>0, <2>1, FreshFact
    <2> QED
      BY <1>3, <2>1, <2>2, <2>3, <2>4, ToggleInv DEF ToggleStores
  <1>4. ASSUME NEW m \in States, NEW c \in Clients, CrashAllocating(m, c),
               HasOwnPorts(mem) => HasOwnPorts(m)
        PROVE  Inv'
    <2>1. /\ Allocated(m, c) \in States
          /\ HasOwnPorts(m) => HasOwnPorts(Allocated(m, c))
      BY <1>4, AllocatedFact DEF CrashAllocating
    <2>2. left' \in [Deeds -> Nat]
      BY <1>0, <1>4 DEF CrashAllocating, Spend, Deeds
    <2> QED
      BY <1>4, <2>1, <2>2, RestartInv DEF CrashAllocating
  <1>5. ASSUME NEW c \in mem.known, CrashAllocating(mem, c) PROVE Inv'
    <2>1. c \in Clients
      BY <1>0 DEF States
    <2> QED
      BY <1>0, <1>4, <1>5, <2>1
  <1>6. ASSUME NEW t \in Tabs, asking[t] # None, CrashAllocating(Fresh(mem, asking[t]), asking[t])
        PROVE  Inv'
    <2>1. asking[t] \in Clients
      BY <1>6 DEF Inv, TypeOK
    <2>2. /\ Fresh(mem, asking[t]) \in States
          /\ HasOwnPorts(mem) => HasOwnPorts(Fresh(mem, asking[t]))
      BY <1>0, <2>1, FreshFact
    <2> QED
      BY <1>4, <1>6, <2>1, <2>2
  <1>7. CASE ScanStarts
    <2>1. scan' \in Scans /\ scan'.streams = conf
      BY <1>7 DEF ScanStarts, Inv, TypeOK, Scans
    <2>2. TypeOK'
      BY <1>7, <2>1 DEF ScanStarts, Inv, TypeOK, Spend, Deeds
    <2>3. OwnPort'
      BY <1>7 DEF ScanStarts, Inv, OwnPort, HasOwnPorts
    <2>4. Synced'
      BY <1>0, <1>7, <2>1 DEF ScanStarts, Synced, Snippet, States
    <2> QED
      BY <2>2, <2>3, <2>4 DEF Inv
  <1>8. CASE ScanLoops
    <2>1. mem.known \in SUBSET Clients /\ astray \in BOOLEAN
      BY <1>0 DEF States, Inv, TypeOK
    <2> QED
      BY <1>0, <1>8, <2>1, LoopInv DEF ScanLoops
  <1>9. CASE ScanFails
    BY <1>9 DEF ScanFails, Inv, TypeOK, OwnPort, HasOwnPorts, Synced
  <1>10. ASSUME NEW p \in Shared \cup {0}, ScanAdopts(p) PROVE Inv'
    <2> DEFINE adopted == IF p # 0 /\ ~scan.orphan THEN [mem EXCEPT !.port[scan.at] = p] ELSE mem
    <2>1. scan \in Scans /\ scan # None /\ scan.at \in Clients
      BY <1>10 DEF ScanAdopts, Inv, TypeOK, Scans
    <2>2. adopted \in States
      BY <1>0, <2>1 DEF States
    <2>3. astray' \in BOOLEAN /\ (~astray' => ~astray /\ adopted = mem)
      BY <1>10 DEF ScanAdopts, Inv, TypeOK
    <2>4. CASE Loops(adopted, scan.todo, scan.changed \/ p # 0)
      <3>1. scan.todo \in SUBSET Clients /\ (scan.changed \/ p # 0) \in BOOLEAN
        BY <2>1 DEF Scans
      <3>2. UNCHANGED <<asking, conf>>
        BY <1>10 DEF ScanAdopts
      <3> HIDE DEF adopted
      <3> QED
        BY <2>1, <2>2, <2>3, <2>4, <3>1, <3>2, LoopInv
    <2>5. CASE mem' = adopted /\ scan' = None /\ UNCHANGED <<disk, left>>
      <3>1. TypeOK'
        BY <1>10, <2>2, <2>3, <2>5 DEF ScanAdopts, Inv, TypeOK
      <3>2. OwnPort'
        BY <2>3, <2>5 DEF Inv, OwnPort, HasOwnPorts
      <3>3. Synced'
        BY <2>5 DEF Synced
      <3> QED
        BY <3>1, <3>2, <3>3 DEF Inv
    <2> QED
      BY <1>10, <2>4, <2>5 DEF ScanAdopts
  <1>11. CASE Install
    <2>1. conf' \in [Clients -> Ports \cup Shared \cup {0}]
      BY <1>0, <1>11 DEF Install, Snippet, States
    <2> QED
      BY <1>11, <2>1 DEF Install, Inv, TypeOK, OwnPort, HasOwnPorts, Synced, Spend, Deeds
  <1>12. CASE OtherSave
    BY <1>12 DEF OtherSave, Saves, Inv, TypeOK, OwnPort, HasOwnPorts, Synced
  <1>13. CASE Crash
    <2>1. left' \in [Deeds -> Nat]
      BY <1>0, <1>13 DEF Crash, Spend, Deeds
    <2> QED
      BY <1>0, <1>13, <2>1, RestartInv DEF Crash
  <1>14. CASE UNCHANGED vars
    BY <1>14 DEF vars, Inv, TypeOK, OwnPort, HasOwnPorts, Synced
  <1> QED
    BY <1>1, <1>2, <1>3, <1>5, <1>6, <1>7, <1>8, <1>9, <1>10, <1>11, <1>12, <1>13, <1>14
       DEF Next, Rest

\* The types of memory, file and scan hold for ever.
THEOREM ClientsTyping == Spec => []TypeOK
  <1>1. Inv => TypeOK
    BY DEF Inv
  <1> QED
    BY <1>1, InitInv, NextInv, PTL DEF Spec

\* No two clients ever share a port, in memory or in state.json, while scans
\* find the snippet in force (docs/architecture.md:24, state.py:124-132).
THEOREM DedicatedPorts == Spec => []OwnPort
  <1>1. Inv => OwnPort
    BY DEF Inv
  <1> QED
    BY <1>1, InitInv, NextInv, PTL DEF Spec

-----------------------------------------------------------------------------
(* What the administrator has switched on stays on and has a port.         *)

NoBadSave == left["disk"] = Budget["disk"]
NoCrash == left["crash"] = Budget["crash"]

OnInv ==
    /\ TypeOK
    /\ EnabledSurvives
    /\ EnabledHasPort
    /\ \A d \in Deeds : left[d] <= Budget[d]

\* A deed done once more is at least one done.
LEMMA SpendFact ==
    ASSUME OnInv, NEW ds \in SUBSET Deeds, Spend(ds)
    PROVE  /\ \A d \in Deeds : left'[d] <= Budget[d]
           /\ \A d \in ds : left'[d] # Budget[d]
           /\ \A d \in Deeds \ ds : left'[d] = left[d]
  BY BudgetAssumption DEF OnInv, TypeOK, Spend

\* Who is switched on gets a port, whoever else is on keeps theirs.
LEMMA FlippedHasPort ==
    ASSUME NEW m \in States, NEW c \in Clients, Allocates(m, c) => Ports \ m.inUse # {},
           \A d \in m.on : m.port[d] # 0
    PROVE  \A d \in Flipped(m, c).on : Flipped(m, c).port[d] # 0
  <1>1. CASE c \in m.on
    BY <1>1 DEF Flipped, SwitchedOff, States
  <1>2. CASE c \notin m.on /\ Allocates(m, c)
    <2>1. FreePort(m) # 0
      BY <1>2, FreePortFact, PortsAssumption
    <2>2. /\ Flipped(m, c).on = m.on \cup {c}
          /\ Flipped(m, c).port = [m.port EXCEPT ![c] = FreePort(m)]
      BY <1>2 DEF Flipped, Allocated, States
    <2> QED
      BY <2>1, <2>2 DEF States
  <1>3. CASE c \notin m.on /\ ~Allocates(m, c)
    BY <1>3 DEF Flipped, Allocates, States
  <1> QED
    BY <1>1, <1>2, <1>3

\* Nothing is on at first.
LEMMA InitOn == Init => OnInv
  <1> SUFFICES ASSUME Init PROVE OnInv
    OBVIOUS
  <1>1. TypeOK
    BY InitInv DEF Inv
  <1>2. mem.on = {} /\ disk = mem
    BY DEF Init
  <1> QED
    BY <1>1, <1>2, BudgetAssumption DEF Init, OnInv, EnabledSurvives, EnabledHasPort

\* A toggle whose saves succeed is on disk, and has found a port.
LEMMA ToggleOn ==
    ASSUME OnInv, TypeOK', NEW m \in States, NEW c \in Clients, Flips(m, c),
           NoBadSave /\ NoCrash => \A d \in m.on : m.port[d] # 0
    PROVE  OnInv'
  <1>1. CASE /\ Spend({"toggle"})
             /\ mem' = Flipped(m, c)
             /\ SavesToggle(m, c)
    <2>1. /\ \A d \in Deeds : left'[d] <= Budget[d]
          /\ left'["disk"] = left["disk"] /\ left'["crash"] = left["crash"]
      BY <1>1, SpendFact DEF Deeds
    <2>2. NoBadSave /\ NoCrash => \A d \in mem'.on : mem'.port[d] # 0
      BY <1>1, FlippedHasPort DEF Flips
    <2>3. disk' = mem'
      BY <1>1 DEF SavesToggle, Saves
    <2> QED
      BY <2>1, <2>2, <2>3 DEF OnInv, EnabledSurvives, EnabledHasPort, NoBadSave, NoCrash
  <1>2. CASE Spend({"toggle", "disk"})
    BY <1>2, SpendFact DEF Deeds, OnInv, EnabledSurvives, EnabledHasPort
  <1> QED
    BY <1>1, <1>2 DEF Flips

\* The scan may save or not: it switches nobody on or off and takes no port away.
LEMMA LoopOn ==
    ASSUME OnInv, TypeOK', scan # None, NEW m \in States, NEW todo \in SUBSET Clients,
           NEW changed \in BOOLEAN, Loops(m, todo, changed), m.on = mem.on,
           \A c \in Clients : mem.port[c] # 0 => m.port[c] # 0
    PROVE  OnInv'
  <1>1. /\ mem \in States /\ disk \in States /\ scan \in Scans /\ left \in [Deeds -> Nat]
    BY DEF OnInv, TypeOK
  <1>2. /\ mem' \in States
        /\ disk' = mem' \/ disk' = disk
        /\ left' = left \/ Spend({"disk"})
        /\ mem'.on = m.on
        /\ \A c \in Clients : m.port[c] # 0 => mem'.port[c] # 0
    BY <1>1, LoopsFact
  <1>3. \A c \in mem'.on : c \in Clients /\ (mem.port[c] # 0 => mem'.port[c] # 0)
    BY <1>1, <1>2 DEF States
  <1>4. CASE left' = left
    BY <1>2, <1>3, <1>4 DEF OnInv, EnabledSurvives, EnabledHasPort
  <1>5. CASE Spend({"disk"})
    BY <1>5, SpendFact DEF Deeds, OnInv, EnabledSurvives, EnabledHasPort
  <1> QED
    BY <1>2, <1>4, <1>5

\* Every step preserves the invariant.
LEMMA NextOn == OnInv /\ TypeOK' /\ [Next]_vars => OnInv'
  <1> SUFFICES ASSUME OnInv, TypeOK', [Next]_vars PROVE OnInv'
    OBVIOUS
  <1>0. mem \in States /\ disk \in States
    BY DEF OnInv, TypeOK
  <1>00. NoBadSave /\ NoCrash => \A d \in mem.on : mem.port[d] # 0
    BY DEF OnInv, EnabledHasPort, NoBadSave, NoCrash
  <1>1. ASSUME NEW c \in Clients, ToggleKnown(c) PROVE OnInv'
    BY <1>0, <1>00, <1>1, ToggleOn DEF ToggleKnown
  <1>2. ASSUME NEW t \in Tabs, NEW c \in Clients, ToggleAsks(t, c) PROVE OnInv'
    BY <1>2 DEF ToggleAsks, OnInv, EnabledSurvives, EnabledHasPort
  <1>3. ASSUME NEW t \in Tabs, ToggleStores(t) PROVE OnInv'
    <2>1. asking[t] \in Clients
      BY <1>3 DEF ToggleStores, OnInv, TypeOK
    <2>2. /\ Fresh(mem, asking[t]) \in States
          /\ Fresh(mem, asking[t]).on = mem.on \ {asking[t]}
          /\ \A d \in Clients : d # asking[t] => Fresh(mem, asking[t]).port[d] = mem.port[d]
      BY <1>0, <2>1, FreshFact
    <2>3. \A d \in Fresh(mem, asking[t]).on :
            mem.port[d] # 0 => Fresh(mem, asking[t]).port[d] # 0
      BY <1>0, <2>2 DEF States
    <2> QED
      BY <1>00, <1>3, <2>1, <2>2, <2>3, ToggleOn DEF ToggleStores
  <1>4. ASSUME NEW d, Restart(d), NEW ds \in SUBSET Deeds, "crash" \in ds, Spend(ds)
        PROVE  OnInv'
    BY <1>4, SpendFact DEF Restart, Deeds, OnInv, EnabledSurvives, EnabledHasPort
  <1>5. ASSUME NEW m, NEW c, CrashAllocating(m, c) PROVE OnInv'
    BY <1>4, <1>5 DEF CrashAllocating, Deeds
  <1>6. CASE ScanStarts
    <2>1. Spend({"scan"}) /\ UNCHANGED <<mem, disk>>
      BY <1>6 DEF ScanStarts
    <2> QED
      BY <2>1, SpendFact DEF Deeds, OnInv, EnabledSurvives, EnabledHasPort
  <1>7. CASE ScanLoops
    <2>1. mem.known \in SUBSET Clients
      BY <1>0 DEF States
    <2> QED
      BY <1>0, <1>7, <2>1, LoopOn DEF ScanLoops
  <1>8. CASE ScanFails
    BY <1>8 DEF ScanFails, OnInv, EnabledSurvives, EnabledHasPort
  <1>9. ASSUME NEW p \in Shared \cup {0}, ScanAdopts(p) PROVE OnInv'
    <2> DEFINE adopted == IF p # 0 /\ ~scan.orphan THEN [mem EXCEPT !.port[scan.at] = p] ELSE mem
    <2>1. scan \in Scans /\ scan # None /\ scan.at \in Clients
      BY <1>9 DEF ScanAdopts, OnInv, TypeOK, Scans
    <2>2. /\ adopted \in States
          /\ adopted.on = mem.on
          /\ \A c \in Clients : mem.port[c] # 0 => adopted.port[c] # 0
      BY <1>0, <2>1 DEF States
    <2>3. CASE Loops(adopted, scan.todo, scan.changed \/ p # 0)
      <3>1. scan.todo \in SUBSET Clients /\ (scan.changed \/ p # 0) \in BOOLEAN
        BY <2>1 DEF Scans
      <3> HIDE DEF adopted
      <3> QED
        BY <2>1, <2>2, <2>3, <3>1, LoopOn
    <2>4. CASE mem' = adopted /\ UNCHANGED <<disk, left>>
      <3> HIDE DEF adopted
      <3>1. \A c \in mem'.on : c \in Clients /\ c \in mem.on
        BY <1>0, <2>2, <2>4 DEF States
      <3> QED
        BY <2>2, <2>4, <3>1 DEF OnInv, EnabledSurvives, EnabledHasPort
    <2> QED
      BY <1>9, <2>3, <2>4 DEF ScanAdopts
  <1>10. CASE Install
    <2>1. Spend({"install"}) /\ UNCHANGED <<mem, disk>>
      BY <1>10 DEF Install
    <2> QED
      BY <2>1, SpendFact DEF Deeds, OnInv, EnabledSurvives, EnabledHasPort
  <1>11. CASE OtherSave
    BY <1>11 DEF OtherSave, Saves, OnInv, EnabledSurvives, EnabledHasPort
  <1>12. CASE Crash
    BY <1>4, <1>12 DEF Crash, Deeds
  <1>13. CASE UNCHANGED vars
    BY <1>13 DEF vars, OnInv, EnabledSurvives, EnabledHasPort
  <1> QED
    BY <1>1, <1>2, <1>3, <1>5, <1>6, <1>7, <1>8, <1>9, <1>10, <1>11, <1>12, <1>13
       DEF Next, Rest

\* What is on survives a restart, unless a save has failed (M1_ACCEPTANCE.md:24).
THEOREM TogglesSurvive == Spec => []EnabledSurvives
  <1>1. OnInv => EnabledSurvives
    BY DEF OnInv
  <1> QED
    BY <1>1, InitOn, NextOn, ClientsTyping, PTL DEF Spec

\* What is on has a port to announce to (streamer.py:411-412), however toggles
\* and scans overlap, unless a save has failed or the add-on has died.
THEOREM OnMeansProvisioned == Spec => []EnabledHasPort
  <1>1. OnInv => EnabledHasPort
    BY DEF OnInv
  <1> QED
    BY <1>1, InitOn, NextOn, ClientsTyping, PTL DEF Spec
=============================================================================
