--------------------------- MODULE RoutingProofs ---------------------------
(***************************************************************************)
(* Proofs about module Routing: for any number of entries, streamers,      *)
(* satellites and browser tabs, satellites are routed as the settings say, *)
(* whatever has been edited, reloaded and restarted in whatever order.     *)
(***************************************************************************)
EXTENDS Routing, WellFoundedInduction, TLAPS

\* Who is in hass.data, and what is known about its record.
LiveInv ==
    /\ \A e \in Entries : phase[e] \notin {"absent", "unloaded"}
                          => \E i \in DOMAIN live : live[i].entry = e
    /\ \A i \in DOMAIN live :
          LET e == live[i].entry
          IN  phase[e] \in {"settingUp", "loaded"} /\ e \notin due \cup late
              => live[i].config = stored[e]

\* As long as nobody was careless, what has been submitted is as good as stored.
UniqueInv ==
    ~careless =>
      /\ \A e, f \in Present : stored[e].url = stored[f].url => e = f
      /\ \A t \in Tabs : form[t] # None =>
            IF form[t].entry = None THEN ~Duplicate(form[t].input.url)
            ELSE form[t].input.url = stored[form[t].entry].url
      /\ \A t, u \in Tabs : form[t] # None /\ form[u] # None
            /\ form[t].entry = None /\ form[u].entry = None
            /\ form[t].input.url = form[u].input.url => t = u

RoutingInv == TypeOK /\ LiveInv /\ UniqueInv /\ ServedByServices

-----------------------------------------------------------------------------
(* The loops of _get_client().                                             *)

\* A loop that returns at the first hit returns a hit.
LEMMA FirstLemma ==
  ASSUME NEW T, T \subseteq Nat, T # {}
  PROVE  First(T) \in T
<1>1. PICK x \in T : \A y \in T : ~(<<y, x>> \in OpToRel(<, Nat))
  BY WFMin, NatLessThanWellFounded
<1>2. ASSUME NEW y \in T PROVE ~(y < x)
  <2>1. <<y, x>> \in Nat \X Nat /\ <<y, x>>[1] = y /\ <<y, x>>[2] = x
    OBVIOUS
  <2>2. ASSUME y < x PROVE <<y, x>> \in OpToRel(<, Nat)
    <3>1. <<y, x>> \in {ss \in Nat \X Nat : ss[1] < ss[2]}
      BY <2>1, <2>2
    <3>2. OpToRel(<, Nat) = {ss \in Nat \X Nat : ss[1] < ss[2]}
      BY Zenon DEF OpToRel
    <3>3. QED BY <3>1, <3>2, Zenon
  <2>3. QED BY <1>1, <2>2, Zenon
<1>3. \A y \in T : x <= y
  BY <1>2
<1>4. QED BY <1>3 DEF First

\* Records are well-typed.
LEMMA RecordType ==
  ASSUME TypeOK, NEW i \in DOMAIN live
  PROVE  live[i] \in [entry: Entries, config: Configs]
<1> DEFINE R == [entry: Entries, config: Configs]
<1>1. live \in Seq(R)
  BY DEF TypeOK
<1> HIDE DEF R
<1>2. live[i] \in R
  BY <1>1
<1>3. QED BY <1>2 DEF R

\* When everything is settled, hass.data says what is stored.
LEMMA SettledLemma ==
  ASSUME TypeOK, LiveInv, \A e \in Entries : Settled(e)
  PROVE  /\ \A i \in DOMAIN live : /\ live[i].entry \in Present
                                   /\ live[i].config = stored[live[i].entry]
         /\ \A e \in Present : \E i \in DOMAIN live : live[i].entry = e /\ live[i].config = stored[e]
<1>1. ASSUME NEW i \in DOMAIN live
      PROVE  live[i].entry \in Present /\ live[i].config = stored[live[i].entry]
  <2> DEFINE e == live[i].entry
  <2>1. live[i] \in Records
    BY DEF Records
  <2>2. live[i] \in [entry: Entries, config: Configs]
    BY RecordType
  <2>3. phase[e] = "loaded" /\ e \notin due \cup late
    BY <2>1, <2>2 DEF TypeOK, Settled
  <2>4. stored[e] # None
    BY <2>3, <2>2 DEF TypeOK
  <2>5. QED BY <2>3, <2>4, <2>2 DEF LiveInv, Present
<1>2. ASSUME NEW e \in Present
      PROVE  \E i \in DOMAIN live : live[i].entry = e /\ live[i].config = stored[e]
  <2>1. e \in Entries /\ phase[e] \notin {"absent", "unloaded"}
    BY DEF Present, TypeOK, Settled
  <2>2. PICK i \in DOMAIN live : live[i].entry = e
    BY <2>1 DEF LiveInv
  <2>3. QED BY <1>1, <2>2
<1>3. QED BY <1>1, <1>2

\* _get_client() then picks a streamer that the settings allow.
LEMMA RouteLemma ==
  ASSUME TypeOK, LiveInv
  PROVE  RoutesAsStored
<1> SUFFICES ASSUME \A e \in Entries : Settled(e), NEW s \in Satellites \cup {NoSatellite}
             PROVE  Route(s) \in Proper(s)
  BY DEF RoutesAsStored
<1> DEFINE naming == {e \in Present : s \in stored[e].named}
           catchAll == {e \in Present : stored[e].named = {}}
<1>1. /\ \A i \in DOMAIN live : /\ live[i].entry \in Present
                                /\ live[i].config = stored[live[i].entry]
      /\ \A e \in Present : \E i \in DOMAIN live : live[i].entry = e /\ live[i].config = stored[e]
  BY SettledLemma
<1>2. CASE live = <<>>
  BY <1>1, <1>2 DEF Route, Proper
<1>3. CASE live # <<>>
  <2>1. 1 \in DOMAIN live /\ DOMAIN live \subseteq Nat
    BY <1>3 DEF TypeOK
  <2>2. Present # {}
    BY <1>1, <2>1
  <2>3. ASSUME NEW i \in DOMAIN live, naming # {} => i \in Naming(s),
               naming = {} /\ catchAll # {} => i \in CatchAll
        PROVE  live[i].config.url \in Proper(s)
    <3>1. live[i].entry \in Present /\ live[i].config = stored[live[i].entry]
      BY <1>1
    <3>2. CASE naming # {}
      BY <2>2, <2>3, <3>1, <3>2 DEF Proper, Naming
    <3>3. CASE naming = {} /\ catchAll # {}
      BY <2>2, <2>3, <3>1, <3>3 DEF Proper, CatchAll
    <3>4. CASE naming = {} /\ catchAll = {}
      BY <2>2, <3>1, <3>4 DEF Proper
    <3>5. QED BY <3>2, <3>3, <3>4
  <2>4. naming # {} <=> Naming(s) # {}
    BY <1>1 DEF Naming
  <2>5. catchAll # {} <=> CatchAll # {}
    BY <1>1 DEF CatchAll
  <2>6. Naming(s) \subseteq DOMAIN live /\ CatchAll \subseteq DOMAIN live
    BY DEF Naming, CatchAll
  <2>7. CASE Naming(s) # {}
    <3>1. First(Naming(s)) \in Naming(s)
      BY <2>1, <2>6, <2>7, FirstLemma
    <3>2. Route(s) = live[First(Naming(s))].config.url
      BY <1>3, <2>7 DEF Route
    <3>3. QED BY <2>3, <2>4, <2>6, <2>7, <3>1, <3>2
  <2>8. CASE Naming(s) = {} /\ CatchAll # {}
    <3>1. First(CatchAll) \in CatchAll
      BY <2>1, <2>6, <2>8, FirstLemma
    <3>2. Route(s) = live[First(CatchAll)].config.url
      BY <1>3, <2>8 DEF Route
    <3>3. QED BY <2>3, <2>4, <2>6, <2>8, <3>1, <3>2
  <2>9. CASE Naming(s) = {} /\ CatchAll = {}
    <3>1. First({1}) \in {1}
      BY FirstLemma
    <3>2. Route(s) = live[1].config.url
      BY <1>3, <2>9, <3>1 DEF Route
    <3>3. QED BY <2>1, <2>3, <2>4, <2>5, <2>9, <3>2
  <2>10. QED BY <2>7, <2>8, <2>9
<1>4. QED BY <1>2, <1>3
-----------------------------------------------------------------------------
(* hass.data.                                                              *)

\* A record that is popped leaves the others as they were.
LEMMA PoppedLemma ==
  ASSUME TypeOK, NEW e \in Entries, NEW k0 \in DOMAIN live, live[k0].entry = e
  PROVE  /\ Popped(e) \in Seq([entry: Entries, config: Configs])
         /\ \A i \in DOMAIN Popped(e) : Popped(e)[i].entry # e
         /\ \A i \in DOMAIN Popped(e) : \E j \in DOMAIN live : Popped(e)[i] = live[j]
         /\ \A j \in DOMAIN live : live[j].entry # e
                                   => \E i \in DOMAIN Popped(e) : Popped(e)[i] = live[j]
         /\ \A i, j \in DOMAIN Popped(e) : Popped(e)[i].entry = Popped(e)[j].entry => i = j
<1> DEFINE R == [entry: Entries, config: Configs]
           k == CHOOSE i \in DOMAIN live : live[i].entry = e
           n == Len(live) - 1
           p == [i \in 1 .. n |-> IF i < k THEN live[i] ELSE live[i + 1]]
<1>1. Popped(e) = p
  BY DEF Popped
<1>2. k \in DOMAIN live /\ live[k].entry = e
  OBVIOUS
<1>3. live \in Seq(R) /\ \A i, j \in DOMAIN live : live[i].entry = live[j].entry => i = j
  BY DEF TypeOK
<1>4. DOMAIN live = 1 .. n + 1 /\ n \in Nat /\ k \in 1 .. n + 1
  BY <1>2, <1>3
<1> HIDE DEF k, n
<1>5. ASSUME NEW i \in 1 .. n
      PROVE  \E j \in DOMAIN live : j # k /\ p[i] = live[j] /\ j = IF i < k THEN i ELSE i + 1
  <2>1. CASE i < k
    BY <1>4, <2>1
  <2>2. CASE ~(i < k)
    BY <1>4, <2>2
  <2>3. QED BY <2>1, <2>2
<1>6. ASSUME NEW j \in DOMAIN live, j # k PROVE \E i \in 1 .. n : p[i] = live[j]
  <2>1. CASE j < k
    BY <1>4, <2>1
  <2>2. CASE ~(j < k)
    <3>1. j - 1 \in 1 .. n /\ ~(j - 1 < k) /\ (j - 1) + 1 = j
      BY <1>4, <1>6, <2>2
    <3>2. QED BY <3>1
  <2>3. QED BY <2>1, <2>2
<1>7. DOMAIN p = 1 .. n
  OBVIOUS
<1>8. \A i \in 1 .. n : p[i] \in R
  <2>1. \A j \in DOMAIN live : live[j] \in R
    BY RecordType
  <2>2. QED BY <1>5, <2>1
<1>9. p \in Seq(R)
  BY <1>4, <1>8
<1>10. \A i \in 1 .. n : p[i].entry # e
  BY <1>2, <1>3, <1>5
<1>11. \A j \in DOMAIN live : live[j].entry # e => j # k
  BY <1>2
<1>12. ASSUME NEW i \in 1 .. n, NEW j \in 1 .. n, p[i].entry = p[j].entry PROVE i = j
  <2>1. PICK x \in DOMAIN live : p[i] = live[x] /\ x = IF i < k THEN i ELSE i + 1
    BY <1>5
  <2>2. PICK y \in DOMAIN live : p[j] = live[y] /\ y = IF j < k THEN j ELSE j + 1
    BY <1>5
  <2>3. x = y
    BY <1>3, <1>12, <2>1, <2>2
  <2>4. QED BY <1>4, <2>1, <2>2, <2>3
<1>13. \A i \in 1 .. n : \E j \in DOMAIN live : p[i] = live[j]
  BY <1>5
<1>14. \A j \in DOMAIN live : live[j].entry # e => \E i \in 1 .. n : p[i] = live[j]
  BY <1>6, <1>11
<1> HIDE DEF p, R
<1>15. QED BY <1>1, <1>7, <1>9, <1>10, <1>12, <1>13, <1>14 DEF R

-----------------------------------------------------------------------------
(* One lemma for each kind of step.                                        *)

\* TypeOK in parts, by what a step can disturb.
EntryOK ==
    /\ stored \in [Entries -> Configs \cup {None}]
    /\ phase \in [Entries -> Phases]
    /\ \A e \in Entries : stored[e] = None <=> phase[e] = "absent"
    /\ due \subseteq Present /\ late \subseteq Present
LiveOK ==
    /\ live \in Seq([entry: Entries, config: Configs])
    /\ \A i, j \in DOMAIN live : live[i].entry = live[j].entry => i = j
    /\ \A i \in DOMAIN live : phase[live[i].entry] \notin {"absent", "unloaded"}
FormOK ==
    /\ form \in [Tabs -> Forms \cup {None}]
    /\ \A t \in Tabs : form[t] # None => form[t].entry \in Present \cup {None}
FlagsOK ==
    /\ services \in BOOLEAN /\ careless \in BOOLEAN
    /\ submits \in Nat /\ restarts \in Nat /\ stuck \in Nat

LEMMA TypeParts == TypeOK <=> EntryOK /\ LiveOK /\ FormOK /\ FlagsOK
  BY DEF TypeOK, EntryOK, LiveOK, FormOK, FlagsOK, Records

\* Forms that are submitted or shown again do not touch entries.
LEMMA FormLemma ==
  ASSUME RoutingInv, NEW t \in Tabs,
         \/ \E input \in Configs : SubmitNew(t, input)
         \/ \E input \in Configs, e \in Entries : SubmitOptions(t, e, input)
         \/ Refused(t)
  PROVE  RoutingInv'
<1>1. EntryOK /\ LiveOK /\ FormOK /\ FlagsOK
  BY TypeParts DEF RoutingInv
<1>2. UNCHANGED entryVars
  BY DEF SubmitNew, SubmitOptions, Refused, Submitted
<1>3. EntryOK' /\ LiveOK' /\ LiveInv' /\ ServedByServices' /\ Present' = Present
  BY <1>1, <1>2 DEF RoutingInv, entryVars, EntryOK, LiveOK, LiveInv, ServedByServices, Present
<1>4. FlagsOK'
  <2>1. careless' \in BOOLEAN
    BY <1>1 DEF FlagsOK, SubmitNew, SubmitOptions, Refused, Closes
  <2>2. submits' \in Nat /\ restarts' = restarts /\ stuck' = stuck
    BY <1>1 DEF FlagsOK, SubmitNew, SubmitOptions, Refused, Submitted, Closes
  <2>3. services' = services
    BY <1>2 DEF entryVars
  <2>4. QED BY <1>1, <2>1, <2>2, <2>3 DEF FlagsOK
<1>5. FormOK'
  <2>1. ASSUME NEW input \in Configs, SubmitNew(t, input) PROVE FormOK'
    BY <1>1, <1>3, <2>1 DEF FormOK, SubmitNew, Submitted, Forms
  <2>2. ASSUME NEW input \in Configs, NEW e \in Entries, SubmitOptions(t, e, input) PROVE FormOK'
    BY <1>1, <1>3, <2>2 DEF FormOK, SubmitOptions, Submitted, Forms, Present
  <2>3. CASE Refused(t)
    BY <1>1, <1>3, <2>3 DEF FormOK, Refused, Closes
  <2>4. QED BY <2>1, <2>2, <2>3
<1>6. UniqueInv'
  <2>1. \A url : Duplicate(url)' <=> Duplicate(url)
    BY <1>2, <1>3 DEF Duplicate, entryVars
  <2>2. stored' = stored
    BY <1>2 DEF entryVars
  <2>3. UniqueInv
    BY DEF RoutingInv
  <2>4. ASSUME NEW input \in Configs, SubmitNew(t, input) PROVE UniqueInv'
    BY <1>1, <1>3, <2>1, <2>2, <2>3, <2>4 DEF FormOK, UniqueInv, SubmitNew, Submitted
  <2>5. ASSUME NEW input \in Configs, NEW e \in Entries, SubmitOptions(t, e, input)
        PROVE  UniqueInv'
    <3>1. None \notin Entries
      BY RoutingAssumption
    <3>2. QED
      BY <1>1, <1>3, <2>1, <2>2, <2>3, <2>5, <3>1 DEF FormOK, UniqueInv, SubmitOptions, Submitted
  <2>6. CASE Refused(t)
    BY <1>1, <1>3, <2>1, <2>2, <2>3, <2>6 DEF FormOK, UniqueInv, Refused, Closes
  <2>7. QED BY <2>4, <2>5, <2>6
<1>7. QED BY <1>3, <1>4, <1>5, <1>6, TypeParts, PTL DEF RoutingInv

\* A new entry: its id is new to hass.data.
LEMMA CreatesLemma ==
  ASSUME RoutingInv, NEW t \in Tabs, NEW e \in Entries, Creates(t, e)
  PROVE  RoutingInv'
<1>1. EntryOK /\ LiveOK /\ FormOK /\ FlagsOK
  BY TypeParts DEF RoutingInv
<1>2. /\ form[t] # None /\ form[t].entry = None /\ stored[e] = None /\ phase[e] = "absent"
      /\ stored' = [stored EXCEPT ![e] = form[t].input]
      /\ phase' = [phase EXCEPT ![e] = "unloaded"]
      /\ form' = [form EXCEPT ![t] = None]
      /\ UNCHANGED <<live, services, due, late, careless, submits, restarts, stuck>>
  BY <1>1 DEF Creates, Closes, EntryOK
<1>3. form[t].input \in Configs /\ form[t].input # None
  BY <1>1, <1>2, RoutingAssumption DEF FormOK, Forms, Configs
<1>4. e \notin Present /\ Present' = Present \cup {e}
  BY <1>1, <1>2, <1>3 DEF Present, EntryOK
<1>5. EntryOK'
  BY <1>1, <1>2, <1>3, <1>4 DEF EntryOK, Phases
<1>6. \A i \in DOMAIN live : live[i].entry # e
  BY <1>1, <1>2 DEF LiveOK
<1>7. LiveOK'
  BY <1>1, <1>2, <1>6 DEF LiveOK, EntryOK
<1>8. FormOK' /\ FlagsOK'
  BY <1>1, <1>2, <1>4 DEF FormOK, FlagsOK
<1>9. LiveInv'
  <2>1. LiveInv
    BY DEF RoutingInv
  <2>2. \A f \in Entries : f # e => phase'[f] = phase[f] /\ stored'[f] = stored[f]
    BY <1>1, <1>2 DEF EntryOK
  <2>3. phase'[e] = "unloaded"
    BY <1>1, <1>2 DEF EntryOK
  <2>4. \A i \in DOMAIN live : live[i].entry \in Entries
    BY RecordType DEF RoutingInv
  <2>5. QED BY <1>2, <1>6, <2>1, <2>2, <2>3, <2>4 DEF LiveInv
<1>10. UniqueInv'
  <2> SUFFICES ASSUME ~careless PROVE UniqueInv'
    BY <1>2 DEF UniqueInv
  <2>1. UniqueInv
    BY DEF RoutingInv
  <2>2. \A f \in Present : stored'[f] = stored[f] /\ stored[f].url # form[t].input.url
    BY <1>1, <1>2, <1>4, <2>1 DEF UniqueInv, EntryOK, Duplicate, Present
  <2>3. stored'[e] = form[t].input
    BY <1>1, <1>2 DEF EntryOK
  <2>4. \A u \in Tabs : form'[u] # None => form'[u] = form[u] /\ u # t
    BY <1>1, <1>2 DEF FormOK
  <2>5. \A f, g \in Present' : stored'[f].url = stored'[g].url => f = g
    BY <1>4, <2>1, <2>2, <2>3 DEF UniqueInv
  <2>6. ASSUME NEW u \in Tabs, form'[u] # None
        PROVE  (IF form[u].entry = None THEN ~Duplicate(form[u].input.url)
                ELSE form[u].input.url = stored[form[u].entry].url)'
    <3>1. form'[u] = form[u] /\ u # t /\ form[u] # None
      BY <2>4, <2>6
    <3>2. CASE form[u].entry = None
      <4>1. form[u].input.url # form[t].input.url
        BY <1>2, <2>1, <3>1, <3>2 DEF UniqueInv
      <4>2. ~Duplicate(form[u].input.url)
        BY <2>1, <3>1, <3>2 DEF UniqueInv
      <4>3. QED BY <1>4, <2>2, <2>3, <3>1, <3>2, <4>1, <4>2 DEF Duplicate
    <3>3. CASE form[u].entry # None
      <4>1. form[u].entry \in Present
        BY <1>1, <3>1, <3>3 DEF FormOK
      <4>2. QED BY <2>1, <2>2, <3>1, <3>3, <4>1 DEF UniqueInv
    <3>4. QED BY <3>2, <3>3
  <2>7. \A u, v \in Tabs : form'[u] # None /\ form'[v] # None
           /\ form'[u].entry = None /\ form'[v].entry = None
           /\ form'[u].input.url = form'[v].input.url => u = v
    BY <2>1, <2>4 DEF UniqueInv
  <2>8. QED BY <2>5, <2>6, <2>7 DEF UniqueInv
<1>11. ServedByServices'
  BY <1>2 DEF RoutingInv, ServedByServices
<1>12. QED BY <1>5, <1>7, <1>8, <1>9, <1>10, <1>11, TypeParts, PTL DEF RoutingInv

\* Options: a record that no longer matches is either due for a reload, or late.
LEMMA SavesOptionsLemma ==
  ASSUME RoutingInv, NEW t \in Tabs, SavesOptions(t)
  PROVE  RoutingInv'
<1> DEFINE e == form[t].entry
           new == OptionsData(form[t].input)
<1>1. EntryOK /\ LiveOK /\ FormOK /\ FlagsOK
  BY TypeParts DEF RoutingInv
<1>2. /\ form[t] # None /\ e # None
      /\ form' = [form EXCEPT ![t] = None]
      /\ UNCHANGED <<phase, live, services, careless, submits, restarts, stuck>>
  BY DEF SavesOptions, Closes
<1>3. e \in Present /\ e \in Entries /\ form[t].input \in Configs
  BY <1>1, <1>2 DEF FormOK, Forms, Present
<1>4. new \in Configs /\ new # None /\ new.url = form[t].input.url
  BY <1>3, RoutingAssumption DEF OptionsData, Configs
<1>5. stored' = [stored EXCEPT ![e] = new]
  BY <1>1, <1>2, <1>3 DEF SavesOptions, EntryOK
<1>6. Present' = Present
  BY <1>1, <1>3, <1>4, <1>5 DEF Present, EntryOK
<1>7. /\ due' \in {due, due \cup {e}} /\ late' \in {late, late \cup {e}}
      /\ \/ stored' = stored
         \/ /\ phase[e] = "settingUp" => e \in late'
            /\ phase[e] = "loaded" => e \in due'
  <2>1. CASE stored[e] = new
    <3>1. stored' = stored /\ due' = due /\ late' = late
      BY <2>1 DEF SavesOptions
    <3>2. QED BY <3>1
  <2>2. CASE stored[e] # new
    <3>1. due' = IF Listens(e) THEN due \cup {e} ELSE due
      BY <2>2 DEF SavesOptions, Notifies
    <3>2. late' = IF phase[e] = "settingUp" THEN late \cup {e} ELSE late
      BY <2>2 DEF SavesOptions
    <3>3. phase[e] = "loaded" => Listens(e)
      BY DEF Listens
    <3>4. QED BY <3>1, <3>2, <3>3
  <2>3. QED BY <2>1, <2>2
<1>8. EntryOK'
  BY <1>1, <1>2, <1>3, <1>4, <1>5, <1>6, <1>7 DEF EntryOK, Present
<1>9. LiveOK' /\ FormOK' /\ FlagsOK'
  BY <1>1, <1>2, <1>6 DEF LiveOK, FormOK, FlagsOK
<1>10. LiveInv'
  <2>1. LiveInv
    BY DEF RoutingInv
  <2>2. \A f \in Entries : f # e => stored'[f] = stored[f]
    BY <1>1, <1>5 DEF EntryOK
  <2>3. \A i \in DOMAIN live : live[i].entry \in Entries
    BY RecordType DEF RoutingInv
  <2>4. stored' = stored \/ (phase[e] \in {"settingUp", "loaded"} => e \in due' \cup late')
    BY <1>7
  <2>5. due \subseteq due' /\ late \subseteq late'
    BY <1>7
  <2>6. ASSUME NEW i \in DOMAIN live, phase[live[i].entry] \in {"settingUp", "loaded"},
               live[i].entry \notin due' \cup late'
        PROVE  live[i].config = stored'[live[i].entry]
    <3>1. live[i].config = stored[live[i].entry]
      BY <2>1, <2>5, <2>6 DEF LiveInv
    <3>2. CASE stored' = stored
      BY <3>1, <3>2
    <3>3. CASE live[i].entry # e
      BY <2>2, <2>3, <3>1, <3>3
    <3>4. QED BY <2>4, <2>6, <3>2, <3>3
  <2>7. QED BY <1>2, <2>1, <2>6 DEF LiveInv
<1>11. UniqueInv'
  <2> SUFFICES ASSUME ~careless PROVE UniqueInv'
    BY <1>2 DEF UniqueInv
  <2>1. UniqueInv
    BY DEF RoutingInv
  <2>2. \A f \in Present : stored'[f].url = stored[f].url
    BY <1>1, <1>2, <1>3, <1>4, <1>5, <2>1 DEF UniqueInv, EntryOK, Present
  <2>3. \A u \in Tabs : form'[u] # None => form'[u] = form[u]
    BY <1>1, <1>2 DEF FormOK
  <2>4. \A url : Duplicate(url)' <=> Duplicate(url)
    BY <1>6, <2>2 DEF Duplicate
  <2>5. \A u \in Tabs : form[u] # None /\ form[u].entry # None => form[u].entry \in Present
    BY <1>1 DEF FormOK
  <2>6. QED BY <1>6, <2>1, <2>2, <2>3, <2>4, <2>5 DEF UniqueInv
<1>12. ServedByServices'
  BY <1>2 DEF RoutingInv, ServedByServices
<1>13. QED BY <1>8, <1>9, <1>10, <1>11, <1>12, TypeParts, PTL DEF RoutingInv

\* Forms do not notice what happens to entries that stay.
LEMMA FormsStay ==
  ASSUME RoutingInv, UNCHANGED <<stored, form, careless>>
  PROVE  FormOK' /\ UniqueInv' /\ Present' = Present
<1>1. FormOK /\ UniqueInv
  BY TypeParts DEF RoutingInv
<1>2. Present' = Present /\ \A url : Duplicate(url)' <=> Duplicate(url)
  BY DEF Present, Duplicate
<1>3. QED BY <1>1, <1>2 DEF FormOK, UniqueInv

\* Setup records what is stored at that moment.
LEMMA SetupLemma ==
  ASSUME RoutingInv, NEW e \in Entries, SetupStarts(e)
  PROVE  RoutingInv'
<1> DEFINE r == [entry |-> e, config |-> stored[e]]
           n == Len(live)
<1>1. EntryOK /\ LiveOK /\ FormOK /\ FlagsOK
  BY TypeParts DEF RoutingInv
<1>2. /\ phase[e] = "unloaded" /\ live' = Append(live, r) /\ services' = TRUE
      /\ phase' = [phase EXCEPT ![e] = "settingUp"]
      /\ UNCHANGED <<stored, due, late, stuck, form, careless, submits, restarts>>
  BY DEF SetupStarts, Goes, Enters, formVars
<1>3. FormOK' /\ UniqueInv' /\ Present' = Present
  BY <1>2, FormsStay
<1>4. EntryOK' /\ FlagsOK'
  BY <1>1, <1>2, <1>3 DEF EntryOK, FlagsOK, Phases
<1>5. r \in [entry: Entries, config: Configs]
  BY <1>1, <1>2 DEF EntryOK
<1>6. n \in Nat /\ DOMAIN live = 1 .. n
  BY <1>1 DEF LiveOK
<1>7. /\ live' \in Seq([entry: Entries, config: Configs])
      /\ DOMAIN live' = 1 .. n + 1 /\ live'[n + 1] = r
      /\ \A i \in 1 .. n : live'[i] = live[i]
  BY <1>1, <1>2, <1>5, <1>6 DEF LiveOK
<1>8. \A i \in 1 .. n : live[i].entry # e /\ live[i].entry \in Entries
  BY <1>1, <1>2, <1>6, RecordType DEF LiveOK, RoutingInv
<1>9. \A f \in Entries : f # e => phase'[f] = phase[f]
  BY <1>1, <1>2 DEF EntryOK
<1>10. phase'[e] = "settingUp"
  BY <1>1, <1>2 DEF EntryOK
<1>11. LiveOK'
  <2>1. \A i \in 1 .. n + 1 : i = n + 1 \/ i \in 1 .. n
    BY <1>6
  <2>2. \A i, j \in DOMAIN live' : live'[i].entry = live'[j].entry => i = j
    BY <1>1, <1>6, <1>7, <1>8, <2>1 DEF LiveOK
  <2>3. \A i \in DOMAIN live' : phase'[live'[i].entry] \notin {"absent", "unloaded"}
    BY <1>1, <1>6, <1>7, <1>8, <1>9, <1>10, <2>1 DEF LiveOK
  <2>4. QED BY <1>7, <2>2, <2>3 DEF LiveOK
<1>12. LiveInv'
  <2>1. LiveInv
    BY DEF RoutingInv
  <2>2. \A i \in 1 .. n + 1 : i = n + 1 \/ i \in 1 .. n
    BY <1>6
  <2>3. \A f \in Entries : phase'[f] \notin {"absent", "unloaded"}
                           => \E i \in DOMAIN live' : live'[i].entry = f
    <3>1. n + 1 \in DOMAIN live' /\ live'[n + 1].entry = e /\ 1 .. n \subseteq DOMAIN live'
      BY <1>6, <1>7
    <3>2. QED BY <1>6, <1>7, <1>9, <2>1, <3>1 DEF LiveInv
  <2>4. ASSUME NEW i \in DOMAIN live', phase'[live'[i].entry] \in {"settingUp", "loaded"},
               live'[i].entry \notin due \cup late
        PROVE  live'[i].config = stored[live'[i].entry]
    <3>1. CASE i = n + 1
      BY <1>7, <3>1
    <3>2. CASE i \in 1 .. n
      BY <1>6, <1>7, <1>8, <1>9, <2>1, <2>4, <3>2 DEF LiveInv
    <3>3. QED BY <1>7, <2>2, <3>1, <3>2
  <2>5. QED BY <1>2, <2>3, <2>4 DEF LiveInv
<1>13. ServedByServices'
  BY <1>2, <1>6, <1>7 DEF ServedByServices
<1>14. QED BY <1>3, <1>4, <1>11, <1>12, <1>13, TypeParts, PTL DEF RoutingInv

\* The phases in which an entry is in hass.data.
LEMMA PhaseLemma ==
  ASSUME RoutingInv, NEW e \in Entries,
         SetupEnds(e) \/ ReloadStarts(e) \/ RemoveStarts(e) \/ StaysLoaded(e)
  PROVE  RoutingInv'
<1>1. EntryOK /\ LiveOK /\ FormOK /\ FlagsOK
  BY TypeParts DEF RoutingInv
<1>2. PICK p \in {"loaded", "unloading", "removing", "stuck"} :
         /\ phase' = [phase EXCEPT ![e] = p]
         /\ phase[e] \in {"settingUp", "loaded", "unloading"}
         /\ p = "loaded" => phase[e] = "settingUp"
         /\ due' = due \/ (due' = due \ {e} /\ p = "unloading")
  BY DEF SetupEnds, ReloadStarts, RemoveStarts, StaysLoaded, Goes, Enters
<1>3. UNCHANGED <<stored, live, services, late, form, careless, submits, restarts>>
  BY DEF SetupEnds, ReloadStarts, RemoveStarts, StaysLoaded, Goes, Enters, formVars
<1>4. FormOK' /\ UniqueInv' /\ Present' = Present
  BY <1>3, FormsStay
<1>5. EntryOK'
  BY <1>1, <1>2, <1>3, <1>4 DEF EntryOK, Phases
<1>6. FlagsOK'
  <2>1. stuck' \in Nat
    BY <1>1 DEF FlagsOK, SetupEnds, ReloadStarts, RemoveStarts, StaysLoaded
  <2>2. QED BY <1>1, <1>3, <2>1 DEF FlagsOK
<1>7. \A f \in Entries : phase'[f] = IF f = e THEN p ELSE phase[f]
  BY <1>1, <1>2 DEF EntryOK
<1>8. \A i \in DOMAIN live : live[i].entry \in Entries
  BY RecordType DEF RoutingInv
<1>9. LiveOK'
  BY <1>1, <1>3, <1>7, <1>8 DEF LiveOK
<1>10. LiveInv'
  <2>1. LiveInv
    BY DEF RoutingInv
  <2>2. ASSUME NEW i \in DOMAIN live, phase'[live[i].entry] \in {"settingUp", "loaded"},
               live[i].entry \notin due' \cup late
        PROVE  phase[live[i].entry] \in {"settingUp", "loaded"} /\ live[i].entry \notin due \cup late
    BY <1>2, <1>7, <1>8, <2>2
  <2>3. \A f \in Entries : phase'[f] \notin {"absent", "unloaded"}
                           => phase[f] \notin {"absent", "unloaded"}
    BY <1>2, <1>7
  <2>4. QED BY <1>3, <2>1, <2>2, <2>3 DEF LiveInv
<1>11. ServedByServices'
  BY <1>3 DEF RoutingInv, ServedByServices
<1>12. QED BY <1>4, <1>5, <1>6, <1>9, <1>10, <1>11, TypeParts, PTL DEF RoutingInv

\* Unloading takes the entry's record out, and the services with the last.
LEMMA UnloadLemma ==
  ASSUME RoutingInv, NEW e \in Entries, phase[e] \in {"unloading", "removing"}, Unloads(e)
  PROVE  /\ live' \in Seq([entry: Entries, config: Configs])
         /\ \A i \in DOMAIN live' : live'[i].entry # e
         /\ \A i \in DOMAIN live' : \E j \in DOMAIN live : live'[i] = live[j]
         /\ \A j \in DOMAIN live : live[j].entry # e => \E i \in DOMAIN live' : live'[i] = live[j]
         /\ \A i, j \in DOMAIN live' : live'[i].entry = live'[j].entry => i = j
         /\ services' \in BOOLEAN /\ ServedByServices'
<1>1. PICK k0 \in DOMAIN live : live[k0].entry = e
  BY DEF RoutingInv, LiveInv
<1>2. live' = Popped(e)
  BY DEF Unloads
<1>3. live # <<>>
  BY <1>1 DEF RoutingInv, TypeOK
<1>4. services = TRUE
  BY <1>3 DEF RoutingInv, ServedByServices, TypeOK
<1>5. services' = (live' # <<>>)
  BY <1>2, <1>4 DEF Unloads, LastOne
<1>6. TypeOK
  BY DEF RoutingInv
<1>7. /\ Popped(e) \in Seq([entry: Entries, config: Configs])
      /\ \A i \in DOMAIN Popped(e) : Popped(e)[i].entry # e
      /\ \A i \in DOMAIN Popped(e) : \E j \in DOMAIN live : Popped(e)[i] = live[j]
      /\ \A j \in DOMAIN live : live[j].entry # e
                                => \E i \in DOMAIN Popped(e) : Popped(e)[i] = live[j]
      /\ \A i, j \in DOMAIN Popped(e) : Popped(e)[i].entry = Popped(e)[j].entry => i = j
  BY <1>1, <1>6, PoppedLemma
<1>8. services' \in BOOLEAN /\ ServedByServices'
  BY <1>5 DEF ServedByServices
<1>9. QED BY <1>2, <1>7, <1>8, Zenon

\* What is left in hass.data is as good as before.
LEMMA UnloadedLemma ==
  ASSUME RoutingInv, NEW e \in Entries, Unloaded(e)
  PROVE  RoutingInv'
<1>1. EntryOK /\ LiveOK /\ FormOK /\ FlagsOK
  BY TypeParts DEF RoutingInv
<1>2. /\ phase[e] = "unloading" /\ phase' = [phase EXCEPT ![e] = "unloaded"]
      /\ late' = late \ {e}
      /\ UNCHANGED <<stored, due, stuck, form, careless, submits, restarts>>
  BY DEF Unloaded, Unloads, Goes, Enters, formVars
<1>3. /\ live' \in Seq([entry: Entries, config: Configs])
      /\ \A i \in DOMAIN live' : live'[i].entry # e
      /\ \A i \in DOMAIN live' : \E j \in DOMAIN live : live'[i] = live[j]
      /\ \A j \in DOMAIN live : live[j].entry # e => \E i \in DOMAIN live' : live'[i] = live[j]
      /\ \A i, j \in DOMAIN live' : live'[i].entry = live'[j].entry => i = j
      /\ services' \in BOOLEAN /\ ServedByServices'
  BY <1>2, UnloadLemma DEF Unloaded
<1>4. FormOK' /\ UniqueInv' /\ Present' = Present
  BY <1>2, FormsStay
<1>5. EntryOK' /\ FlagsOK'
  BY <1>1, <1>2, <1>3, <1>4 DEF EntryOK, FlagsOK, Phases
<1>6. \A f \in Entries : phase'[f] = IF f = e THEN "unloaded" ELSE phase[f]
  BY <1>1, <1>2 DEF EntryOK
<1>7. \A j \in DOMAIN live : live[j].entry \in Entries
  BY RecordType DEF RoutingInv
<1>8. LiveOK'
  <2>1. ASSUME NEW i \in DOMAIN live' PROVE phase'[live'[i].entry] \notin {"absent", "unloaded"}
    <3>1. PICK j \in DOMAIN live : live'[i] = live[j]
      BY <1>3
    <3>2. QED BY <1>1, <1>3, <1>6, <1>7, <3>1 DEF LiveOK
  <2>2. QED BY <1>3, <2>1 DEF LiveOK
<1>9. LiveInv'
  <2>1. LiveInv
    BY DEF RoutingInv
  <2>2. ASSUME NEW f \in Entries, phase'[f] \notin {"absent", "unloaded"}
        PROVE  \E i \in DOMAIN live' : live'[i].entry = f
    <3>1. f # e /\ phase[f] \notin {"absent", "unloaded"}
      BY <1>6, <2>2
    <3>2. PICK j \in DOMAIN live : live[j].entry = f
      BY <2>1, <3>1 DEF LiveInv
    <3>3. PICK i \in DOMAIN live' : live'[i] = live[j]
      BY <1>3, <3>1, <3>2
    <3>4. QED BY <3>2, <3>3
  <2>3. ASSUME NEW i \in DOMAIN live', phase'[live'[i].entry] \in {"settingUp", "loaded"},
               live'[i].entry \notin due' \cup late'
        PROVE  live'[i].config = stored'[live'[i].entry]
    <3>1. PICK j \in DOMAIN live : live'[i] = live[j]
      BY <1>3
    <3>2. live[j].entry # e /\ live[j].entry \in Entries
      BY <1>3, <1>7, <3>1
    <3>3. phase[live[j].entry] \in {"settingUp", "loaded"} /\ live[j].entry \notin due \cup late
      BY <1>2, <1>6, <2>3, <3>1, <3>2
    <3>4. live[j].config = stored[live[j].entry]
      BY <2>1, <3>3 DEF LiveInv
    <3>5. QED BY <1>2, <3>1, <3>4
  <2>4. QED BY <2>2, <2>3 DEF LiveInv
<1>10. QED BY <1>3, <1>4, <1>5, <1>8, <1>9, TypeParts, PTL DEF RoutingInv

\* A removed entry leaves nothing behind.
LEMMA RemovedLemma ==
  ASSUME RoutingInv, NEW e \in Entries, Removed(e)
  PROVE  RoutingInv'
<1>1. EntryOK /\ LiveOK /\ FormOK /\ FlagsOK
  BY TypeParts DEF RoutingInv
<1>2. /\ phase[e] = "removing" /\ phase' = [phase EXCEPT ![e] = "absent"]
      /\ stored' = [stored EXCEPT ![e] = None]
      /\ due' = due \ {e} /\ late' = late \ {e}
      /\ form' = [t \in Tabs |-> IF form[t] # None /\ form[t].entry = e THEN None ELSE form[t]]
      /\ UNCHANGED <<stuck, careless, submits, restarts>>
  BY DEF Removed, Unloads, Enters
<1>3. /\ live' \in Seq([entry: Entries, config: Configs])
      /\ \A i \in DOMAIN live' : live'[i].entry # e
      /\ \A i \in DOMAIN live' : \E j \in DOMAIN live : live'[i] = live[j]
      /\ \A j \in DOMAIN live : live[j].entry # e => \E i \in DOMAIN live' : live'[i] = live[j]
      /\ \A i, j \in DOMAIN live' : live'[i].entry = live'[j].entry => i = j
      /\ services' \in BOOLEAN /\ ServedByServices'
  BY <1>2, UnloadLemma DEF Removed
<1>4. /\ \A f \in Entries : phase'[f] = IF f = e THEN "absent" ELSE phase[f]
      /\ \A f \in Entries : stored'[f] = IF f = e THEN None ELSE stored[f]
  BY <1>1, <1>2 DEF EntryOK
<1>5. Present' = Present \ {e}
  BY <1>4 DEF Present
<1>6. EntryOK'
  BY <1>1, <1>2, <1>4, <1>5 DEF EntryOK, Phases
<1>7. FlagsOK'
  BY <1>1, <1>2, <1>3 DEF FlagsOK
<1>8. \A t \in Tabs : form'[t] # None => form'[t] = form[t] /\ form[t] # None /\ form[t].entry # e
  BY <1>2
<1>9. FormOK'
  <2>1. form' \in [Tabs -> Forms \cup {None}]
    BY <1>1, <1>2 DEF FormOK
  <2>2. QED BY <1>1, <1>5, <1>8, <2>1 DEF FormOK
<1>10. \A j \in DOMAIN live : live[j].entry \in Entries
  BY RecordType DEF RoutingInv
<1>11. LiveOK'
  <2>1. ASSUME NEW i \in DOMAIN live' PROVE phase'[live'[i].entry] \notin {"absent", "unloaded"}
    <3>1. PICK j \in DOMAIN live : live'[i] = live[j]
      BY <1>3
    <3>2. QED BY <1>1, <1>3, <1>4, <1>10, <3>1 DEF LiveOK
  <2>2. QED BY <1>3, <2>1 DEF LiveOK
<1>12. LiveInv'
  <2>1. LiveInv
    BY DEF RoutingInv
  <2>2. ASSUME NEW f \in Entries, phase'[f] \notin {"absent", "unloaded"}
        PROVE  \E i \in DOMAIN live' : live'[i].entry = f
    <3>1. f # e /\ phase[f] \notin {"absent", "unloaded"}
      BY <1>4, <2>2
    <3>2. PICK j \in DOMAIN live : live[j].entry = f
      BY <2>1, <3>1 DEF LiveInv
    <3>3. PICK i \in DOMAIN live' : live'[i] = live[j]
      BY <1>3, <3>1, <3>2
    <3>4. QED BY <3>2, <3>3
  <2>3. ASSUME NEW i \in DOMAIN live', phase'[live'[i].entry] \in {"settingUp", "loaded"},
               live'[i].entry \notin due' \cup late'
        PROVE  live'[i].config = stored'[live'[i].entry]
    <3>1. PICK j \in DOMAIN live : live'[i] = live[j]
      BY <1>3
    <3>2. live[j].entry # e /\ live[j].entry \in Entries
      BY <1>3, <1>10, <3>1
    <3>3. phase[live[j].entry] \in {"settingUp", "loaded"} /\ live[j].entry \notin due \cup late
      BY <1>2, <1>4, <2>3, <3>1, <3>2
    <3>4. live[j].config = stored[live[j].entry]
      BY <2>1, <3>3 DEF LiveInv
    <3>5. QED BY <1>4, <3>1, <3>2, <3>4
  <2>4. QED BY <2>2, <2>3 DEF LiveInv
<1>13. UniqueInv'
  <2> SUFFICES ASSUME ~careless PROVE UniqueInv'
    BY <1>2 DEF UniqueInv
  <2>1. UniqueInv
    BY DEF RoutingInv
  <2>2. \A f \in Present' : stored'[f] = stored[f] /\ f \in Present
    BY <1>4, <1>5 DEF Present
  <2>3. \A url : Duplicate(url)' => Duplicate(url)
    BY <2>2 DEF Duplicate
  <2>4. \A t \in Tabs : form'[t] # None /\ form'[t].entry # None
                        => stored'[form'[t].entry] = stored[form[t].entry]
    BY <1>1, <1>4, <1>8 DEF FormOK, Present
  <2>5. QED BY <1>8, <2>1, <2>2, <2>3, <2>4 DEF UniqueInv
<1>14. QED BY <1>3, <1>6, <1>7, <1>9, <1>11, <1>12, <1>13, TypeParts, PTL DEF RoutingInv

\* After a restart only what is stored is left.
LEMMA RestartLemma ==
  ASSUME RoutingInv, Restart
  PROVE  RoutingInv'
<1>1. EntryOK /\ LiveOK /\ FormOK /\ FlagsOK
  BY TypeParts DEF RoutingInv
<1>2. /\ phase' = [e \in Entries |-> IF stored[e] = None THEN "absent" ELSE "unloaded"]
      /\ live' = <<>> /\ services' = FALSE /\ due' = {} /\ late' = {}
      /\ form' = [t \in Tabs |-> None]
      /\ UNCHANGED <<stored, careless, submits, stuck>>
  BY DEF Restart
<1>3. EntryOK' /\ FormOK' /\ LiveOK' /\ LiveInv' /\ ServedByServices'
  BY <1>1, <1>2 DEF EntryOK, FormOK, LiveOK, LiveInv, ServedByServices, Phases
<1>4. restarts' \in Nat
  BY <1>1 DEF Restart, FlagsOK
<1>5. FlagsOK'
  BY <1>1, <1>2, <1>4 DEF FlagsOK
<1>6. UniqueInv'
  BY <1>2 DEF RoutingInv, UniqueInv, Present
<1>7. QED BY <1>3, <1>5, <1>6, TypeParts, PTL DEF RoutingInv

-----------------------------------------------------------------------------
(* The theorems.                                                           *)

\* Home Assistant has just started.
LEMMA InitLemma == Init => RoutingInv
<1> SUFFICES ASSUME Init PROVE RoutingInv
  OBVIOUS
<1>1. EntryOK /\ FormOK /\ LiveOK /\ FlagsOK
  <2>1. EntryOK
    BY DEF Init, EntryOK, Phases
  <2>2. FormOK
    BY DEF Init, FormOK
  <2>3. LiveOK
    BY DEF Init, LiveOK
  <2>4. FlagsOK
    BY DEF Init, FlagsOK
  <2>5. QED BY <2>1, <2>2, <2>3, <2>4
<1>2. LiveInv /\ ServedByServices /\ UniqueInv
  BY DEF Init, LiveInv, ServedByServices, UniqueInv, Present
<1>3. QED BY <1>1, <1>2, TypeParts DEF RoutingInv

\* Every step preserves the invariant.
LEMMA NextLemma == RoutingInv /\ [Next]_vars => RoutingInv'
<1> SUFFICES ASSUME RoutingInv, [Next]_vars PROVE RoutingInv'
  OBVIOUS
<1>1. ASSUME NEW t \in Tabs,
             \/ \E input \in Configs : SubmitNew(t, input)
             \/ \E input \in Configs, e \in Entries : SubmitOptions(t, e, input)
             \/ Refused(t)
      PROVE  RoutingInv'
  BY <1>1, FormLemma
<1>2. ASSUME NEW t \in Tabs, NEW e \in Entries, Creates(t, e) PROVE RoutingInv'
  BY <1>2, CreatesLemma
<1>3. ASSUME NEW t \in Tabs, SavesOptions(t) PROVE RoutingInv'
  BY <1>3, SavesOptionsLemma
<1>4. ASSUME NEW e \in Entries, SetupStarts(e) PROVE RoutingInv'
  BY <1>4, SetupLemma
<1>5. ASSUME NEW e \in Entries,
             SetupEnds(e) \/ ReloadStarts(e) \/ RemoveStarts(e) \/ StaysLoaded(e)
      PROVE  RoutingInv'
  BY <1>5, PhaseLemma
<1>6. ASSUME NEW e \in Entries, Unloaded(e) PROVE RoutingInv'
  BY <1>6, UnloadedLemma
<1>7. ASSUME NEW e \in Entries, Removed(e) PROVE RoutingInv'
  BY <1>7, RemovedLemma
<1>8. CASE Restart
  BY <1>8, RestartLemma
<1>9. CASE UNCHANGED vars
  <2>1. EntryOK' /\ LiveOK' /\ FormOK' /\ FlagsOK'
    BY <1>9, TypeParts
    DEF RoutingInv, EntryOK, LiveOK, FormOK, FlagsOK, vars, entryVars, formVars, Present
  <2>2. LiveInv' /\ ServedByServices'
    BY <1>9 DEF RoutingInv, LiveInv, ServedByServices, vars, entryVars
  <2>3. UniqueInv'
    BY <1>9, FormsStay DEF vars, entryVars, formVars
  <2>4. QED BY <2>1, <2>2, <2>3, TypeParts, PTL DEF RoutingInv
<1>10. QED
  BY <1>1, <1>2, <1>3, <1>4, <1>5, <1>6, <1>7, <1>8, <1>9 DEF Next, Rest

LEMMA RoutingInvariance == Spec => []RoutingInv
  BY InitLemma, NextLemma, PTL DEF Spec

\* The types, and that hass.data has one record per entry.
THEOREM RoutingTyping == Spec => []TypeOK
<1>1. RoutingInv => TypeOK
  BY DEF RoutingInv
<1>2. QED BY <1>1, RoutingInvariance, PTL

\* _get_client() sends every satellite where the stored settings say, whatever has
\* been edited, reloaded, removed and restarted before.
THEOREM RoutingFollowsSettings == Spec => []RoutesAsStored
<1>1. RoutingInv => RoutesAsStored
  BY RouteLemma DEF RoutingInv
<1>2. QED BY <1>1, RoutingInvariance, PTL

\* The services are there exactly while somebody can serve them.
THEOREM RoutingServices == Spec => []ServedByServices
<1>1. RoutingInv => ServedByServices
  BY DEF RoutingInv
<1>2. QED BY <1>1, RoutingInvariance, PTL

\* async_step_user(): no two entries for one streamer, unless forms overlap or a URL
\* is edited.
THEOREM RoutingUniqueness == Spec => []OneEntryPerStreamer
<1>1. RoutingInv => OneEntryPerStreamer
  BY DEF RoutingInv, UniqueInv, OneEntryPerStreamer
<1>2. QED BY <1>1, RoutingInvariance, PTL
=============================================================================
