--------------------------- MODULE DuckingPromise ---------------------------
(***************************************************************************)
(* What a zone promises the room, with nothing of how it is done: music is *)
(* ducked before anybody speaks, stays ducked while anybody speaks and, if *)
(* need be, between the announcements of one exchange; afterwards the same *)
(* music comes back, and it does come back.                                *)
(***************************************************************************)
CONSTANTS
    Speakers,   \* announcements that may be heard
    Streams,    \* live streams
    Ann         \* the announcement stream

VARIABLES
    playing,    \* the stream the room hears
    home,       \* the live stream that belongs there
    speaking    \* announcements being heard

vars == <<playing, home, speaking>>

Init ==
    /\ playing \in Streams
    /\ home = playing
    /\ speaking = {}

Duck ==
    /\ playing # Ann
    /\ playing' = Ann
    /\ UNCHANGED <<home, speaking>>

Speak ==
    /\ playing = Ann
    /\ \E s \in Speakers \ speaking : speaking' = {s}
    /\ speaking = {}
    /\ UNCHANGED <<playing, home>>

Hush ==
    /\ speaking # {}
    /\ speaking' = {}
    /\ UNCHANGED <<playing, home>>

Unduck ==
    /\ playing = Ann
    /\ speaking = {}
    /\ playing' = home
    /\ UNCHANGED <<home, speaking>>

Next == Duck \/ Speak \/ Hush \/ Unduck

\* The room is not left ducked for ever.
Spec == Init /\ [][Next]_vars /\ SF_vars(Unduck)
=============================================================================
