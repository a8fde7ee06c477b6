------------------------------- MODULE Jukebox -------------------------------
(***************************************************************************)
(* What a guild's queue promises, with nothing said of commands, channels, *)
(* holds or timers: at most Capacity tracks are held, one of them is       *)
(* playing, a track plays only once it has waited or found nothing         *)
(* playing, and nothing ever waits behind silence.                         *)
(***************************************************************************)
EXTENDS Naturals, FiniteSets

CONSTANTS Tracks, Capacity, Nothing

VARIABLES playing, waiting

jukebox == <<playing, waiting>>

Held == waiting \cup ({playing} \ {Nothing})

Init == playing = Nothing /\ waiting = {}

(* New tracks join; one of them plays at once if nothing was playing. *)
Admit ==
    \E new \in SUBSET (Tracks \ Held) :
        /\ new # {}
        /\ Cardinality(Held \cup new) <= Capacity
        /\ \/ /\ playing # Nothing
              /\ waiting' = waiting \cup new
              /\ UNCHANGED playing
           \/ /\ playing = Nothing
              /\ \E first \in new :
                    /\ playing' = first
                    /\ waiting' = waiting \cup (new \ {first})

(* The track playing ends; it may be owed another turn. *)
MoveOn ==
    /\ playing # Nothing
    /\ \E owed \in SUBSET {playing} :
          \/ /\ waiting \cup owed = {}
             /\ playing' = Nothing
             /\ waiting' = {}
          \/ \E next \in waiting \cup owed :
                /\ playing' = next
                /\ waiting' = (waiting \cup owed) \ {next}

(* Tracks that wait can be taken back; the one playing cannot. *)
Withdraw ==
    /\ \E gone \in SUBSET waiting : waiting' = waiting \ gone
    /\ UNCHANGED playing

Empty == playing' = Nothing /\ waiting' = {}

Next == Admit \/ MoveOn \/ Withdraw \/ Empty

Spec == Init /\ [][Next]_jukebox

=============================================================================
