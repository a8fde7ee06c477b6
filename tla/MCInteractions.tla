---------------------------- MODULE MCInteractions ----------------------------
(* A small instance of Interactions: two people, two channels, and a few   *)
(* of the commands they may give.                                          *)
EXTENDS Interactions

CONSTANTS u1, u2, c1, c2

MCCalls == 1..3

Says(kind, user, channel) == [kind |-> kind, user |-> user, channel |-> channel]
MCRequests ==
    {Says("Words", u1, c1), Says("Queue", u2, c1), Says("Change", u2, c1),
     Says("Look", u2, c1), Says("Retired", u2, c2), Says("Suggest", u2, c2)}
MCAuthorized == {<<u1, c1>>, <<u2, c1>>}

=============================================================================
