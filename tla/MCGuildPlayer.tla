---------------------------- MODULE MCGuildPlayer ----------------------------
(* Small instances of GuildPlayer. *)
EXTENDS GuildPlayer

CONSTANTS i1, i2, i3, i4, u1, u2, t1

MCItems == {i1, i2, i3, i4}
MCUsers == {u1, u2}
MCTextChannels == {t1}
MCRequestedBy == [item \in MCItems |-> IF item \in {i1, i2} THEN u1 ELSE u2]
MCResponseChannel == [item \in MCItems |-> t1]

(* Items of one requester are interchangeable, and so are voice channels. *)
Interchangeable ==
    Permutations({i1, i2}) \cup Permutations({i3, i4}) \cup Permutations(VoiceChannels)

=============================================================================
