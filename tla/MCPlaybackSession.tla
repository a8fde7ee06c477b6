-------------------------- MODULE MCPlaybackSession --------------------------
(* Small instances of PlaybackSession. *)
EXTENDS PlaybackSession

CONSTANTS i1, i2, u1, t1

MCItems == {i1, i2}
MCUsers == {u1}
MCTextChannels == {t1}
MCRequestedBy == [item \in MCItems |-> u1]
MCResponseChannel == [item \in MCItems |-> t1]

Interchangeable == Permutations(MCItems) \cup Permutations(VoiceChannels)

=============================================================================
