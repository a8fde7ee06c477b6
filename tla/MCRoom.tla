------------------------------- MODULE MCRoom -------------------------------
(* Small instances of Room. *)
EXTENDS Room

CONSTANTS i1, i2, u1, u2, t1

MCTextChannels == {t1}
MCRequestedBy == [item \in Items |-> IF item = i1 THEN u1 ELSE u2]
MCResponseChannel == [item \in Items |-> t1]

=============================================================================
