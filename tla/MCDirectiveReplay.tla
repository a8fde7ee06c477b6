-------------------------- MODULE MCDirectiveReplay --------------------------
(* Small instances of DirectiveReplay. *)
EXTENDS DirectiveReplay

CONSTANTS i1, i2, i3, u1, u2, t1

MCItems == {i1, i2, i3}
MCUsers == {u1, u2}
MCTextChannels == {t1}
MCRequestedBy == [item \in MCItems |-> IF item = i1 THEN u1 ELSE u2]
MCResponseChannel == [item \in MCItems |-> t1]

=============================================================================
