------------------------------ MODULE ByteStream ------------------------------
(***************************************************************************)
(* What the decoder behind a media stream is promised: the bytes of the    *)
(* track in order, none missing and none twice, until the stream closes    *)
(* and nothing follows.  How they are fetched is not its concern.          *)
(***************************************************************************)
EXTENDS Integers, Sequences

CONSTANTS Encodings   \* the renderings of one track that an origin may serve

VARIABLES
    delivered,   \* the bytes passed on so far
    closed       \* whether the stream has ended, cleanly or with an error

streamVars == <<delivered, closed>>

Byte == [encoding: Encodings, offset: Nat]

(* The `count` bytes of an encoding that start at `from`. *)
Run(encoding, from, count) ==
    [k \in 1..count |-> [encoding |-> encoding, offset |-> from + k - 1]]

StreamInit == delivered = <<>> /\ closed = FALSE

Deliver ==
    /\ ~closed
    /\ \E encoding \in Encodings, count \in {Len(delivered') - Len(delivered)} :
          count > 0 /\ delivered' = delivered \o Run(encoding, Len(delivered), count)
    /\ UNCHANGED closed

Close == ~closed /\ closed' = TRUE /\ UNCHANGED delivered

StreamSpec == StreamInit /\ [][Deliver \/ Close]_streamVars

=============================================================================
