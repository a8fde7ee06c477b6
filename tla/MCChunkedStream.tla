--------------------------- MODULE MCChunkedStream ---------------------------
(* A small instance of ChunkedStream: two renderings of unequal length. *)
EXTENDS ChunkedStream

CONSTANTS opus, aac

MCLength == [encoding \in Encodings |-> IF encoding = opus THEN 4 ELSE 5]

=============================================================================
