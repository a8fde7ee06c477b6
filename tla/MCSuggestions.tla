---------------------------- MODULE MCSuggestions ----------------------------
(* A small instance of Suggestions: playback preparing a track, a command  *)
(* that expands a playlist, and two background searches.                   *)
EXTENDS Suggestions

CONSTANTS playback, picker, w1, w2

MCCallers == {playback, picker, w1, w2}
MCOperation == [caller \in MCCallers |->
    CASE caller = playback -> "Resolve" [] caller = picker -> "Playlist"
      [] caller \in {w1, w2} -> "Search"]

Printed(exit, fit, entries, count) ==
    [exit |-> exit, fit |-> fit, entries |-> entries, count |-> count]
MCOutputs ==
    {Printed("Failed", "Whole", <<"Wanted", "Live">>, 3),
     Printed("Success", "Whole", <<"Live">>, None),
     Printed("Success", "Whole", <<"Wanted", "Garbled">>, None),
     Printed("Success", "TooMuch", <<"Wanted">>, None)}

MCQueries == {<<"a">>, <<"a", "b">>, <<"a", "c">>}

=============================================================================
