------------------------------- MODULE Resolver -------------------------------
(***************************************************************************)
(* The YouTube resolver (src/src/source/youtube.rs) and the bounded child  *)
(* processes it runs (src/src/process.rs).                                 *)
(*                                                                         *)
(* A call takes one of a few permits, in turn, runs yt-dlp with a deadline *)
(* on the process and a limit on its output, and judges the entries that   *)
(* come back.  Dropping a call returns its permit and kills its process.   *)
(* A process may leave descendants behind that hold its pipes open; the    *)
(* readers of those pipes have a limit, and no deadline.                   *)
(***************************************************************************)
EXTENDS Integers, Sequences, SequencesExt, FiniteSets

CONSTANTS
    None,        \* Option::None
    Callers,     \* the tasks that may call the resolver
    Operation,   \* which of its operations each of them calls
    Droppable,   \* callers whose future may be dropped before it answers
    Permits,     \* playback.max_concurrent_resolutions
    Outputs,     \* what yt-dlp may print: the case is the environment's
    Lingering    \* whether a process may leave its pipes to a descendant

ASSUME ResolverAssumption ==
    /\ Operation \in [Callers -> {"Search", "Inspect", "Playlist", "Resolve"}]
    /\ Droppable \subseteq Callers
    /\ Permits \in Nat \ {0}
    /\ \A output \in Outputs :
          output.entries \in Seq(STRING) /\ output.count \in {None} \cup Nat
    /\ Lingering \in BOOLEAN

VARIABLES
    calls,     \* where each call is, with its process, pipes and answer
    queue,     \* calls waiting for a permit, first come first served
    permits    \* permits not taken

resolver == <<calls, queue, permits>>

Failure == [ok |-> FALSE, tracks |-> <<>>, total |-> 0]
Success(tracks, total) == [ok |-> TRUE, tracks |-> tracks, total |-> total]
Nothing == Success(<<>>, 0)
Quiet == [exit |-> "Success", fit |-> "Whole", entries |-> <<>>, count |-> None]
NoCall == [pc |-> "Idle", child |-> "None", held |-> FALSE, output |-> Quiet,
           answer |-> Nothing]

ResolverInit ==
    /\ calls = [caller \in Callers |-> NoCall]
    /\ queue = <<>>
    /\ permits = Permits

-----------------------------------------------------------------------------
(* What comes of the entries that yt-dlp printed.                          *)

(* metadata: live, unbounded and over-long videos are refused. *)
Playable(entry) == entry \notin {"Live", "Undated", "TooLong"}

(* playable_metadata, entry by entry: what cannot be played is dropped, ... *)
Playables(entries) ==
    LET kept[n \in 0..Len(entries)] ==
            IF n = 0 THEN <<>>
            ELSE IF Playable(entries[n]) THEN Append(kept[n - 1], entries[n]) ELSE kept[n - 1]
    IN  kept[Len(entries)]

(* ... and only a list of nothing else is an error. *)
PlayableMetadata(entries, total) ==
    LET tracks == Playables(entries)
    IN  IF tracks = <<>> /\ entries # <<>> THEN Failure ELSE Success(tracks, total)

(* The output fits its limit, and every line of it parses as an entry: one *)
(* that does not, "Garbled", is the error of them all.                     *)
Legible(output) == output.fit = "Whole" /\ "Garbled" \notin ToSet(output.entries)

(* Mutant: an exit status other than success fails the whole query. *)
CompleteStrict(output) ==
    Legible(output) /\ output.entries # <<>> /\ output.exit = "Success"

(* run_yt_dlp: there is an entry to use.  The exit status says only why    *)
(* there is none.                                                          *)
Complete(output) == Legible(output) /\ output.entries # <<>>

(* playlist: how many entries the list holds, at least those it gave. *)
ListLength(output) ==
    LET given == Len(output.entries)
    IN  IF output.count = None \/ output.count < given THEN given ELSE output.count

(* search, inspect, playlist, resolve.  An entry is "Other" when it is not *)
(* the track asked for, and "Unlinked" when it has no usable media URL.    *)
Judge(operation, output) ==
    LET first == Head(output.entries)
        fits == IF operation = "Resolve" THEN first = "Wanted" ELSE Playable(first)
    IN  CASE ~Complete(output) -> Failure
          [] Complete(output) /\ operation = "Search" ->
                PlayableMetadata(output.entries, Len(output.entries))
          [] Complete(output) /\ operation = "Playlist" ->
                PlayableMetadata(output.entries, ListLength(output))
          [] Complete(output) /\ operation \in {"Inspect", "Resolve"} ->
                IF fits THEN Success(<<first>>, 1) ELSE Failure

-----------------------------------------------------------------------------
At(caller, pc) == calls[caller].pc = pc
Child(caller, state) == calls[caller].child = state
Move(caller, pc) == calls' = [calls EXCEPT ![caller].pc = pc]
Holding == {"Waiting", "Killing"}

Answered(answer) == [NoCall EXCEPT !.pc = "Answered", !.answer = answer]

(* The call returns, and its permit with it. *)
Return(caller, answer) ==
    /\ calls' = [calls EXCEPT ![caller] = Answered(answer)]
    /\ permits' = permits + 1
    /\ UNCHANGED queue

(* A call that asks for something: or is refused before it costs anything. *)
Ask(caller) ==
    /\ At(caller, "Idle")
    /\ Move(caller, "Queued")
    /\ queue' = Append(queue, caller)
    /\ UNCHANGED permits

(* The source is disabled, the query or the URL is none it takes, or the   *)
(* URL names no list.                                                      *)
Decline(caller) ==
    /\ At(caller, "Idle")
    /\ \E answer \in {Failure} \cup IF Operation[caller] = "Playlist" THEN {Nothing} ELSE {} :
          calls' = [calls EXCEPT ![caller] = Answered(answer)]
    /\ UNCHANGED <<queue, permits>>

(* The permit, and with it the process, unless it cannot be started. *)
Begin(caller) ==
    \/ /\ calls' = [calls EXCEPT ![caller].pc = "Waiting", ![caller].child = "Running"]
       /\ permits' = permits - 1
    \/ /\ calls' = [calls EXCEPT ![caller] = Answered(Failure)]
       /\ UNCHANGED permits

(* Mutant: a permit goes to whichever call happens to be woken. *)
TakeAnyPermit(caller) ==
    /\ At(caller, "Queued") /\ permits > 0
    /\ queue' = SelectSeq(queue, LAMBDA other : other # caller)
    /\ Begin(caller)

(* Permits are given in the order they were asked for. *)
TakePermit(caller) ==
    /\ At(caller, "Queued") /\ Head(queue) = caller /\ permits > 0
    /\ queue' = Tail(queue)
    /\ Begin(caller)

(* The process ends, by itself or killed; whoever it leaves behind may     *)
(* still hold its pipes.                                                   *)
ChildEnds(caller) ==
    /\ calls[caller].child \in {"Running", "Killed"}
    /\ \E output \in Outputs, held \in {FALSE, Lingering} :
          calls' = [calls EXCEPT ![caller].child = "Gone", ![caller].held = held,
                                 ![caller].output =
                                     IF At(caller, "Waiting") THEN output ELSE Quiet]
    /\ UNCHANGED <<queue, permits>>

DescendantEnds(caller) ==
    /\ calls[caller].held
    /\ calls' = [calls EXCEPT ![caller].held = FALSE]
    /\ UNCHANGED <<queue, permits>>

(* The deadline of child.wait(), and child.kill(). *)
DeadlinePasses(caller) ==
    /\ At(caller, "Waiting") /\ Child(caller, "Running")
    /\ calls' = [calls EXCEPT ![caller].pc = "Killing", ![caller].child = "Killed"]
    /\ UNCHANGED <<queue, permits>>

(* join_reader: a reader ends with its pipe, or once it has read too much. *)
ReadersEnd(caller) == ~calls[caller].held \/ calls[caller].output.fit = "TooMuch"

(* The process was done in time, and its readers are joined: the deadline  *)
(* is behind them.                                                         *)
Join(caller) ==
    /\ At(caller, "Waiting") /\ Child(caller, "Gone") /\ ReadersEnd(caller)
    /\ Return(caller, Judge(Operation[caller], calls[caller].output))

GiveUp(caller) ==
    /\ At(caller, "Killing") /\ Child(caller, "Gone") /\ ReadersEnd(caller)
    /\ Return(caller, Failure)

(* Mutant: a dropped call leaves its process running. *)
DropUnkilled(caller) ==
    /\ caller \in Droppable /\ calls[caller].pc \in Holding \cup {"Queued"}
    /\ Move(caller, "Dropped")
    /\ queue' = SelectSeq(queue, LAMBDA other : other # caller)
    /\ permits' = permits + IF At(caller, "Queued") THEN 0 ELSE 1

(* The caller's future is dropped: a superseded or late preparation. *)
Drop(caller) ==
    /\ caller \in Droppable /\ calls[caller].pc \in Holding \cup {"Queued"}
    /\ calls' = [calls EXCEPT ![caller].pc = "Dropped",
                              ![caller].child = IF @ = "Running" THEN "Killed" ELSE @]
    /\ queue' = SelectSeq(queue, LAMBDA other : other # caller)
    /\ permits' = permits + IF At(caller, "Queued") THEN 0 ELSE 1

(* The caller has its answer, and may call again. *)
Leave(caller) ==
    /\ calls[caller].pc \in {"Answered", "Dropped"} /\ calls[caller].child \in {"None", "Gone"}
    /\ calls' = [calls EXCEPT ![caller] = NoCall]
    /\ UNCHANGED <<queue, permits>>

Call(caller) ==
    TakePermit(caller) \/ DeadlinePasses(caller) \/ Join(caller) \/ GiveUp(caller)

CallStep(caller) ==
    Call(caller) \/ ChildEnds(caller) \/ DescendantEnds(caller) \/ Drop(caller)

(* A deadline passes and a killed process ends.  Nothing makes a           *)
(* descendant end.                                                         *)
CallFairness ==
    \A caller \in Callers :
        /\ WF_resolver(Call(caller))
        /\ WF_resolver(ChildEnds(caller) /\ Child(caller, "Killed"))

-----------------------------------------------------------------------------
(* No process runs on behind a call that has ended: it has been killed,    *)
(* and a call that still runs one holds its permit.                        *)
NoChildOutlivesItsCall ==
    /\ \A caller \in Callers : Child(caller, "Running") => At(caller, "Waiting")
    /\ permits = Permits - Cardinality({caller \in Callers : calls[caller].pc \in Holding})

(* These tracks are the entries that can be played, each of them, once and *)
(* in order: place says which entry each track is.                         *)
PlayablePlaces(entries) == {n \in 1..Len(entries) : Playable(entries[n])}
AreThePlayable(tracks, entries) ==
    \E place \in [1..Len(tracks) -> 1..Len(entries)] :
        /\ \A i, j \in 1..Len(tracks) : i < j => place[i] < place[j]
        /\ PlayablePlaces(entries) = {place[i] : i \in 1..Len(tracks)}
        /\ \A i \in 1..Len(tracks) : tracks[i] = entries[place[i]]

(* A search or a playlist whose process ended in time fails in exactly     *)
(* three cases: the output exceeds its limit, a line of it is no entry, or *)
(* nothing in it can be played.  In the first two the entries that can be  *)
(* played are lost with it.  In every other it answers all of them, in     *)
(* order: a video that cannot be played spoils none of the others, nor     *)
(* does the exit status.                                                   *)
ListsAnswerWhatIsPlayable ==
    [][\A caller \in Callers :
         LET output == calls[caller].output
             answer == calls'[caller].answer
         IN  /\ At(caller, "Waiting") /\ Child(caller, "Gone") /\ calls'[caller].pc = "Answered"
             /\ Operation[caller] \in {"Search", "Playlist"}
             => /\ answer.ok <=> Legible(output) /\ PlayablePlaces(output.entries) # {}
                /\ answer.ok => /\ AreThePlayable(answer.tracks, output.entries)
                                /\ answer.total >= Len(answer.tracks)]_resolver

(* Every call that asked for a permit ends: with an answer, or dropped. *)
CallsEnd ==
    \A caller \in Callers : At(caller, "Queued") ~> calls[caller].pc \in {"Answered", "Dropped"}

(* CommandSpec::run: a process that exceeds its time is an error of the    *)
(* call that runs it.                                                      *)
OverdueCallsReturn ==
    \A caller \in Callers : At(caller, "Killing") ~> calls[caller].pc \in {"Answered", "Dropped"}

(* Every call ends whenever the descendants of processes let go of their   *)
(* pipes, whoever else is calling.                                         *)
PipesClose == \A caller \in Callers : []<>~calls[caller].held
CallsEndOncePipesClose == PipesClose => CallsEnd

=============================================================================
