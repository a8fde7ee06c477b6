--------------------------------- MODULE Room ---------------------------------
(***************************************************************************)
(* The room around a guild's session: people move between voice channels   *)
(* and issue commands, and the handlers of src/discord.rs turn both into   *)
(* requests to the actor (GuildPlayer).                                    *)
(*                                                                         *)
(* Every handler is a task of its own and acts on what it read earlier.  A *)
(* command captures its requester's voice channel, then checks it against  *)
(* the session's, then makes its request.  A voice state update wakes a    *)
(* handler that reads who is with Auxide and then holds or releases the    *)
(* session.  The requests themselves are one step each: the queues between *)
(* the tasks are PlaybackSession's.                                        *)
(***************************************************************************)
EXTENDS GuildPlayer

CONSTANTS
    Commands,     \* the commands people issue
    MaxCommands,  \* bound: how many of them
    MaxMoves,     \* bound: how often people change channels
    Overlap       \* what may begin while another of its kind is running

ASSUME RoomAssumption ==
    /\ Commands \subseteq {"Play", "Import", "Join", "Leave", "Stop", "Skip", "SkipTracks",
                           "SkipRequester", "Pause", "Resume", "Volume", "Repeat", "Shuffle",
                           "Clear", "Remove"}
    /\ IsFiniteSet(Users)
    /\ MaxCommands \in Nat
    /\ MaxMoves \in Nat
    /\ Overlap \subseteq {"Commands", "Moves", "Events"}

VARIABLES
    presence,   \* who is in which voice channel, as Discord's cache has it
    seat,       \* which voice channel the cache has Auxide in
    route,      \* channels the worker has been told to take or leave, in order
    handlers,   \* the command each person is waiting on
    events,     \* voice state handlers, by how far they have got
    commands,   \* how many commands are still to come
    moves       \* how many moves are still to come

around == <<presence, seat, route, handlers, events, commands, moves>>
roomVars == <<vars, around>>

(* Commands that take a voice channel rather than requiring Auxide's. *)
Guarded == Commands \ {"Play", "Import", "Join"}

AtRest == [pc |-> "Idle", command |-> None, voice |-> None, needed |-> 0]
Phases == {"Dispatched", "Holding", "Releasing"}
NoEvents == \A phase \in Phases : events[phase] = 0

(* The people Auxide plays to; nobody, while it is in no channel. *)
Audience(channel) == {user \in Users : channel # None /\ presence[user] = channel}

(* Mutant: half the channel is rounded down. *)
VotesNeededRoundedDown(listeners) == listeners \div 2

(* Half the channel, but never fewer than two unless somebody is alone. *)
VotesNeeded(listeners) ==
    IF listeners <= 1 THEN 1 ELSE Max({2, (listeners + 1) \div 2})

Listeners == Cardinality(Audience(seat))

(* A channel Auxide does not sit in yet counts one listener. *)
ListenerCount == IF Listeners = 0 THEN 1 ELSE Listeners

-----------------------------------------------------------------------------
(* Whether a handler of this kind may start with these already running.    *)
MayOverlap(kind, others) == kind \in Overlap \/ ~others
CommandRunning == \E user \in Users : handlers[user].pc # "Idle"

(* Where the worker goes next, after a directive the actor just sent.  One *)
(* that starts a track in no channel takes it nowhere.                     *)
Routed ==
    CASE emitted'.directive \in Starting \cup {"Join"} /\ voice_channel_id' # None ->
            Append(route, voice_channel_id')
      [] emitted'.directive \in {"StopAndDisconnect", "Disconnect", "IdleDisconnect"} ->
            Append(route, None)
      [] OTHER -> route

Dispatched == events' = [events EXCEPT !["Dispatched"] = @ + 1]

(* authorize: who is asking, and from where.  Whoever is in no channel is  *)
(* refused at once.                                                        *)
Authorize(user, command) ==
    /\ commands > 0
    /\ handlers[user].pc = "Idle"
    /\ MayOverlap("Commands", CommandRunning)
    /\ presence[user] # None
    /\ handlers' = [handlers EXCEPT ![user] =
            [AtRest EXCEPT !.pc = IF command \in Guarded THEN "Checking" ELSE "Acting",
                           !.command = command, !.voice = presence[user]]]
    /\ commands' = commands - 1
    /\ UNCHANGED <<vars, presence, seat, route, events, moves>>

(* Mutant: being in any voice channel is being in Auxide's. *)
CheckAnyVoice(user) ==
    /\ handlers[user].pc = "Checking"
    /\ handlers' = [handlers EXCEPT ![user] =
            IF voice_channel_id = None THEN AtRest
            ELSE [@ EXCEPT !.pc = IF handlers[user].command = "Skip" THEN "Counting"
                                  ELSE "Acting"]]
    /\ UNCHANGED <<vars, presence, seat, route, events, commands, moves>>

(* require_same_voice: the requester's channel has to be the session's.    *)
Check(user) ==
    /\ handlers[user].pc = "Checking"
    /\ handlers' = [handlers EXCEPT ![user] =
            IF voice_channel_id # @.voice THEN AtRest
            ELSE [@ EXCEPT !.pc = IF handlers[user].command = "Skip" THEN "Counting"
                                  ELSE "Acting"]]
    /\ UNCHANGED <<vars, presence, seat, route, events, commands, moves>>

(* /skip works out how many have to agree before it adds its own vote. *)
Count(user) ==
    /\ handlers[user].pc = "Counting"
    /\ handlers' = [handlers EXCEPT ![user].pc = "Acting",
                                    ![user].needed = VotesNeeded(ListenerCount)]
    /\ UNCHANGED <<vars, presence, seat, route, events, commands, moves>>

OwnItems(user) == {item \in Fresh : RequestedBy[item] = user}

(* The requests the commands make of the actor.  These queue tracks, ... *)
Queueing(user, handler) ==
    \/ /\ handler.command = "Play"
       /\ \E item \in OwnItems(user) : Enqueue(item, handler.voice)
    \/ /\ handler.command = "Import"
       /\ \E items \in Playlists :
             /\ items # <<>> /\ Range(items) \subseteq OwnItems(user)
             /\ EnqueueAll(items, handler.voice)

(* ... these take waiting ones out again, ... *)
Trimming(handler) ==
    \/ handler.command = "Clear" /\ Clear
    \/ handler.command = "Remove" /\ \E position \in 0..MaxTracks : RemovePosition(position)
    \/ /\ handler.command = "SkipTracks"
       /\ \E to \in 1..MaxTracks : \E from \in 1..to : RemoveRange(from, to)
    \/ handler.command = "SkipRequester" /\ \E who \in Users : RemoveRequester(who)

(* ... and these are about what plays, how, and where. *)
Steering(user, handler) ==
    \/ handler.command = "Skip" /\ VoteSkip(user, handler.needed)
    \/ handler.command = "Pause" /\ HoldPlayback("Requested")
    \/ handler.command = "Resume" /\ ReleasePlayback("Anything")
    \/ handler.command = "Volume" /\ \E percent \in 0..(MaxVolume + 1) : SetVolume(percent)
    \/ handler.command = "Join" /\ Join(handler.voice)
    \/ handler.command = "Leave" /\ Park
    \/ handler.command = "Stop" /\ Stop
    \/ handler.command = "Repeat" /\ \E mode \in RepeatMode : SetRepeat(mode)
    \/ handler.command = "Shuffle" /\ \E change \in ShuffleChange : ChangeShuffle(change)
    \/ handler.command = "Shuffle" /\ Reorder

Perform(user) ==
    /\ handlers[user].pc = "Acting"
    /\ \/ Queueing(user, handlers[user])
       \/ Trimming(handlers[user])
       \/ Steering(user, handlers[user])
    /\ handlers' = [handlers EXCEPT ![user] = AtRest]
    /\ route' = Routed
    /\ UNCHANGED <<presence, seat, events, commands, moves>>

-----------------------------------------------------------------------------
(* Somebody joins, leaves or changes channels, and Discord says so. *)
Move(user) ==
    /\ moves > 0
    /\ MayOverlap("Events", ~NoEvents)
    /\ MayOverlap("Moves", handlers[user].pc # "Idle")
    /\ \E channel \in (VoiceChannels \cup {None}) \ {presence[user]} :
          presence' = [presence EXCEPT ![user] = channel]
    /\ Dispatched
    /\ moves' = moves - 1
    /\ UNCHANGED <<vars, seat, route, handlers, commands>>

(* Mutant: Auxide's own moves wake nobody. *)
TakeSeatUnseen ==
    /\ route # <<>>
    /\ MayOverlap("Events", ~NoEvents)
    /\ seat' = Head(route)
    /\ route' = Tail(route)
    /\ UNCHANGED <<vars, presence, handlers, events, commands, moves>>

(* The worker's join or departure reaches the cache, and Discord says so.  *)
TakeSeat ==
    /\ route # <<>>
    /\ MayOverlap("Events", ~NoEvents)
    /\ seat' = Head(route)
    /\ route' = Tail(route)
    /\ IF seat' = seat THEN UNCHANGED events ELSE Dispatched
    /\ UNCHANGED <<vars, presence, handlers, commands, moves>>

(* handle_voice_state_update reads the cache.  With Auxide in no channel   *)
(* there is nothing to decide.                                             *)
Look ==
    /\ events["Dispatched"] > 0
    /\ events' = IF seat = None THEN [events EXCEPT !["Dispatched"] = @ - 1]
                 ELSE [events EXCEPT !["Dispatched"] = @ - 1,
                                     ![IF Listeners > 0 THEN "Releasing" ELSE "Holding"] = @ + 1]
    /\ UNCHANGED <<vars, presence, seat, route, handlers, commands, moves>>

(* ... and acts on what it read. *)
HoldRoom ==
    /\ events["Holding"] > 0
    /\ HoldPlayback("Abandoned")
    /\ events' = [events EXCEPT !["Holding"] = @ - 1]
    /\ UNCHANGED <<presence, seat, route, handlers, commands, moves>>

(* Mutants: a return lifts any hold, or none. *)
ReleaseRoomWhateverHeld ==
    /\ events["Releasing"] > 0
    /\ IF hold = "None" THEN UNCHANGED vars ELSE ReleasePlayback("Anything")
    /\ events' = [events EXCEPT !["Releasing"] = @ - 1]
    /\ UNCHANGED <<presence, seat, route, handlers, commands, moves>>
ReleaseRoomNever ==
    /\ events["Releasing"] > 0
    /\ events' = [events EXCEPT !["Releasing"] = @ - 1]
    /\ UNCHANGED <<vars, presence, seat, route, handlers, commands, moves>>

ReleaseRoom ==
    /\ events["Releasing"] > 0
    /\ ReleasePlayback("OnlyAbandoned")
    /\ events' = [events EXCEPT !["Releasing"] = @ - 1]
    /\ UNCHANGED <<presence, seat, route, handlers, commands, moves>>

-----------------------------------------------------------------------------
(* A track the room hears plays to its end, or breaks. *)
TrackEnds ==
    /\ current # None /\ hold = "None" /\ route = <<>> /\ seat # None
    /\ \E reason \in {"Finished", "Failed"} : TrackFinished(current, reason)
    /\ route' = Routed
    /\ UNCHANGED <<presence, seat, handlers, events, commands, moves>>

TimeOut ==
    /\ IdleTimeout
    /\ route' = Routed
    /\ UNCHANGED <<presence, seat, handlers, events, commands, moves>>

RoomInit ==
    /\ Init
    /\ presence \in [Users -> VoiceChannels \cup {None}]
    /\ seat = None
    /\ route = <<>>
    /\ handlers = [user \in Users |-> AtRest]
    /\ events = [phase \in Phases |-> 0]
    /\ commands = MaxCommands
    /\ moves = MaxMoves

CommandStep ==
    \E user \in Users :
        \/ \E command \in Commands : Authorize(user, command)
        \/ Check(user)
        \/ Count(user)
        \/ Perform(user)
VoiceStep == Look \/ HoldRoom \/ ReleaseRoom
Surroundings == TakeSeat \/ TrackEnds \/ TimeOut \/ \E user \in Users : Move(user)

RoomNext == CommandStep \/ VoiceStep \/ Surroundings

RoomSpec == RoomInit /\ [][RoomNext]_roomVars

-----------------------------------------------------------------------------
RoomTypeOK ==
    /\ TypeOK
    /\ presence \in [Users -> VoiceChannels \cup {None}]
    /\ seat \in VoiceChannels \cup {None}
    /\ route \in Seq(VoiceChannels \cup {None})
    /\ handlers \in [Users -> [pc: {"Idle", "Checking", "Counting", "Acting"},
                               command: Commands \cup {None},
                               voice: VoiceChannels \cup {None},
                               needed: 0..Cardinality(Users)]]
    /\ \A user \in Users :
          handlers[user].pc = "Acting" /\ handlers[user].command = "Skip"
              => handlers[user].needed > 0
    /\ events \in [Phases -> 0..(MaxMoves + 2 * MaxCommands)]
    /\ commands \in 0..MaxCommands
    /\ moves \in 0..MaxMoves

(* Everything anybody noticed has been acted on, and Auxide is where the   *)
(* session says it is, with a track to play or to hold.                    *)
Settled ==
    /\ NoEvents /\ route = <<>>
    /\ seat = voice_channel_id /\ seat # None
    /\ current # None

(* Nothing plays to an empty channel. *)
EmptyRoomIsHeld == Settled /\ Listeners = 0 => hold # "None"

(* The hold an empty room put there lifts when anybody comes back. *)
ReturnIsNoticed == Settled /\ hold = "Abandoned" => Listeners = 0

(* What a room does by filling and emptying is at most to pause and to go  *)
(* on: the queue and the channel are kept, and a pause somebody asked for  *)
(* is lifted only by somebody.                                             *)
RoomOnlyPauses ==
    [][events' # events
          => /\ UNCHANGED <<current, pending, voice_channel_id>>
             /\ hold = "Requested" => hold' = "Requested"]_roomVars

(* What a command is doing in this step. *)
Acts(user) == handlers[user].pc = "Acting" /\ handlers'[user].pc = "Idle"

(* A guarded command is carried out for somebody in Auxide's channel. *)
CommandsComeFromTheRoom ==
    [][\A user \in Users :
          Acts(user) /\ handlers[user].command \in Guarded /\ reply' = "Ok"
              => voice_channel_id \in {None, presence[user]}]_roomVars

(* The tracks the reply of a command names as what it started.  /play      *)
(* names the track it queued, and /join what it brought back.              *)
NamedByReply(user) ==
    CASE handlers[user].command = "Play" -> Remembered' \ Remembered
      [] handlers[user].command = "Join" -> {current'}
      [] OTHER -> {}

(* A start that is not announced, because the command's reply names it, is *)
(* named by the command's reply.                                           *)
AnsweredStartIsNamed ==
    [][\A user \in Users : Acts(user) /\ emitted'.answered
          => emitted'.target \in NamedByReply(user)]_roomVars

=============================================================================
