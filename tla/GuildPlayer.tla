----------------------------- MODULE GuildPlayer -----------------------------
(***************************************************************************)
(* The guild actor of src/player.rs: one guild's queue, what is playing,   *)
(* why it is not, who voted to skip it, what has played, and the countdown *)
(* after which a silent session lets go of its voice channel.              *)
(*                                                                         *)
(* The actor takes one command at a time off its mailbox, so a command's   *)
(* handler is one step here: what it changes, the transition it sends to   *)
(* the playback worker (`emitted', "None" when nothing is sent) and the    *)
(* answer it gives (`reply').  A step's snapshot is the state after it.    *)
(* Queue items are opaque: who asked for one and the text channel it was   *)
(* asked in are functions of the item, and its queue_id is itself.         *)
(***************************************************************************)
EXTENDS Naturals, Sequences, SequencesExt, FiniteSets, Functions

CONSTANTS
    Items,            \* queue items, each with an id of its own
    Users,            \* people who request tracks and vote
    VoiceChannels,
    TextChannels,
    None,             \* the Option::None of every optional field
    RequestedBy,      \* item -> user
    ResponseChannel,  \* item -> text channel
    MaxTracks,        \* playback.max_queue_length
    HistoryLength,    \* HISTORY_LENGTH
    MaxBatch,         \* bound: the longest playlist offered at once
    MaxVolume,        \* MAX_VOLUME_PERCENT
    StartingVolume    \* the configured level

ASSUME ConstantsAssumption ==
    /\ RequestedBy \in [Items -> Users]
    /\ ResponseChannel \in [Items -> TextChannels]
    /\ None \notin Items \cup VoiceChannels \cup TextChannels
    /\ MaxTracks \in Nat \ {0}
    /\ HistoryLength \in Nat \ {0}
    /\ MaxBatch \in Nat
    /\ MaxVolume \in Nat \ {0}
    /\ StartingVolume \in 1..MaxVolume

VARIABLES
    running,           \* the actor's loop has not returned
    current,           \* the track being played or held
    pending,           \* what waits behind it, in order
    voice_channel_id,
    text_channel_id,   \* where the most recent request came from
    hold,              \* why the session is not playing
    votes,             \* who asked to cut the current track short
    history,           \* what has played, oldest first
    repeat,
    shuffle,
    volume_percent,
    idle_deadline,     \* whether the countdown is running
    emitted,           \* the transition this step sent to the worker
    reply              \* the answer this step gave

session == <<running, current, pending, voice_channel_id, text_channel_id, hold,
             votes, history, repeat, shuffle, volume_percent, idle_deadline>>
vars == <<session, emitted, reply>>

Hold == {"None", "Requested", "Abandoned"}
Release == {"Anything", "OnlyAbandoned"}
RepeatMode == {"Off", "Single", "All"}
Departure == {"Finished", "Skipped", "Failed"}
ShuffleChange == {"Enable", "Disable", "Toggle"}
PlaybackDirective ==
    {"None", "Play", "Replace", "Stop", "Join", "Pause", "Resume", "SetVolume",
     "StopAndDisconnect", "Disconnect", "IdleDisconnect", "IdleExpired"}
PlayerError ==
    {"QueueFull", "Stopped", "VoiceChannelConflict", "NothingPlaying", "AlreadyPaused",
     "NotPaused", "NotConnected", "AlreadyConnected", "VolumeOutOfRange", "NoSuchPosition"}

(* The item of a Play or Replace and the channel of a Join are the same    *)
(* field.  `answered' says the command's own reply names what starts.      *)
PlayerTransition ==
    [directive: PlaybackDirective,
     target: Items \cup VoiceChannels \cup {None},
     answered: BOOLEAN]

Transition(directive) == [directive |-> directive, target |-> None, answered |-> FALSE]
TransitionTo(directive, target) == [Transition(directive) EXCEPT !.target = target]
Answered(item) == [TransitionTo("Play", item) EXCEPT !.answered = TRUE]

-----------------------------------------------------------------------------
IsEmpty == current = None /\ pending = <<>>
Length == Len(pending) + (IF current = None THEN 0 ELSE 1)

(* Everything the session still has a record of.  A new item's id is a     *)
(* fresh uuid, so it is none of these.                                     *)
Remembered == (Range(pending) \cup Range(history) \cup {current}) \ {None}
Fresh == Items \ Remembered

(* A playing track pins the session to its voice channel. *)
VoiceChannelConflict(channel) ==
    current # None /\ voice_channel_id \notin {None, channel}

(* Mutant: a track that repeats is filed each time it plays. *)
RememberTwice(item) ==
    IF Len(history) = HistoryLength THEN Append(Tail(history), item)
                                    ELSE Append(history, item)

Remember(item) ==
    IF history # <<>> /\ Last(history) = item THEN history
    ELSE IF Len(history) = HistoryLength THEN Append(Tail(history), item)
    ELSE Append(history, item)

(* The answer to a command that went through, and one that was refused.    *)
Accept(transition) == emitted' = transition /\ reply' = "Ok"
Refuse(error) ==
    /\ reply' = error
    /\ emitted' = Transition("None")
    /\ UNCHANGED session

-----------------------------------------------------------------------------
Init ==
    /\ running = TRUE
    /\ current = None
    /\ pending = <<>>
    /\ voice_channel_id = None
    /\ text_channel_id = None
    /\ hold = "None"
    /\ votes = {}
    /\ history = <<>>
    /\ repeat = "Off"
    /\ shuffle = FALSE
    /\ volume_percent = StartingVolume
    /\ idle_deadline = FALSE
    /\ emitted = Transition("None")
    /\ reply = "Ok"

(* Mutants: a countdown, or the votes, outlast the return. *)
ResumeHeldStillCounting(channel) ==
    /\ voice_channel_id' = channel
    /\ hold' = "None"
    /\ votes' = {}
    /\ UNCHANGED idle_deadline
ResumeHeldVotesKept(channel) ==
    /\ voice_channel_id' = channel
    /\ hold' = "None"
    /\ idle_deadline' = FALSE
    /\ UNCHANGED votes

(* Takes a channel and starts the track a parked session kept, from the top. *)
ResumeHeld(channel) ==
    /\ voice_channel_id' = channel
    /\ hold' = "None"
    /\ idle_deadline' = FALSE
    /\ votes' = {}

(* Mutant: whoever wakes a parked session is heard first. *)
WakeWithNewTrack(items, channel) ==
    /\ current' = Head(items)
    /\ pending' = pending \o Tail(items)
    /\ ResumeHeld(channel)

(* New tracks join a parked session, and the track it kept starts over. *)
Wake(items, channel) ==
    /\ pending' = pending \o items
    /\ ResumeHeld(channel)
    /\ UNCHANGED current

(* New tracks find nothing playing, and the first of them starts. *)
Begin(items, channel) ==
    /\ current' = Head(items)
    /\ pending' = pending \o Tail(items)
    /\ voice_channel_id' = channel
    /\ idle_deadline' = FALSE
    /\ UNCHANGED <<hold, votes>>

(* Mutant: a track that only joins the queue stops the countdown. *)
WaitUncounted(items) ==
    /\ pending' = pending \o items
    /\ idle_deadline' = FALSE
    /\ UNCHANGED <<current, voice_channel_id, hold, votes>>

(* New tracks wait behind the one that is playing or held. *)
Wait(items) ==
    /\ pending' = pending \o items
    /\ UNCHANGED <<current, voice_channel_id, hold, votes, idle_deadline>>

(* Adds a run of tracks, of which only the first can start anything. *)
Add(items, channel) ==
    /\ text_channel_id' = ResponseChannel[Last(items)]
    /\ \/ current # None /\ voice_channel_id = None /\ Wake(items, channel)
       \/ current = None /\ Begin(items, channel)
       \/ current # None /\ voice_channel_id # None /\ Wait(items)
    /\ UNCHANGED <<running, history, repeat, shuffle, volume_percent>>

(* Mutant: adding to a queue nobody waits in starts what is playing. *)
StartsPlaybackAgain == pending = <<>> \/ voice_channel_id = None

StartsPlayback == current = None \/ voice_channel_id = None

Enqueue(item, channel) ==
    \/ /\ Length >= MaxTracks
       /\ Refuse("QueueFull")
    \/ /\ Length < MaxTracks
       /\ VoiceChannelConflict(channel)
       /\ Refuse("VoiceChannelConflict")
    \/ /\ Length < MaxTracks
       /\ ~VoiceChannelConflict(channel)
       /\ Add(<<item>>, channel)
       /\ Accept(IF StartsPlayback THEN Answered(current') ELSE Transition("None"))

(* Mutant: a playlist is taken whole once it is taken at all. *)
FittingUnbounded(items) == items

(* As much of a playlist as the session has room for. *)
Fitting(items) ==
    LET room == MaxTracks - Length
    IN  IF room < Len(items) THEN SubSeq(items, 1, room) ELSE items

EnqueueAll(items, channel) ==
    \/ /\ Length >= MaxTracks
       /\ Refuse("QueueFull")
    \/ /\ Length < MaxTracks
       /\ VoiceChannelConflict(channel)
       /\ Refuse("VoiceChannelConflict")
    \/ /\ Length < MaxTracks
       /\ ~VoiceChannelConflict(channel)
       /\ items = <<>>
       /\ Accept(Transition("None"))
       /\ UNCHANGED session
    \/ /\ Length < MaxTracks
       /\ ~VoiceChannelConflict(channel)
       /\ items # <<>>
       /\ Add(Fitting(items), channel)
       /\ Accept(IF StartsPlayback THEN TransitionTo("Play", current') ELSE Transition("None"))

-----------------------------------------------------------------------------
(* Mutants: only what ended by itself is filed; a skip leaves the rotation; *)
(* shuffle is always on.                                                   *)
FiledWhenFinished(left, reason) == IF reason = "Finished" THEN Remember(left) ELSE history
RequeuedWhenFinished(left, reason) ==
    IF repeat = "All" /\ reason = "Finished" THEN Append(pending, left) ELSE pending
NextPositionsAny(waiting) == DOMAIN waiting

(* What becomes of a track that is moved off.  A failed one is neither     *)
(* filed nor owed another turn, and asking to move on has to move on.      *)
Filed(left, reason) == IF reason = "Failed" THEN history ELSE Remember(left)
PlaysAgain(reason) == repeat = "Single" /\ reason = "Finished"
Requeued(left, reason) ==
    IF repeat = "All" /\ reason # "Failed" THEN Append(pending, left) ELSE pending

(* The places in the queue the next track may come from. *)
NextPositions(waiting) == {k \in DOMAIN waiting : shuffle \/ k = 1}

(* Moves off `left', and starts the countdown when nothing follows.        *)
(* `start' is the directive that begins the next track.                    *)
Advance(left, reason, start) ==
    /\ hold' = "None"
    /\ votes' = {}
    /\ history' = Filed(left, reason)
    /\ \/ /\ PlaysAgain(reason)
          /\ current' = left
          /\ UNCHANGED pending
       \/ /\ ~PlaysAgain(reason)
          /\ Requeued(left, reason) = <<>>
          /\ current' = None
          /\ pending' = <<>>
       \/ /\ ~PlaysAgain(reason)
          /\ \E k \in NextPositions(Requeued(left, reason)) :
                /\ current' = Requeued(left, reason)[k]
                /\ pending' = RemoveAt(Requeued(left, reason), k)
    /\ idle_deadline' = (current' = None)
    /\ Accept(IF current' = None THEN Transition("Stop") ELSE TransitionTo(start, current'))
    /\ UNCHANGED <<running, voice_channel_id, text_channel_id, repeat, shuffle, volume_percent>>

Skip ==
    \/ /\ current = None
       /\ Accept(Transition("None"))
       /\ UNCHANGED session
    \/ /\ current # None
       /\ Advance(current, "Skipped", "Replace")

(* Somebody may always skip what they queued; otherwise a vote is counted, *)
(* and the track goes once `needed' people have asked.                     *)
VoteSkip(user, needed) ==
    \/ /\ current = None
       /\ Refuse("NothingPlaying")
    \/ /\ current # None
       /\ \/ RequestedBy[current] = user
          \/ Cardinality(votes \cup {user}) >= needed
       /\ Advance(current, "Skipped", "Replace")
    \/ /\ current # None
       /\ RequestedBy[current] # user
       /\ Cardinality(votes \cup {user}) < needed
       /\ votes' = votes \cup {user}
       /\ Accept(Transition("None"))
       /\ UNCHANGED <<running, current, pending, voice_channel_id, text_channel_id, hold,
                      history, repeat, shuffle, volume_percent, idle_deadline>>

(* A completion counts only for the track it names. *)
TrackFinished(item, reason) ==
    \/ /\ current # item
       /\ Accept(Transition("None"))
       /\ UNCHANGED session
    \/ /\ current = item
       /\ Advance(item, reason, "Play")

-----------------------------------------------------------------------------
(* Mutant: a hold outlives the session it was placed on. *)
ClearSessionStillHeld ==
    /\ current' = None
    /\ pending' = <<>>
    /\ voice_channel_id' = None
    /\ idle_deadline' = FALSE
    /\ votes' = {}
    /\ repeat' = "Off"
    /\ shuffle' = FALSE
    /\ UNCHANGED <<text_channel_id, hold, history, volume_percent>>

(* Drops the queue and what was true of it; volume, history and the text   *)
(* channel are about the room and survive.                                 *)
ClearSession ==
    /\ current' = None
    /\ pending' = <<>>
    /\ voice_channel_id' = None
    /\ idle_deadline' = FALSE
    /\ hold' = "None"
    /\ votes' = {}
    /\ repeat' = "Off"
    /\ shuffle' = FALSE
    /\ UNCHANGED <<text_channel_id, history, volume_percent>>

(* Mutant: stopping with nothing queued stays in the channel. *)
StopDirectiveStaying == IF IsEmpty THEN "Stop" ELSE "StopAndDisconnect"

StopDirective == IF IsEmpty THEN "Disconnect" ELSE "StopAndDisconnect"

Stop ==
    /\ ClearSession
    /\ Accept(Transition(StopDirective))
    /\ UNCHANGED running

Shutdown ==
    /\ ClearSession
    /\ Accept(Transition(StopDirective))
    /\ running' = FALSE

(* The countdown runs out.  Nobody asked, so there is no reply to give. *)
IdleTimeout ==
    /\ idle_deadline
    /\ ClearSession
    /\ emitted' = Transition(IF voice_channel_id # None THEN "IdleDisconnect"
                             ELSE IF ~IsEmpty THEN "IdleExpired" ELSE "None")
    /\ UNCHANGED <<running, reply>>

(* The commands that change only what waits send the worker nothing. *)
Rearrange(waiting) ==
    /\ pending' = waiting
    /\ Accept(Transition("None"))
    /\ UNCHANGED <<running, current, voice_channel_id, text_channel_id, hold, votes,
                   history, repeat, shuffle, volume_percent, idle_deadline>>

Clear == Rearrange(<<>>)

RemovePosition(position) ==
    \/ /\ position \notin 1..Len(pending)
       /\ Refuse("NoSuchPosition")
    \/ /\ position \in 1..Len(pending)
       /\ Rearrange(RemoveAt(pending, position))

(* What is left of a queue once a run of it is taken.  A run reaching past *)
(* the end takes what is there, and one that ends before it starts takes   *)
(* its first track.                                                        *)
CutOut(queue, from, to) == SubSeq(queue, 1, from - 1) \o SubSeq(queue, to + 1, Len(queue))

RemoveRange(from, to) ==
    \/ /\ from \notin 1..Len(pending)
       /\ Refuse("NoSuchPosition")
    \/ /\ from \in 1..Len(pending)
       /\ Rearrange(CutOut(pending, from, IF to < from THEN from ELSE to))

(* What other people asked for stays, in the order it was in. *)
RemoveRequester(user) ==
    LET kept == {k \in DOMAIN pending : RequestedBy[pending[k]] # user}
    IN  \E n \in 0..Len(pending) : \E order \in [1..n -> kept] :
            /\ Range(order) = kept
            /\ \A a, b \in 1..n : a < b => order[a] < order[b]
            /\ Rearrange([k \in 1..n |-> pending[order[k]]])

(* /shuffle once *)
Reorder ==
    \E order \in Bijection(DOMAIN pending, DOMAIN pending) :
        Rearrange([k \in DOMAIN pending |-> pending[order[k]]])

-----------------------------------------------------------------------------
HoldPlayback(reason) ==
    \/ /\ current = None
       /\ Refuse("NothingPlaying")
    \/ /\ current # None /\ hold # "None"
       /\ Refuse("AlreadyPaused")
    \/ /\ current # None /\ hold = "None"
       /\ hold' = reason
       /\ idle_deadline' = TRUE
       /\ Accept(Transition("Pause"))
       /\ UNCHANGED <<running, current, pending, voice_channel_id, text_channel_id, votes,
                      history, repeat, shuffle, volume_percent>>

ReleasePlayback(scope) ==
    \/ /\ hold = "None" /\ scope = "Anything"
       /\ Refuse("NotPaused")
    \/ /\ hold # "Abandoned" /\ scope = "OnlyAbandoned"
       /\ Accept(Transition("None"))
       /\ UNCHANGED session
    \/ /\ hold # "None"
       /\ scope = "Anything" \/ hold = "Abandoned"
       /\ hold' = "None"
       /\ idle_deadline' = FALSE
       /\ Accept(Transition("Resume"))
       /\ UNCHANGED <<running, current, pending, voice_channel_id, text_channel_id, votes,
                      history, repeat, shuffle, volume_percent>>

(* Gives up the channel and keeps the queue, held, for as long as the countdown. *)
Park ==
    \/ /\ voice_channel_id = None
       /\ Refuse("NotConnected")
    \/ /\ voice_channel_id # None
       /\ voice_channel_id' = None
       /\ hold' = IF current = None THEN hold ELSE "Requested"
       /\ idle_deadline' = TRUE
       /\ Accept(Transition("Disconnect"))
       /\ UNCHANGED <<running, current, pending, text_channel_id, votes, history, repeat,
                      shuffle, volume_percent>>

Join(channel) ==
    \/ /\ VoiceChannelConflict(channel)
       /\ Refuse("VoiceChannelConflict")
    \/ /\ voice_channel_id = channel
       /\ Refuse("AlreadyConnected")
    \/ /\ voice_channel_id # channel /\ current = None
       /\ voice_channel_id' = channel
       /\ idle_deadline' = TRUE
       /\ Accept(TransitionTo("Join", channel))
       /\ UNCHANGED <<running, current, pending, text_channel_id, hold, votes, history,
                      repeat, shuffle, volume_percent>>
    \/ /\ voice_channel_id = None /\ current # None
       /\ ResumeHeld(channel)
       /\ Accept(Answered(current))
       /\ UNCHANGED <<running, current, pending, text_channel_id, history, repeat, shuffle,
                      volume_percent>>

(* Mutant: no level at all is a level. *)
InRangeFromZero(percent) == percent \in 0..MaxVolume

InRange(percent) == percent \in 1..MaxVolume

SetVolume(percent) ==
    \/ /\ ~InRange(percent)
       /\ Refuse("VolumeOutOfRange")
    \/ /\ InRange(percent)
       /\ volume_percent' = percent
       /\ Accept(Transition("SetVolume"))
       /\ UNCHANGED <<running, current, pending, voice_channel_id, text_channel_id, hold,
                      votes, history, repeat, shuffle, idle_deadline>>

SetRepeat(mode) ==
    /\ repeat' = mode
    /\ Accept(Transition("None"))
    /\ UNCHANGED <<running, current, pending, voice_channel_id, text_channel_id, hold, votes,
                   history, shuffle, volume_percent, idle_deadline>>

ChangeShuffle(change) ==
    /\ shuffle' = CASE change = "Enable" -> TRUE
                    [] change = "Disable" -> FALSE
                    [] change = "Toggle" -> ~shuffle
    /\ Accept(Transition("None"))
    /\ UNCHANGED <<running, current, pending, voice_channel_id, text_channel_id, hold, votes,
                   history, repeat, volume_percent, idle_deadline>>

-----------------------------------------------------------------------------
(* A playlist is a run of fresh items, none of them twice. *)
Playlists == {s \in UNION {[1..n -> Fresh] : n \in 0..MaxBatch} : IsInjective(s)}

Requesting ==
    \/ \E item \in Fresh, channel \in VoiceChannels : Enqueue(item, channel)
    \/ \E items \in Playlists, channel \in VoiceChannels : EnqueueAll(items, channel)

Editing ==
    \/ Clear
    \/ \E position \in 0..MaxTracks : RemovePosition(position)
    \/ \E from, to \in 0..MaxTracks : RemoveRange(from, to)
    \/ \E user \in Users : RemoveRequester(user)
    \/ Reorder
    \/ \E mode \in RepeatMode : SetRepeat(mode)
    \/ \E change \in ShuffleChange : ChangeShuffle(change)

Skipping == Skip \/ \E user \in Users, needed \in 1..Cardinality(Users) : VoteSkip(user, needed)

Controlling ==
    \/ Skipping
    \/ Stop
    \/ \E reason \in Hold \ {"None"} : HoldPlayback(reason)
    \/ \E scope \in Release : ReleasePlayback(scope)
    \/ Park
    \/ \E channel \in VoiceChannels : Join(channel)
    \/ \E percent \in 0..(MaxVolume + 1) : SetVolume(percent)

Completing ==
    \E item \in Items, reason \in Departure \ {"Skipped"} : TrackFinished(item, reason)

Command == running /\ (Requesting \/ Editing \/ Controlling \/ Completing \/ Shutdown)

Expire == running /\ IdleTimeout

(* A request to an actor that has stopped is told so. *)
AfterStopped == ~running /\ Refuse("Stopped")

Next == Command \/ Expire \/ AfterStopped

Spec == Init /\ [][Next]_vars

(* Tokio's timer fires and the actor's select polls it, whatever the       *)
(* mailbox holds, so a countdown nobody restarts runs out.                 *)
TimerFires == WF_vars(Expire)

-----------------------------------------------------------------------------
TypeOK ==
    /\ running \in BOOLEAN
    /\ current \in Items \cup {None}
    /\ pending \in Seq(Items)
    /\ voice_channel_id \in VoiceChannels \cup {None}
    /\ text_channel_id \in TextChannels \cup {None}
    /\ hold \in Hold
    /\ votes \subseteq Users
    /\ history \in Seq(Items)
    /\ repeat \in RepeatMode
    /\ shuffle \in BOOLEAN
    /\ volume_percent \in 1..MaxVolume
    /\ idle_deadline \in BOOLEAN
    /\ emitted \in PlayerTransition
    /\ reply \in PlayerError \cup {"Ok"}

(* A track is in a session at most once, and the session is no longer than *)
(* it may be, whatever repeat modes, shuffles and batches put back in.     *)
QueueIsSound ==
    /\ Length <= MaxTracks
    /\ IsInjective(pending)
    /\ current \notin Range(pending)

(* Nothing waits behind silence, and a hold or a vote is always about some *)
(* track: none outlives the track it was placed on.                        *)
NothingOutlivesItsTrack ==
    current = None => pending = <<>> /\ hold = "None" /\ votes = {}

(* A session that plays nothing into a voice channel is on its way out of  *)
(* it: an exhausted queue, a pause and an empty room are all counted down. *)
Silent == current = None \/ hold # "None"
SilentChannelIsCountedDown == voice_channel_id # None /\ Silent => idle_deadline

(* The countdown never runs under a track that is playing. *)
PlayingIsNotCountedDown == idle_deadline => Silent

(* The history is bounded, and no track is filed twice in a row. *)
HistoryIsSound ==
    /\ Len(history) <= HistoryLength
    /\ \A k \in 1..(Len(history) - 1) : history[k] # history[k + 1]

Ending == {"StopAndDisconnect", "Disconnect", "IdleDisconnect", "IdleExpired"}
Starting == {"Play", "Replace"}

(* A track that was playing goes nowhere unrecorded: it is still queued or *)
(* it is in the history, unless it failed or the whole session was ended.  *)
NoTrackVanishes ==
    [][current \notin Remembered' \cup {None}
          => emitted'.directive \in Ending \/ TrackFinished(current, "Failed")]_vars

(* Votes are cast on a performance: whatever starts, or starts again, has  *)
(* nobody's vote against it.                                               *)
VotesDieWithThePerformance ==
    [][emitted'.directive \in Starting => votes' = {}]_vars

(* /repeat all puts a track at the end of the queue before the next one is *)
(* taken, so that the next may be the same: when nothing else waits, or    *)
(* when the session shuffles and draws it.                                 *)
ComesRoundAtOnce == repeat = "All" /\ (pending = <<>> \/ shuffle)

(* Unless the session shuffles, whatever plays next was first in line; and *)
(* a skip moves on, to another track, even where a finished one would be   *)
(* played again, unless /repeat all brings it round at once (advance).     *)
FirstInLineIsNext ==
    [][/\ ~shuffle /\ current # None /\ current' \notin {None, current}
             => pending # <<>> /\ current' = Head(pending)
       /\ emitted'.directive = "Replace" /\ current' = current => ComesRoundAtOnce]_vars

(* What the comment in advance says, "Asking to move on has to move on":   *)
(* a skip does not start the same track again while others wait.  The code *)
(* does, when a session that repeats all of its queue also shuffles        *)
(* (SkipReplayed.cfg).                                                     *)
SkipsMoveOn ==
    [][emitted'.directive = "Replace" /\ pending # <<>> => current' # current]_vars

(* /repeat all never runs dry: a track that ends or is skipped is followed *)
(* by another, so the countdown starts only for a pause, a departure or a  *)
(* track that failed.                                                      *)
RepeatAllNeverRunsDry ==
    [][repeat = "All" /\ current # None /\ current' = None
          => emitted'.directive \in Ending \/ TrackFinished(current, "Failed")]_vars

(* A silent session lets go of its channel or plays again, unless somebody *)
(* keeps starting the countdown over.                                      *)
Rearmed == idle_deadline' /\ emitted'.directive \in {"Join", "Disconnect", "Stop"}
SilenceEnds ==
    \/ []<><<Rearmed>>_vars
    \/ (running /\ voice_channel_id # None /\ Silent)
          ~> (~running \/ voice_channel_id = None \/ ~Silent)

(* The queue keeps the jukebox's promise. *)
Promise == INSTANCE Jukebox WITH
    Tracks <- Items, Capacity <- MaxTracks, Nothing <- None,
    playing <- current, waiting <- Range(pending)
KeepsThePromise == Promise!Spec

=============================================================================
