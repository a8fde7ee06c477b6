----------------------------- MODULE Interactions -----------------------------
(***************************************************************************)
(* What becomes of an interaction in src/src/discord.rs: a command that is *)
(* put off, carried out and answered or refused, a search whose results    *)
(* are kept for the person who asked to choose from, and the choice.       *)
(*                                                                         *)
(* Each interaction is a task of its own, and every await a step: calls to *)
(* Discord, to the resolver and to the player, and the lock of the pending *)
(* searches.  One server is modelled; a channel determines its server, so  *)
(* the check of the server is part of the check of the channel.  What      *)
(* commands other than the queueing ones do to the session is in Room.     *)
(***************************************************************************)
EXTENDS Integers, Sequences, SequencesExt, FiniteSets

CONSTANTS
    None,           \* Option::None
    Calls,          \* bound: the interactions Discord delivers, in this order
    Requests,       \* the commands among them, as [kind, user, channel]
    VoiceChannels,
    Tracks,
    Authorized,     \* the <<user, channel>> pairs the configuration permits
    MaxPending,     \* MAX_PENDING_SEARCHES
    PickerSize,     \* how many results a picker offers
    MaxQueue        \* playback.max_queue_length

(* "Queue" stands for what queues outright: a link given to /play, a       *)
(* replayed track, an imported file; "Words" for a search; "Change" and    *)
(* "Look" for commands that queue nothing and answer the channel or the    *)
(* requester; "Retired" for a withdrawn one.                               *)
Kinds == {"Queue", "Words", "Change", "Look", "Retired", "Suggest"}
Users == {request.user : request \in Requests}

ASSUME InteractionsAssumption ==
    /\ Calls \subseteq Nat \ {0}
    /\ \A request \in Requests : request.kind \in Kinds
    /\ MaxPending \in Nat \ {0} /\ PickerSize \in Nat \ {0} /\ MaxQueue \in Nat \ {0}

VARIABLES
    call,       \* what each interaction asks for, and what it has found out
    pc,         \* how far its handler is
    did,        \* the tracks it has put in the queue
    recorded,   \* what record_interaction has been told of it
    publicly,   \* what the channel sees of it
    privately,  \* what the person who made it sees, and nobody else
    searches,   \* pending_searches: the interactions whose results are kept
    created_at, \* when, as a count; what else is kept of them is in call
    old,        \* the searches up to this one are older than the TTL
    session     \* the player, if there is one yet: its channel and length

task == <<call, pc, did, recorded>>
discord == <<publicly, privately>>
picker == <<searches, created_at, old>>
vars == <<task, discord, picker, session>>

NoCall == [kind |-> "None", user |-> None, channel |-> None, voice |-> None,
           tracks |-> <<>>, search |-> 0]

Init ==
    /\ call = [i \in Calls |-> NoCall]
    /\ pc = [i \in Calls |-> "Absent"]
    /\ did = [i \in Calls |-> <<>>]
    /\ recorded = [i \in Calls |-> <<>>]
    /\ publicly = [i \in Calls |-> "Nothing"]
    /\ privately = [i \in Calls |-> "Nothing"]
    /\ searches = {} /\ created_at = [i \in Calls |-> 0] /\ old = 0
    /\ session = [live |-> FALSE, room |-> None, length |-> 0]

-----------------------------------------------------------------------------
Kind(i) == call[i].kind
First(tracks, count) == SubSeq(tracks, 1, IF Len(tracks) < count THEN Len(tracks) ELSE count)
Go(i, step) == pc' = [pc EXCEPT ![i] = step]
Record(i, succeeded) == recorded' = [recorded EXCEPT ![i] = Append(@, succeeded)]

(* command_audience, audience_for: whose business the answer is. *)
Audience(i) ==
    IF Kind(i) \in {"Queue", "Change"} THEN "Channel" ELSE "Requester"

(* A message in place of what the channel, or the requester, sees of i. *)
InChannel(i, message) ==
    publicly' = [publicly EXCEPT ![i] = message] /\ UNCHANGED privately
ToRequester(i, message) ==
    privately' = [privately EXCEPT ![i] = message] /\ UNCHANGED publicly
Show(i, message) ==
    IF Audience(i) = "Channel" THEN InChannel(i, message) ELSE ToRequester(i, message)

(* Who has the picker of a search in front of them. *)
Sees(user, s) ==
    \/ publicly[s] = "Picker"
    \/ privately[s] = "Picker" /\ call[s].user = user

-----------------------------------------------------------------------------
(* Interactions arrive: a command, or a press of one of a picker's buttons. *)
Fresh(i) == pc[i] = "Absent" /\ \A j \in Calls : j < i => pc[j] # "Absent"

Receive(i) ==
    /\ Fresh(i)
    /\ \E request \in Requests :
          call' = [call EXCEPT ![i] = [@ EXCEPT !.kind = request.kind, !.user = request.user,
                                                !.channel = request.channel]]
    /\ Go(i, "Arrived")
    /\ UNCHANGED <<did, recorded, discord, picker, session>>

(* A press comes from the channel its message is in, and from somebody who *)
(* sees that message: for a picker its requester.  So Usable's look at the *)
(* requester and the channel is a second line behind Discord's, and it is  *)
(* the search's age, its absence and the voice channel that refuse.        *)
Press(i) ==
    /\ Fresh(i)
    /\ \E s \in Calls, user \in Users :
          /\ Sees(user, s)
          /\ \E track \in ToSet(call[s].tracks) :
                call' = [call EXCEPT ![i] =
                    [kind |-> "Select", user |-> user, channel |-> call[s].channel,
                     voice |-> None, tracks |-> <<track>>, search |-> s]]
    /\ Go(i, "Deferred")
    /\ UNCHANGED <<did, recorded, discord, picker, session>>

(* suggest, and the acknowledgement of a ping: answered at once. *)
AnswerAtOnce(i) ==
    /\ pc[i] = "Arrived" /\ Kind(i) = "Suggest"
    /\ \E ok \in BOOLEAN : Record(i, ok)
    /\ Go(i, "Done")
    /\ UNCHANGED <<call, did, discord, picker, session>>

(* Mutant: an interaction that could not be deferred is not counted. *)
DeferUncounted(i) ==
    /\ pc[i] = "Arrived" /\ Kind(i) # "Suggest"
    /\ \/ Show(i, "Thinking") /\ Go(i, "Deferred")
       \/ Go(i, "Done") /\ UNCHANGED discord
    /\ UNCHANGED <<call, did, recorded, picker, session>>

(* handle_command: the audience is settled by the first answer. *)
Defer(i) ==
    /\ pc[i] = "Arrived" /\ Kind(i) # "Suggest"
    /\ \/ Show(i, "Thinking") /\ Go(i, "Deferred") /\ UNCHANGED recorded
       \/ Record(i, FALSE) /\ Go(i, "Done") /\ UNCHANGED discord
    /\ UNCHANGED <<call, did, picker, session>>

(* An error, on its way to whoever made the request. *)
Fail(i) == Go(i, IF Kind(i) = "Select" THEN "Responding" ELSE "Refusing")

(* Queueing from outside a voice channel is refused; where the others have *)
(* to be is in Room.                                                       *)
NeedsVoice(i) == Kind(i) \in {"Queue", "Words"}

Whereabouts(i) ==
    IF NeedsVoice(i) \/ Kind(i) = "Select" THEN VoiceChannels \cup {None} ELSE {None}

(* dispatch_command, authorize: a withdrawn command is refused, and a      *)
(* person or a channel that the configuration does not permit, and a       *)
(* server beyond max_guilds.  The voice channel the requester is in, if    *)
(* any, is read here: people come and go as they like.                     *)
Authorize(i) ==
    LET permitted == Kind(i) # "Retired" /\ <<call[i].user, call[i].channel>> \in Authorized
    IN  /\ pc[i] = "Deferred"
        /\ \E live \in {permitted /\ session.live, permitted}, room \in Whereabouts(i) :
              /\ session' = [session EXCEPT !.live = @ \/ live]
              /\ call' = [call EXCEPT ![i].voice = room]
              /\ IF live /\ (NeedsVoice(i) => room # None)
                 THEN Go(i, "Authorized") ELSE Fail(i)
        /\ UNCHANGED <<did, recorded, discord, picker>>

-----------------------------------------------------------------------------
(* What a command needs before it can queue: the resolver's answer, a page *)
(* of the history, the attached file.  Found is what came of it.           *)
Lists == {<<track>> : track \in Tracks} \cup {<<t, u>> : t \in Tracks, u \in Tracks}

Found(i) ==
    IF Kind(i) \in {"Queue", "Words"} THEN Lists ELSE {<<>>}

Prepared(i) ==
    CASE Kind(i) = "Queue" -> "Queueing"
      [] Kind(i) = "Words" -> "Storing"
      [] Kind(i) \in {"Change", "Look"} -> "Answering"

(* play, history, import: what was found, or nothing usable.  A command    *)
(* that queues nothing has done what it does, or been refused (see Room).  *)
Prepare(i) ==
    /\ pc[i] = "Authorized" /\ Kind(i) # "Select"
    /\ \/ /\ \E found \in Found(i) :
                call' = [call EXCEPT ![i].tracks =
                    IF Kind(i) = "Words" THEN First(found, PickerSize) ELSE found]
          /\ Go(i, Prepared(i))
       \/ Fail(i) /\ UNCHANGED call
    /\ UNCHANGED <<did, recorded, discord, picker, session>>

-----------------------------------------------------------------------------
(* The pending searches.                                                   *)

(* prune_searches. *)
Unexpired == {s \in searches : created_at[s] > old}

(* Mutant: the newest search makes way for the one after it. *)
MakeRoomAtTheEnd(held) ==
    IF Cardinality(held) < MaxPending THEN held
    ELSE {s \in held : \E other \in held : created_at[other] > created_at[s]}

(* The oldest search makes way when as many are held as may be. *)
MakeRoom(held) ==
    IF Cardinality(held) < MaxPending THEN held
    ELSE {s \in held : \E other \in held : created_at[other] < created_at[s]}

(* play: the results are kept, under a key that the buttons carry. *)
Stored == {s \in Calls : created_at[s] > 0}
Store(i) ==
    /\ pc[i] = "Storing"
    /\ searches' = MakeRoom(Unexpired) \cup {i}
    /\ created_at' = [created_at EXCEPT ![i] = Cardinality(Stored) + 1]
    /\ Go(i, "Answering")
    /\ UNCHANGED <<call, did, recorded, old, discord, session>>

(* The search has to be there, the requester's and from this channel, and  *)
(* she has to be in the voice channel she searched from.                   *)
Usable(i) ==
    LET s == call[i].search
    IN  /\ s \in Unexpired
        /\ \A field \in {"user", "channel", "voice"} : call[i][field] = call[s][field]

(* Mutant: a search stays where it is until the track is in the queue. *)
ChooseAndLeave(i) ==
    /\ pc[i] = "Authorized" /\ Kind(i) = "Select"
    /\ searches' = Unexpired
    /\ IF Usable(i) THEN Go(i, "Queueing") ELSE Fail(i)
    /\ UNCHANGED <<call, did, recorded, created_at, old, discord, session>>

(* dispatch_component: a search is taken before it is looked at, so that   *)
(* it is used once.                                                        *)
Choose(i) ==
    /\ pc[i] = "Authorized" /\ Kind(i) = "Select"
    /\ searches' = Unexpired \ {call[i].search}
    /\ IF Usable(i) THEN Go(i, "Queueing") ELSE Fail(i)
    /\ UNCHANGED <<call, did, recorded, created_at, old, discord, session>>

-----------------------------------------------------------------------------
(* The player takes one track or none, and of a list what it has room for. *)
Fitting(i) == First(call[i].tracks, MaxQueue - session.length)

(* enqueue_track, enqueue_playlist, import: into the session's queue, if   *)
(* the session is in no other voice channel and its queue not full.        *)
Enqueue(i) ==
    /\ pc[i] = "Queueing"
    /\ IF session.room \in {None, call[i].voice} /\ session.length < MaxQueue
       THEN /\ did' = [did EXCEPT ![i] = Fitting(i)]
            /\ session' = [session EXCEPT !.room = call[i].voice,
                                          !.length = @ + Len(Fitting(i))]
            /\ Go(i, IF Kind(i) = "Select" THEN "Responding" ELSE "Answering")
       ELSE Fail(i) /\ UNCHANGED <<did, session>>
    /\ UNCHANGED <<call, recorded, discord, picker>>

(* handle_command: the answer takes the placeholder's place. *)
Answer(i) ==
    /\ pc[i] = "Answering"
    /\ \/ Show(i, IF Kind(i) = "Words" THEN "Picker" ELSE "Answer") /\ Record(i, TRUE)
       \/ Record(i, FALSE) /\ UNCHANGED discord
    /\ Go(i, "Done")
    /\ UNCHANGED <<call, did, picker, session>>

(* Mutant: the refusal takes the placeholder's place, wherever that is. *)
WithdrawByAnswering(i) ==
    /\ pc[i] = "Refusing" /\ Audience(i) = "Channel"
    /\ InChannel(i, "Refusal") \/ UNCHANGED discord
    /\ Go(i, "Withdrawn")
    /\ UNCHANGED <<call, did, recorded, picker, session>>

(* refuse_command: the placeholder the channel sees is withdrawn... *)
Withdraw(i) ==
    /\ pc[i] = "Refusing" /\ Audience(i) = "Channel"
    /\ InChannel(i, "Nothing") \/ UNCHANGED discord
    /\ Go(i, "Withdrawn")
    /\ UNCHANGED <<call, did, recorded, picker, session>>

(* ... and the reason is given to the requester alone. *)
Refuse(i) ==
    /\ \/ pc[i] = "Withdrawn"
       \/ pc[i] = "Refusing" /\ Audience(i) = "Requester"
    /\ ToRequester(i, "Refusal") \/ UNCHANGED discord
    /\ Record(i, FALSE)
    /\ Go(i, "Done")
    /\ UNCHANGED <<call, did, picker, session>>

(* handle_component: the answer takes the picker's place, buttons and all. *)
Respond(i) ==
    /\ pc[i] = "Responding"
    /\ \E ok \in BOOLEAN :
          /\ IF ok THEN ToRequester(call[i].search, IF did[i] # <<>> THEN "Answer" ELSE "Refusal")
                   ELSE UNCHANGED discord
          /\ Record(i, ok /\ did[i] # <<>>)
    /\ Go(i, IF did[i] # <<>> THEN "Announcing" ELSE "Done")
    /\ UNCHANGED <<call, did, picker, session>>

(* What was chosen is the channel's business. *)
Announce(i) ==
    /\ pc[i] = "Announcing"
    /\ InChannel(i, "Answer") \/ UNCHANGED discord
    /\ Go(i, "Done")
    /\ UNCHANGED <<call, did, recorded, picker, session>>

-----------------------------------------------------------------------------
(* Meanwhile time passes for a search, and the session plays its queue,    *)
(* parks it or ends (GuildPlayer).                                         *)
SearchAges ==
    /\ old < Cardinality(Stored)
    /\ old' = old + 1
    /\ UNCHANGED <<task, discord, searches, created_at, session>>

SessionMovesOn ==
    /\ session' \in
          {[session EXCEPT !.room = None], [session EXCEPT !.room = None, !.length = 0]}
          \cup {[session EXCEPT !.length = k] : k \in {session.length - 1} \cap Nat}
    /\ session' # session
    /\ UNCHANGED <<task, discord, picker>>

Handle(i) ==
    \/ AnswerAtOnce(i) \/ Defer(i) \/ Authorize(i) \/ Prepare(i) \/ Store(i) \/ Choose(i)
    \/ Enqueue(i) \/ Answer(i) \/ Withdraw(i) \/ Refuse(i) \/ Respond(i) \/ Announce(i)

Next ==
    \/ \E i \in Calls : Receive(i) \/ Press(i) \/ Handle(i)
    \/ SearchAges
    \/ SessionMovesOn

(* A handler runs: Discord, the resolver and the player answer its calls,  *)
(* one way or the other.                                                   *)
Spec == Init /\ [][Next]_vars /\ \A i \in Calls : WF_vars(Handle(i))

-----------------------------------------------------------------------------
Selections == {i \in Calls : Kind(i) = "Select"}
Chosen == {i \in Selections : pc[i] \notin {"Deferred", "Authorized"}}

(* However often the buttons of a picker are pressed, a search puts one    *)
(* track in the queue at most: one it offered, for the person who asked,   *)
(* while she is where she asked from.                                      *)
ChoicesQueueOnce ==
    \A i \in Selections : did[i] # <<>> =>
        LET s == call[i].search
        IN  /\ \A j \in Selections \ {i} : call[j].search = s => did[j] = <<>>
            /\ Len(did[i]) = 1 /\ did[i][1] \in ToSet(call[s].tracks)
            /\ call[i].user = call[s].user /\ call[i].voice = call[s].voice

(* The map of searches is bounded, and a search is gone from it only when  *)
(* its requester has used it, its time is up, or as many newer ones as the *)
(* map holds have been made.                                               *)
NewestSearchesAreHeld ==
    /\ Cardinality(searches) <= MaxPending
    /\ \A s \in Stored \ searches :
          \/ \E i \in Chosen : call[i].search = s /\ call[i].user = call[s].user
          \/ created_at[s] <= old
          \/ Cardinality({t \in Stored : created_at[t] > created_at[s]}) >= MaxPending

(* The channel sees a placeholder, or what really happened: never why a    *)
(* request was refused, never a picker, never a track that was not queued. *)
TheRoomIsToldTheTruth ==
    \A i \in Calls :
        /\ publicly[i] \notin {"Picker", "Refusal"}
        /\ publicly[i] = "Answer" /\ Kind(i) # "Change" => did[i] # <<>>
        /\ publicly[i] = "Thinking" /\ pc[i] = "Done" => recorded[i] = <<FALSE>>

(* Every interaction that arrives is answered or given up in the end, and  *)
(* counted once.                                                           *)
CountedOnce(i) == pc[i] = "Done" /\ Len(recorded[i]) = 1
EveryInteractionIsCountedOnce ==
    <>[](\A i \in Calls : pc[i] # "Absent" => CountedOnce(i))

=============================================================================
