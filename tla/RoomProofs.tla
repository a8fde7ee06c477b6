------------------------------ MODULE RoomProofs ------------------------------
(***************************************************************************)
(* Theorems about Room, for every set of people, channels and commands,    *)
(* and every bound.                                                        *)
(***************************************************************************)
EXTENDS Room, GuildPlayerProofs, FiniteSetTheorems

-----------------------------------------------------------------------------
(* Whoever has a command under way issued it from some voice channel, and  *)
(* asks for a number of votes the room could give.                         *)
HandlersOK ==
    /\ running = TRUE
    /\ presence \in [Users -> VoiceChannels \cup {None}]
    /\ handlers \in [Users -> [pc: {"Idle", "Checking", "Counting", "Acting"},
                               command: Commands \cup {None},
                               voice: VoiceChannels \cup {None},
                               needed: Nat]]
    /\ \A user \in Users :
          /\ handlers[user].pc # "Idle" =>
                handlers[user].command \in Commands /\ handlers[user].voice \in VoiceChannels
          /\ handlers[user].pc = "Acting" /\ handlers[user].command = "Skip" =>
                handlers[user].needed \in 1..Cardinality(Users)

(* Half of an audience is at least somebody and at most everybody. *)
LEMMA VotesNeededBounds ==
    ASSUME NEW user \in Users
    PROVE  VotesNeeded(ListenerCount) \in 1..Cardinality(Users)
<1>1. /\ IsFiniteSet(Audience(seat))
      /\ Listeners \in Nat /\ Cardinality(Users) \in Nat
      /\ Listeners <= Cardinality(Users)
  <2>1. Audience(seat) \in SUBSET Users
    BY DEF Audience
  <2>2. QED
    BY <2>1, FS_Subset, FS_CardinalityType, RoomAssumption DEF Listeners
<1>2. Cardinality(Users) >= 1
  <2>1. Cardinality({user}) = 1 /\ {user} \in SUBSET Users
    BY FS_Singleton
  <2>2. Cardinality({user}) <= Cardinality(Users)
    BY <2>1, FS_Subset, RoomAssumption
  <2>3. QED
    BY <1>1, <2>1, <2>2
<1>3. CASE Listeners <= 1
  BY <1>1, <1>2, <1>3 DEF ListenerCount, VotesNeeded
<1>4. CASE Listeners > 1
  <2> DEFINE half == (Listeners + 1) \div 2
  <2>1. half \in Nat /\ 1 <= half /\ half <= Listeners
    BY <1>1, <1>4
  <2>2. VotesNeeded(ListenerCount) = Max({2, half})
    <3>1. ListenerCount = Listeners /\ ~(Listeners <= 1)
      BY <1>1, <1>4 DEF ListenerCount
    <3>2. VotesNeeded(ListenerCount) = VotesNeeded(Listeners)
      BY <3>1
    <3>3. VotesNeeded(Listeners) = Max({2, half})
      BY <3>1, Zenon DEF VotesNeeded
    <3>4. QED
      BY <3>2, <3>3
  <2> HIDE DEF half
  <2>3. \E n \in {2, half} : \A m \in {2, half} : n >= m
    BY <2>1
  <2>4. Max({2, half}) \in {2, half}
    BY <2>3 DEF Max
  <2>5. QED
    BY <1>1, <1>4, <2>1, <2>2, <2>4
<1>5. QED
  BY <1>1, <1>3, <1>4

-----------------------------------------------------------------------------
(* Room is an environment of the actor.                                    *)

(* No request but a shutdown ends the actor. *)
LEMMA ActorStays ==
    ASSUME Requesting \/ Editing \/ Controlling \/ Completing \/ IdleTimeout
    PROVE  running' = running
<1>1. CASE Requesting
  BY <1>1 DEF Requesting, Enqueue, EnqueueAll, Refuse, Add, session
<1>2. CASE Editing
  <2>1. ASSUME NEW waiting, Rearrange(waiting)
        PROVE  running' = running
    BY <2>1 DEF Rearrange
  <2>2. CASE Reorder
    BY <2>1, <2>2 DEF Reorder
  <2>3. CASE \E user \in Users : RemoveRequester(user)
    BY <2>1, <2>3 DEF RemoveRequester
  <2>4. QED
    BY <1>2, <2>1, <2>2, <2>3
       DEF Editing, Clear, RemovePosition, RemoveRange, SetRepeat, ChangeShuffle, Refuse, session
<1>3. CASE Controlling
  BY <1>3 DEF Controlling, Skipping, Skip, VoteSkip, Stop, HoldPlayback, ReleasePlayback, Park, Join,
              SetVolume, Advance, Refuse, session
<1>4. CASE Completing
  BY <1>4 DEF Completing, TrackFinished, Advance, session
<1>5. CASE IdleTimeout
  BY <1>5 DEF IdleTimeout
<1>6. QED
  BY <1>1, <1>2, <1>3, <1>4, <1>5

(* What a command asks of the actor is one of its requests. *)
LEMMA PerformAsks ==
    ASSUME HandlersOK, NEW user \in Users, Perform(user)
    PROVE  Requesting \/ Editing \/ Controlling
<1> DEFINE handler == handlers[user]
<1>1. /\ handler.voice \in VoiceChannels
      /\ handler.command = "Skip" => handler.needed \in 1..Cardinality(Users)
  BY DEF HandlersOK, Perform
<1>2. Queueing(user, handler) \/ Trimming(handler) \/ Steering(user, handler)
  BY DEF Perform
<1> HIDE DEF handler
<1>3. CASE Queueing(user, handler)
  BY <1>1, <1>3 DEF Queueing, OwnItems, Requesting
<1>4. CASE Trimming(handler)
  <2>1. 1..MaxTracks \subseteq 0..MaxTracks
    BY ConstantsAssumption
  <2>2. \A to \in 1..MaxTracks : 1..to \subseteq 0..MaxTracks
    BY ConstantsAssumption
  <2>3. QED
    BY <1>4, <2>1, <2>2 DEF Trimming, Editing
<1>5. CASE Steering(user, handler)
  <2>1. CASE handler.command = "Skip" /\ VoteSkip(user, handler.needed)
    BY <1>1, <2>1 DEF Controlling, Skipping
  <2>2. CASE HoldPlayback("Requested")
    BY <2>2 DEF Controlling, Skipping, Hold
  <2>3. CASE ReleasePlayback("Anything")
    BY <2>3 DEF Controlling, Skipping, Release
  <2>4. CASE \E percent \in 0..(MaxVolume + 1) : SetVolume(percent)
    BY <2>4 DEF Controlling, Skipping
  <2>5. CASE Join(handler.voice)
    BY <1>1, <2>5 DEF Controlling, Skipping
  <2>6. CASE Park \/ Stop
    BY <2>6 DEF Controlling, Skipping
  <2>7. CASE \E mode \in RepeatMode : SetRepeat(mode)
    BY <2>7 DEF Editing
  <2>8. CASE (\E change \in ShuffleChange : ChangeShuffle(change)) \/ Reorder
    BY <2>8 DEF Editing
  <2>9. QED
    BY <1>5, <2>1, <2>2, <2>3, <2>4, <2>5, <2>6, <2>7, <2>8 DEF Steering
<1>6. QED
  BY <1>2, <1>3, <1>4, <1>5

(* Whatever happens in the room is something the actor is asked, or        *)
(* nothing to it.                                                          *)
LEMMA RoomStep ==
    ASSUME TypeOK, HandlersOK, [RoomNext]_roomVars
    PROVE  Requesting \/ Editing \/ Controlling \/ Completing \/ IdleTimeout \/ UNCHANGED vars
<1>1. CASE \E user \in Users : Perform(user)
  BY <1>1, PerformAsks
<1>2. CASE HoldRoom
  BY <1>2 DEF HoldRoom, Controlling, Hold
<1>3. CASE ReleaseRoom
  BY <1>3 DEF ReleaseRoom, Controlling, Release
<1>4. CASE TrackEnds
  <2>1. /\ current # None
        /\ TrackFinished(current, "Finished") \/ TrackFinished(current, "Failed")
    BY <1>4 DEF TrackEnds
  <2>2. current \in Items
    BY <2>1 DEF TypeOK
  <2>3. QED
    BY <2>1, <2>2 DEF Completing, Departure
<1>5. CASE TimeOut
  BY <1>5 DEF TimeOut
<1>6. CASE UNCHANGED vars
  BY <1>6
<1>7. QED
  BY <1>1, <1>2, <1>3, <1>4, <1>5, <1>6
     DEF RoomNext, CommandStep, VoiceStep, Surroundings, Authorize, Check, Count, Look,
         TakeSeat, Move, roomVars

(* The handlers' own invariant. *)
LEMMA HandlersStep ==
    ASSUME TypeOK, HandlersOK, [RoomNext]_roomVars
    PROVE  HandlersOK'
<1>1. running' = TRUE
  <2>1. CASE UNCHANGED vars
    BY <2>1 DEF vars, session, HandlersOK
  <2>2. CASE Requesting \/ Editing \/ Controlling \/ Completing \/ IdleTimeout
    BY <2>2, ActorStays DEF HandlersOK
  <2>3. QED
    BY <2>1, <2>2, RoomStep
<1>2. ASSUME UNCHANGED <<presence, handlers>>
      PROVE  HandlersOK'
  BY <1>1, <1>2 DEF HandlersOK
<1>3. ASSUME NEW user \in Users, NEW handler,
             handlers' = [handlers EXCEPT ![user] = handler],
             UNCHANGED presence,
             handler \in [pc: {"Idle", "Checking", "Counting", "Acting"},
                          command: Commands \cup {None},
                          voice: VoiceChannels \cup {None},
                          needed: Nat],
             handler.pc # "Idle" =>
                handler.command \in Commands /\ handler.voice \in VoiceChannels,
             handler.pc = "Acting" /\ handler.command = "Skip" =>
                handler.needed \in 1..Cardinality(Users)
      PROVE  HandlersOK'
  BY <1>1, <1>3 DEF HandlersOK
<1>4. AtRest \in [pc: {"Idle", "Checking", "Counting", "Acting"},
                  command: Commands \cup {None}, voice: VoiceChannels \cup {None},
                  needed: Nat] /\ AtRest.pc = "Idle"
  BY DEF AtRest
<1>5. ASSUME NEW user \in Users, NEW command \in Commands, Authorize(user, command)
      PROVE  HandlersOK'
  <2> DEFINE handler == [AtRest EXCEPT !.pc = IF command \in Guarded THEN "Checking" ELSE "Acting",
                                       !.command = command, !.voice = presence[user]]
  <2>1. presence[user] \in VoiceChannels
    BY <1>5 DEF Authorize, HandlersOK
  <2>2. command \notin Guarded => command # "Skip"
    BY DEF Guarded
  <2>3. /\ handler \in [pc: {"Idle", "Checking", "Counting", "Acting"},
                        command: Commands \cup {None}, voice: VoiceChannels \cup {None},
                        needed: Nat]
        /\ handler.command = command /\ handler.voice = presence[user]
        /\ handler.pc = "Acting" => command \notin Guarded
    BY <1>4, <2>1
  <2>4. handlers' = [handlers EXCEPT ![user] = handler] /\ UNCHANGED presence
    BY <1>5 DEF Authorize
  <2> HIDE DEF handler
  <2>5. QED
    BY <1>3, <2>1, <2>2, <2>3, <2>4
<1>6. ASSUME NEW user \in Users, Check(user)
      PROVE  HandlersOK'
  <2> DEFINE onwards == [handlers[user] EXCEPT
                            !.pc = IF handlers[user].command = "Skip" THEN "Counting" ELSE "Acting"]
  <2>1. UNCHANGED presence
        /\ \/ handlers' = [handlers EXCEPT ![user] = AtRest]
           \/ handlers' = [handlers EXCEPT ![user] = onwards]
    BY <1>6 DEF Check, HandlersOK
  <2>2. handlers[user].pc # "Idle"
    BY <1>6 DEF Check
  <2>3. /\ onwards \in [pc: {"Idle", "Checking", "Counting", "Acting"},
                        command: Commands \cup {None}, voice: VoiceChannels \cup {None},
                        needed: Nat]
        /\ onwards.command \in Commands /\ onwards.voice \in VoiceChannels
        /\ ~(onwards.pc = "Acting" /\ onwards.command = "Skip")
    BY <2>2 DEF HandlersOK
  <2> HIDE DEF onwards
  <2>4. QED
    BY <1>3, <1>4, <2>1, <2>3
<1>7. ASSUME NEW user \in Users, Count(user)
      PROVE  HandlersOK'
  <2> DEFINE counted == [handlers[user] EXCEPT !.pc = "Acting",
                                               !.needed = VotesNeeded(ListenerCount)]
  <2>1. handlers' = [handlers EXCEPT ![user] = counted] /\ UNCHANGED presence
    BY <1>7 DEF Count, HandlersOK
  <2>2. handlers[user].pc = "Counting" /\ VotesNeeded(ListenerCount) \in 1..Cardinality(Users)
    BY <1>7, VotesNeededBounds DEF Count
  <2>3. VotesNeeded(ListenerCount) \in Nat
    BY <2>2, FS_CardinalityType, RoomAssumption
  <2>4. /\ counted \in [pc: {"Idle", "Checking", "Counting", "Acting"},
                        command: Commands \cup {None}, voice: VoiceChannels \cup {None},
                        needed: Nat]
        /\ counted.command \in Commands /\ counted.voice \in VoiceChannels
        /\ counted.needed \in 1..Cardinality(Users)
    BY <2>2, <2>3 DEF HandlersOK
  <2> HIDE DEF counted
  <2>5. QED
    BY <1>3, <2>1, <2>4
<1>8. ASSUME NEW user \in Users, Perform(user)
      PROVE  HandlersOK'
  BY <1>3, <1>4, <1>8 DEF Perform
<1>9. ASSUME NEW user \in Users, Move(user)
      PROVE  HandlersOK'
  <2>1. /\ UNCHANGED handlers
        /\ \E channel \in VoiceChannels \cup {None} :
              presence' = [presence EXCEPT ![user] = channel]
    BY <1>9 DEF Move
  <2>2. QED
    BY <1>1, <2>1 DEF HandlersOK
<1>10. CASE VoiceStep \/ TakeSeat \/ TrackEnds \/ TimeOut \/ UNCHANGED roomVars
  BY <1>2, <1>10
     DEF VoiceStep, Look, HoldRoom, ReleaseRoom, TakeSeat, TrackEnds, TimeOut, roomVars, around
<1>11. QED
  BY <1>5, <1>6, <1>7, <1>8, <1>9, <1>10 DEF RoomNext, CommandStep, Surroundings

(* Every step in the room is a step of the actor, or none of its business. *)
LEMMA RoomStepsAreSteps ==
    ASSUME TypeOK, HandlersOK, [RoomNext]_roomVars
    PROVE  [Next]_vars
<1>1. running
  BY DEF HandlersOK
<1>2. QED
  BY <1>1, RoomStep DEF Next, Command, Expire

LEMMA RoomInvariant == RoomSpec => [](TypeOK /\ HandlersOK)
<1>1. RoomInit => TypeOK /\ HandlersOK
  <2> SUFFICES ASSUME RoomInit
               PROVE  TypeOK /\ HandlersOK
    OBVIOUS
  <2>1. TypeOK
    BY InitType DEF RoomInit
  <2>2. QED
    BY <2>1 DEF RoomInit, Init, HandlersOK, AtRest
<1>2. TypeOK /\ HandlersOK /\ [RoomNext]_roomVars => (TypeOK /\ HandlersOK)'
  BY RoomStepsAreSteps, TypeStep, HandlersStep
<1>3. QED
  BY <1>1, <1>2, PTL DEF RoomSpec

(* Room is the actor with people around it: whatever they and the handlers *)
(* do, the actor behaves as GuildPlayer says, so every theorem about the   *)
(* actor alone holds in the room.                                          *)
THEOREM RoomImplementsActor == RoomSpec => Spec
<1>1. RoomInit => Init
  BY DEF RoomInit
<1>2. TypeOK /\ HandlersOK /\ [RoomNext]_roomVars => [Next]_vars
  BY RoomStepsAreSteps
<1>3. QED
  BY <1>1, <1>2, RoomInvariant, PTL DEF RoomSpec, Spec

-----------------------------------------------------------------------------
(* What a room does by filling and emptying.                               *)

(* However its handlers overlap, a room that fills or empties keeps the    *)
(* queue and the channel, and lifts no pause somebody asked for.           *)
THEOREM RoomOnlyPausesCorrect == RoomSpec => RoomOnlyPauses
<1> DEFINE Kept == /\ UNCHANGED <<current, pending, voice_channel_id>>
                   /\ hold = "Requested" => hold' = "Requested"
<1>1. RoomNext => (events' # events => Kept)
  <2> SUFFICES ASSUME RoomNext, events' # events
               PROVE  Kept
    OBVIOUS
  <2>1. CASE UNCHANGED vars
    BY <2>1 DEF vars, session
  <2>2. CASE HoldRoom
    BY <2>2 DEF HoldRoom, HoldPlayback, Refuse, session
  <2>3. CASE ReleaseRoom
    BY <2>3 DEF ReleaseRoom, ReleasePlayback, Refuse, session
  <2>4. QED
    BY <2>1, <2>2, <2>3
       DEF RoomNext, CommandStep, VoiceStep, Surroundings, Authorize, Check, Count, Perform,
           Look, TakeSeat, TrackEnds, TimeOut, Move
<1>2. QED
  BY <1>1, PTL DEF RoomSpec, RoomOnlyPauses

-----------------------------------------------------------------------------
(* Commands that take turns.                                               *)

(* One command at a time, from where its requester still is; and what was  *)
(* checked of the session stays so, unless it leaves.                      *)
InTurn ==
    /\ \A user, other \in Users :
          handlers[user].pc # "Idle" /\ handlers[other].pc # "Idle" => user = other
    /\ \A user \in Users :
          /\ handlers[user].pc # "Idle" => handlers[user].voice = presence[user]
          /\ handlers[user].pc \in {"Counting", "Acting"} /\ handlers[user].command \in Guarded
                => voice_channel_id \in {None, handlers[user].voice}

LEMMA InTurnStep ==
    ASSUME Overlap \cap {"Commands", "Moves"} = {},
           HandlersOK, InTurn, [RoomNext]_roomVars
    PROVE  InTurn'
<1>1. ASSUME UNCHANGED <<presence, handlers>>, voice_channel_id' \in {None, voice_channel_id}
      PROVE  InTurn'
  BY <1>1 DEF InTurn
<1>2. ASSUME NEW user \in Users, handlers[user].pc # "Idle",
             handlers' = [handlers EXCEPT ![user] = AtRest]
      PROVE  InTurn'
  <2>1. \A other \in Users : handlers'[other].pc = "Idle"
    BY <1>2 DEF AtRest, HandlersOK, InTurn
  <2>2. QED
    BY <2>1 DEF InTurn
<1>3. ASSUME NEW user \in Users, NEW command \in Commands, Authorize(user, command)
      PROVE  InTurn'
  <2>1. \A other \in Users : handlers[other].pc = "Idle"
    BY <1>3 DEF Authorize, MayOverlap, CommandRunning
  <2>2. /\ \A other \in Users \ {user} : handlers'[other] = handlers[other]
        /\ handlers'[user].voice = presence[user]
        /\ handlers'[user].command = command
        /\ handlers'[user].pc \in {"Counting", "Acting"} => command \notin Guarded
    <3>1. AtRest \in [pc: {"Idle"}, command: {None}, voice: {None}, needed: {0}]
      BY DEF AtRest
    <3>2. QED
      BY <1>3, <3>1 DEF Authorize, HandlersOK
  <2>3. UNCHANGED presence
    BY <1>3 DEF Authorize
  <2>4. QED
    BY <2>1, <2>2, <2>3 DEF InTurn
<1>4. ASSUME NEW user \in Users, Check(user)
      PROVE  InTurn'
  <2>1. CASE handlers' = [handlers EXCEPT ![user] = AtRest]
    BY <1>2, <1>4, <2>1 DEF Check
  <2>2. CASE /\ voice_channel_id = handlers[user].voice
             /\ handlers' = [handlers EXCEPT ![user].pc =
                                IF handlers[user].command = "Skip" THEN "Counting" ELSE "Acting"]
    <3>1. UNCHANGED <<presence, voice_channel_id>> /\ handlers[user].pc # "Idle"
      BY <1>4 DEF Check, vars, session
    <3>2. /\ \A other \in Users \ {user} : handlers'[other] = handlers[other]
          /\ handlers'[user].voice = handlers[user].voice
          /\ handlers'[user].pc # "Idle"
      BY <2>2 DEF HandlersOK
    <3>3. QED
      BY <2>2, <3>1, <3>2 DEF InTurn
  <2>3. QED
    BY <1>4, <2>1, <2>2 DEF Check, HandlersOK
<1>5. ASSUME NEW user \in Users, Count(user)
      PROVE  InTurn'
  <2>1. /\ \A other \in Users \ {user} : handlers'[other] = handlers[other]
        /\ handlers'[user].voice = handlers[user].voice
        /\ handlers'[user].command = handlers[user].command
        /\ handlers[user].pc = "Counting"
    BY <1>5 DEF Count, HandlersOK
  <2>2. UNCHANGED <<presence, voice_channel_id>>
    BY <1>5 DEF Count, vars, session
  <2>3. QED
    BY <2>1, <2>2 DEF InTurn
<1>6. ASSUME NEW user \in Users, Perform(user)
      PROVE  InTurn'
  BY <1>2, <1>6 DEF Perform
<1>7. ASSUME NEW user \in Users, Move(user)
      PROVE  InTurn'
  <2>1. handlers[user].pc = "Idle"
    BY <1>7 DEF Move, MayOverlap
  <2>2. /\ UNCHANGED <<handlers, voice_channel_id>>
        /\ \A other \in Users \ {user} : presence'[other] = presence[other]
    BY <1>7 DEF Move, vars, session, HandlersOK
  <2>3. QED
    BY <2>1, <2>2 DEF InTurn
<1>8. CASE VoiceStep
  BY <1>1, <1>8
     DEF VoiceStep, Look, HoldRoom, ReleaseRoom, HoldPlayback, ReleasePlayback, Refuse, vars,
         session
<1>9. CASE TrackEnds
  BY <1>1, <1>9 DEF TrackEnds, TrackFinished, Advance, session
<1>10. CASE TimeOut
  BY <1>1, <1>10 DEF TimeOut, IdleTimeout, ClearSession
<1>11. CASE TakeSeat \/ UNCHANGED roomVars
  BY <1>1, <1>11 DEF TakeSeat, roomVars, around, vars, session
<1>12. QED
  BY <1>3, <1>4, <1>5, <1>6, <1>7, <1>8, <1>9, <1>10, <1>11
     DEF RoomNext, CommandStep, Surroundings

(* Where commands take turns and nobody moves during their own, a guarded  *)
(* command is carried out only for somebody in Auxide's channel.          *)
THEOREM CommandsInTurnCorrect ==
    ASSUME Overlap \cap {"Commands", "Moves"} = {}
    PROVE  RoomSpec => CommandsComeFromTheRoom
<1> DEFINE FromTheRoom ==
        \A user \in Users :
            Acts(user) /\ handlers[user].command \in Guarded /\ reply' = "Ok"
                => voice_channel_id \in {None, presence[user]}
<1>1. RoomInit => InTurn
  BY DEF RoomInit, InTurn, AtRest
<1>2. TypeOK /\ HandlersOK /\ InTurn /\ [RoomNext]_roomVars => InTurn'
  BY InTurnStep
<1>3. InTurn => FromTheRoom
  BY DEF InTurn, Acts
<1>4. QED
  BY <1>1, <1>2, <1>3, RoomInvariant, PTL DEF RoomSpec, CommandsComeFromTheRoom

-----------------------------------------------------------------------------
(* A room that fills and empties while its handlers take turns.            *)

Leaves == {"StopAndDisconnect", "Disconnect", "IdleDisconnect"}
Follows ==
    \/ Routed = route /\ voice_channel_id' = voice_channel_id
    \/ Routed = Append(route, voice_channel_id')

LEMMA FollowsFromDirective ==
    /\ /\ emitted'.directive \notin Starting \cup {"Join"} \cup Leaves
       /\ UNCHANGED voice_channel_id
       => Follows
    /\ /\ emitted'.directive \in Starting \cup {"Join"}
       /\ voice_channel_id' # None \/ UNCHANGED voice_channel_id
       => Follows
    /\ emitted'.directive \in Leaves /\ voice_channel_id' = None => Follows
<1>1. (Starting \cup {"Join"}) \cap Leaves = {}
  BY DEF Starting, Leaves
<1>2. Routed = IF emitted'.directive \in Starting \cup {"Join"} /\ voice_channel_id' # None
               THEN Append(route, voice_channel_id')
               ELSE IF emitted'.directive \in Leaves THEN Append(route, None) ELSE route
  BY <1>1 DEF Routed, Leaves
<1>3. QED
  BY <1>1, <1>2 DEF Follows

(* Where Auxide is sent next, if anywhere, is where the session now is.    *)
LEMMA RoutedFollows ==
    ASSUME Requesting \/ Editing \/ Controlling \/ Completing \/ IdleTimeout
    PROVE  Follows
<1>d. /\ \A directive : Transition(directive).directive = directive
      /\ \A directive, target : TransitionTo(directive, target).directive = directive
      /\ \A item : Answered(item).directive = "Play"
  BY DEF Transition, TransitionTo, Answered
<1>s. /\ {"None", "Stop", "Pause", "Resume", "SetVolume", "IdleExpired"}
            \cap (Starting \cup {"Join"} \cup Leaves) = {}
      /\ {"Play", "Replace"} \subseteq Starting
      /\ {"StopAndDisconnect", "Disconnect", "IdleDisconnect"} \subseteq Leaves
  BY DEF Starting, Leaves
<1>n. \A channel \in VoiceChannels : channel # None
  BY ConstantsAssumption
<1>r. ASSUME NEW error, Refuse(error)
      PROVE  Follows
  BY <1>d, <1>s, <1>r, FollowsFromDirective DEF Refuse, session
<1>q. ASSUME NEW directive \in {"None", "Stop", "Pause", "Resume", "SetVolume"},
             Accept(Transition(directive)), UNCHANGED voice_channel_id
      PROVE  Follows
  BY <1>d, <1>s, <1>q, FollowsFromDirective DEF Accept
<1>a. ASSUME NEW left, NEW reason, NEW start \in Starting, Advance(left, reason, start)
      PROVE  Follows
  <2>1. UNCHANGED voice_channel_id /\ emitted'.directive \in Starting \cup {"Stop"}
    BY <1>d, <1>a DEF Advance, Accept
  <2>2. QED
    BY <1>s, <2>1, FollowsFromDirective
<1>c. ASSUME ClearSession, Accept(Transition(StopDirective))
      PROVE  Follows
  BY <1>d, <1>s, <1>c, FollowsFromDirective DEF ClearSession, Accept, StopDirective
<1>1. CASE Requesting
  <2>1. ASSUME NEW items, NEW channel \in VoiceChannels, Add(items, channel), NEW start,
               start.directive = "Play",
               Accept(IF StartsPlayback THEN start ELSE Transition("None"))
        PROVE  Follows
    <3>1. CASE StartsPlayback
      <4>1. voice_channel_id' = channel
        BY <2>1, <3>1 DEF Add, StartsPlayback, Wake, ResumeHeld, Begin
      <4>2. emitted'.directive \in Starting
        BY <1>s, <2>1, <3>1 DEF Accept
      <4>3. QED
        BY <1>n, <4>1, <4>2, FollowsFromDirective
    <3>2. CASE ~StartsPlayback
      BY <1>q, <2>1, <3>2 DEF Add, StartsPlayback, Wait
    <3>3. QED
      BY <3>1, <3>2
  <2>2. ASSUME NEW item \in Fresh, NEW channel \in VoiceChannels, Enqueue(item, channel)
        PROVE  Follows
    BY <1>d, <1>r, <2>1, <2>2 DEF Enqueue
  <2>3. ASSUME NEW items \in Playlists, NEW channel \in VoiceChannels, EnqueueAll(items, channel)
        PROVE  Follows
    BY <1>d, <1>q, <1>r, <2>1, <2>3 DEF EnqueueAll, session
  <2>4. QED
    BY <1>1, <2>2, <2>3 DEF Requesting
<1>2. CASE Editing
  <2>1. ASSUME NEW waiting, Rearrange(waiting)
        PROVE  Follows
    BY <1>q, <2>1 DEF Rearrange
  <2>2. CASE Reorder
    BY <2>1, <2>2 DEF Reorder
  <2>3. CASE \E user \in Users : RemoveRequester(user)
    BY <2>1, <2>3 DEF RemoveRequester
  <2>4. CASE (\E mode \in RepeatMode : SetRepeat(mode))
             \/ \E change \in ShuffleChange : ChangeShuffle(change)
    BY <1>q, <2>4 DEF SetRepeat, ChangeShuffle
  <2>5. QED
    BY <1>2, <1>r, <2>1, <2>2, <2>3, <2>4 DEF Editing, Clear, RemovePosition, RemoveRange
<1>3. CASE Controlling
  <2>1. CASE Skip \/ \E user \in Users, needed \in 1..Cardinality(Users) : VoteSkip(user, needed)
    BY <1>s, <1>r, <1>q, <1>a, <2>1 DEF Skip, VoteSkip, session
  <2>2. CASE Stop
    BY <1>c, <2>2 DEF Stop
  <2>3. CASE (\E reason \in Hold \ {"None"} : HoldPlayback(reason))
             \/ \E scope \in Release : ReleasePlayback(scope)
    BY <1>r, <1>q, <2>3 DEF HoldPlayback, ReleasePlayback, session
  <2>4. CASE Park
    BY <1>d, <1>s, <1>r, <2>4, FollowsFromDirective DEF Park, Accept
  <2>5. ASSUME NEW channel \in VoiceChannels, Join(channel)
        PROVE  Follows
    <3>1. CASE voice_channel_id' = channel /\ emitted'.directive \in {"Join", "Play"}
      BY <1>n, <1>s, <3>1, FollowsFromDirective
    <3>2. QED
      BY <1>d, <1>r, <2>5, <3>1 DEF Join, Accept, ResumeHeld
  <2>6. CASE \E percent \in 0..(MaxVolume + 1) : SetVolume(percent)
    BY <1>r, <1>q, <2>6 DEF SetVolume
  <2>7. QED
    BY <1>3, <2>1, <2>2, <2>3, <2>4, <2>5, <2>6 DEF Controlling, Skipping
<1>4. CASE Completing
  BY <1>4, <1>s, <1>q, <1>a DEF Completing, TrackFinished, session
<1>5. CASE IdleTimeout
  <2>1. voice_channel_id' = None
    BY <1>5 DEF IdleTimeout, ClearSession
  <2>2. CASE voice_channel_id # None
    <3>1. emitted'.directive \in Leaves
      BY <1>5, <1>d, <1>s, <2>2 DEF IdleTimeout
    <3>2. QED
      BY <2>1, <3>1, FollowsFromDirective
  <2>3. CASE voice_channel_id = None
    <3>1. emitted'.directive \in {"None", "IdleExpired"}
      BY <1>5, <1>d, <2>3 DEF IdleTimeout
    <3>2. QED
      BY <1>s, <2>1, <2>3, <3>1, FollowsFromDirective
  <2>4. QED
    BY <2>2, <2>3
<1>6. QED
  BY <1>1, <1>2, <1>3, <1>4, <1>5

-----------------------------------------------------------------------------
(* Places Auxide is, or is going to be, other than the session's channel:  *)
(* before it settles there, it will be noticed moving.                     *)
OnTheWay ==
    \/ seat # voice_channel_id
    \/ \E k \in 1..Len(route) : route[k] # voice_channel_id

(* The way ends in the session's channel. *)
WayOK ==
    /\ route \in Seq(VoiceChannels \cup {None})
    /\ route = <<>> => seat = voice_channel_id
    /\ route # <<>> => route[Len(route)] = voice_channel_id

(* What a voice state handler read is still so when it acts. *)
ReadOK ==
    /\ events \in [Phases -> Nat]
    /\ events["Holding"] > 0 => Audience(seat) = {}
    /\ events["Releasing"] > 0 => Audience(seat) # {}

(* Playing to nobody, or held for nobody's sake, is about to be noticed.   *)
EmptyNoticed ==
    current # None /\ hold = "None" /\ voice_channel_id # None /\ Audience(voice_channel_id) = {}
        => OnTheWay \/ events["Dispatched"] > 0 \/ events["Holding"] > 0
FullNoticed ==
    current # None /\ hold = "Abandoned" /\ voice_channel_id # None
        /\ Audience(voice_channel_id) # {}
        => OnTheWay \/ events["Dispatched"] > 0 \/ events["Releasing"] > 0

Noticing == WayOK /\ ReadOK /\ EmptyNoticed /\ FullNoticed

(* A way only gets longer, and one that ends elsewhere has a turn in it.   *)
LEMMA WayExtends ==
    ASSUME TypeOK', WayOK, UNCHANGED seat,
           \/ route' = route /\ voice_channel_id' = voice_channel_id
           \/ route' = Append(route, voice_channel_id')
    PROVE  /\ WayOK'
           /\ voice_channel_id' # voice_channel_id => OnTheWay'
           /\ OnTheWay => OnTheWay'
<1>1. CASE UNCHANGED <<route, voice_channel_id>>
  BY <1>1 DEF WayOK, OnTheWay
<1>2. CASE route' = Append(route, voice_channel_id')
  <2>1. voice_channel_id' \in VoiceChannels \cup {None}
    BY DEF TypeOK
  <2>2. /\ route' \in Seq(VoiceChannels \cup {None})
        /\ Len(route') = Len(route) + 1 /\ Len(route) \in Nat
        /\ \A k \in 1..Len(route) : route'[k] = route[k]
        /\ route'[Len(route) + 1] = voice_channel_id'
    BY <1>2, <2>1, AppendProperties, LenProperties DEF WayOK
  <2>3. WayOK'
    <3>1. route' # <<>>
      BY <2>2, EmptySeq
    <3>2. QED
      BY <2>2, <3>1 DEF WayOK
  <2>4. ASSUME voice_channel_id' # voice_channel_id
        PROVE  OnTheWay'
    <3>1. CASE route = <<>>
      BY <2>4, <3>1 DEF WayOK, OnTheWay
    <3>2. CASE route # <<>>
      <4>1. Len(route) \in 1..Len(route)
        BY <2>2, <3>2, EmptySeq DEF WayOK
      <4>2. route'[Len(route)] # voice_channel_id' /\ Len(route) \in 1..Len(route')
        BY <2>2, <2>4, <3>2, <4>1 DEF WayOK
      <4>3. QED
        BY <4>2 DEF OnTheWay
    <3>3. QED
      BY <3>1, <3>2
  <2>5. ASSUME OnTheWay, voice_channel_id' = voice_channel_id
        PROVE  OnTheWay'
    <3>1. 1..Len(route) \subseteq 1..Len(route')
      BY <2>2
    <3>2. QED
      BY <2>2, <2>5, <3>1 DEF OnTheWay
  <2>6. QED
    BY <2>3, <2>4, <2>5
<1>3. QED
  BY <1>1, <1>2

(* A command starts nothing for an empty channel: who issued it is there.  *)
LEMMA RequesterIsThere ==
    ASSUME HandlersOK, InTurn, NEW user \in Users, Perform(user),
           current' # None, hold' = "None",
           voice_channel_id # None, UNCHANGED voice_channel_id,
           Audience(voice_channel_id) = {}
    PROVE  current # None /\ hold = "None"
<1> DEFINE handler == handlers[user]
<1>1. /\ handler.voice = presence[user] /\ handler.voice \in VoiceChannels
      /\ handler.command \in Guarded => voice_channel_id \in {None, handler.voice}
      /\ handler.command \in Commands
  BY DEF Perform, HandlersOK, InTurn
<1>2. voice_channel_id # presence[user]
  BY DEF Audience
<1>3. handler.command \in {"Play", "Import", "Join"}
  BY <1>1, <1>2 DEF Guarded
<1>4. \/ \E item : Enqueue(item, handler.voice)
      \/ \E items : EnqueueAll(items, handler.voice)
      \/ Join(handler.voice)
  BY <1>3 DEF Perform, Queueing, Trimming, Steering
<1> HIDE DEF handler
<1>5. ASSUME NEW items, Add(items, handler.voice)
      PROVE  current # None /\ hold = "None"
  BY <1>1, <1>2, <1>5 DEF Add, Wake, ResumeHeld, Begin, Wait
<1>6. CASE UNCHANGED session
  BY <1>6 DEF session
<1>7. CASE Join(handler.voice)
  BY <1>6, <1>7 DEF Join, Refuse
<1>8. QED
  BY <1>4, <1>5, <1>6, <1>7 DEF Enqueue, EnqueueAll, Refuse

(* Nobody's command holds a track for an empty room's sake.                *)
LEMMA OnlyTheRoomAbandons ==
    ASSUME NEW user \in Users, Perform(user), hold' = "Abandoned"
    PROVE  hold = "Abandoned"
<1>1. CASE UNCHANGED hold
  BY <1>1
<1>2. CASE hold' \in {"None", "Requested"}
  BY <1>2
<1>3. ASSUME NEW waiting, Rearrange(waiting)
      PROVE  UNCHANGED hold
  BY <1>3 DEF Rearrange
<1>4. ASSUME NEW handler, Queueing(user, handler)
      PROVE  hold = "Abandoned"
  BY <1>1, <1>2, <1>4
     DEF Queueing, Enqueue, EnqueueAll, Refuse, session, Add, Wake, ResumeHeld, Begin, Wait
<1>5. ASSUME NEW handler, Trimming(handler)
      PROVE  hold = "Abandoned"
  <2>1. CASE \E who \in Users : RemoveRequester(who)
    BY <1>1, <1>3, <2>1 DEF RemoveRequester
  <2>2. QED
    BY <1>1, <1>3, <1>5, <2>1
       DEF Trimming, Clear, RemovePosition, RemoveRange, Refuse, session
<1>6. ASSUME NEW handler, Steering(user, handler)
      PROVE  hold = "Abandoned"
  <2>1. CASE Reorder
    BY <1>1, <1>3, <2>1 DEF Reorder
  <2>2. QED
    BY <1>1, <1>2, <1>6, <2>1
       DEF Steering, VoteSkip, Advance, HoldPlayback, ReleasePlayback, SetVolume, Join,
           ResumeHeld, Park, Stop, ClearSession, SetRepeat, ChangeShuffle, Refuse, session
<1>7. QED
  BY <1>4, <1>5, <1>6 DEF Perform

LEMMA NoticingStep ==
    ASSUME Overlap = {},
           TypeOK, TypeOK', NothingOutlivesItsTrack, HandlersOK, InTurn, Noticing,
           [RoomNext]_roomVars
    PROVE  Noticing'
<1>n. /\ "Dispatched" \in Phases /\ "Holding" \in Phases /\ "Releasing" \in Phases
      /\ events["Dispatched"] \in Nat /\ events["Holding"] \in Nat /\ events["Releasing"] \in Nat
      /\ NoEvents => events["Holding"] = 0 /\ events["Releasing"] = 0
  BY DEF Phases, Noticing, ReadOK, NoEvents
<1>1. ASSUME NEW user \in Users, Perform(user)
      PROVE  Noticing'
  <2>1. WayOK' /\ (OnTheWay => OnTheWay')
        /\ (voice_channel_id' # voice_channel_id => OnTheWay')
    <3>1. Requesting \/ Editing \/ Controlling
      BY <1>1, PerformAsks
    <3>2. Follows
      BY <3>1, RoutedFollows
    <3>3. QED
      BY <1>1, <3>2, WayExtends DEF Perform, Follows, Noticing
  <2>2. UNCHANGED <<presence, seat, events>>
    BY <1>1 DEF Perform
  <2>3. ReadOK'
    BY <2>2 DEF Noticing, ReadOK, Audience
  <2>4. EmptyNoticed'
    <3>1. CASE OnTheWay'
      BY <3>1 DEF EmptyNoticed
    <3>2. ASSUME current' # None, hold' = "None", voice_channel_id # None,
                 UNCHANGED voice_channel_id, Audience(voice_channel_id) = {}
          PROVE  OnTheWay' \/ events'["Dispatched"] > 0 \/ events'["Holding"] > 0
      BY <1>1, <2>1, <2>2, <3>2, RequesterIsThere DEF Noticing, EmptyNoticed
    <3>3. QED
      BY <2>1, <2>2, <3>1, <3>2 DEF EmptyNoticed, Audience
  <2>5. FullNoticed'
    <3>1. hold' = "Abandoned" => hold = "Abandoned" /\ current # None
      BY <1>1, OnlyTheRoomAbandons DEF NothingOutlivesItsTrack
    <3>2. QED
      BY <2>1, <2>2, <3>1 DEF Noticing, FullNoticed, Audience
  <2>6. QED
    BY <2>1, <2>3, <2>4, <2>5 DEF Noticing
<1>2. CASE TrackEnds
  <2>1. PICK reason \in {"Finished", "Failed"} : TrackFinished(current, reason)
    BY <1>2 DEF TrackEnds
  <2>2. /\ current \in Items /\ hold = "None"
        /\ UNCHANGED <<presence, seat, events>> /\ route' = Routed
    BY <1>2 DEF TrackEnds, TypeOK
  <2>3. WayOK' /\ (OnTheWay => OnTheWay')
    <3>1. Completing
      BY <2>1, <2>2 DEF Completing, Departure
    <3>2. Follows
      BY <3>1, RoutedFollows
    <3>3. QED
      BY <2>2, <3>2, WayExtends DEF Follows, Noticing
  <2>4. UNCHANGED voice_channel_id /\ hold' = "None" /\ current # None
    BY <1>2, <2>1 DEF TrackEnds, TrackFinished, Advance
  <2>5. QED
    BY <2>2, <2>3, <2>4 DEF Noticing, ReadOK, EmptyNoticed, FullNoticed, Audience
<1>3. CASE TimeOut
  <2>1. Follows /\ current' = None /\ UNCHANGED <<presence, seat, events>> /\ route' = Routed
    BY <1>3, RoutedFollows DEF TimeOut, IdleTimeout, ClearSession
  <2>2. WayOK'
    BY <2>1, WayExtends DEF Follows, Noticing
  <2>3. QED
    BY <2>1, <2>2 DEF Noticing, ReadOK, EmptyNoticed, FullNoticed, Audience
<1>4. ASSUME NEW user \in Users, Move(user)
      PROVE  Noticing'
  <2>1. /\ NoEvents
        /\ events' = [events EXCEPT !["Dispatched"] = @ + 1]
        /\ UNCHANGED <<vars, seat, route>>
    BY <1>4 DEF Move, MayOverlap, Dispatched
  <2>2. /\ events' \in [Phases -> Nat] /\ events'["Dispatched"] > 0
        /\ events'["Holding"] = 0 /\ events'["Releasing"] = 0
    BY <1>n, <2>1 DEF Noticing, ReadOK
  <2>3. QED
    BY <2>1, <2>2 DEF Noticing, WayOK, ReadOK, EmptyNoticed, FullNoticed, vars, session
<1>5. CASE TakeSeat
  <2>1. /\ NoEvents /\ route # <<>>
        /\ seat' = Head(route) /\ route' = Tail(route)
        /\ UNCHANGED <<vars, presence>>
        /\ seat' # seat => events' = [events EXCEPT !["Dispatched"] = @ + 1]
        /\ seat' = seat => UNCHANGED events
    BY <1>5 DEF TakeSeat, MayOverlap, Dispatched
  <2>2. UNCHANGED <<current, hold, voice_channel_id>>
    BY <2>1 DEF vars, session
  <2>3. /\ route' \in Seq(VoiceChannels \cup {None})
        /\ Len(route) \in Nat \ {0} /\ Len(route') = Len(route) - 1
        /\ seat' = route[1]
        /\ \A k \in 1..Len(route') : route'[k] = route[k + 1]
    BY <2>1, HeadTailProperties, EmptySeq DEF Noticing, WayOK
  <2>4. WayOK'
    <3>1. CASE Len(route) = 1
      <4>1. route' = <<>>
        BY <2>3, <3>1, EmptySeq
      <4>2. QED
        BY <2>1, <2>2, <2>3, <3>1, <4>1 DEF Noticing, WayOK
    <3>2. CASE Len(route) > 1
      <4>1. Len(route') \in 1..Len(route') /\ Len(route') + 1 = Len(route)
        BY <2>3, <3>2
      <4>2. route'[Len(route')] = route[Len(route)]
        BY <2>3, <4>1
      <4>3. route' # <<>>
        BY <4>1, EmptySeq
      <4>4. QED
        BY <2>1, <2>2, <2>3, <4>2, <4>3 DEF Noticing, WayOK
    <3>3. QED
      BY <2>3, <3>1, <3>2
  <2>5. ReadOK'
    BY <1>n, <2>1 DEF Noticing, ReadOK
  <2>6. CASE seat' # seat
    <3>1. events'["Dispatched"] > 0
      BY <1>n, <2>1, <2>6 DEF Noticing, ReadOK
    <3>2. QED
      BY <2>4, <2>5, <3>1 DEF Noticing, EmptyNoticed, FullNoticed
  <2>7. CASE seat' = seat
    <3>1. OnTheWay => OnTheWay'
      <4>1. CASE seat # voice_channel_id
        BY <2>2, <2>7, <4>1 DEF OnTheWay
      <4>2. ASSUME seat = voice_channel_id,
                   NEW k \in 1..Len(route), route[k] # voice_channel_id
            PROVE  OnTheWay'
        <5>1. k # 1
          BY <2>3, <2>7, <4>2
        <5>2. k - 1 \in 1..Len(route') /\ route'[k - 1] = route[k]
          BY <2>3, <5>1
        <5>3. QED
          BY <2>2, <4>2, <5>2 DEF OnTheWay
      <4>3. QED
        BY <4>1, <4>2 DEF OnTheWay
    <3>2. QED
      BY <2>1, <2>2, <2>4, <2>5, <2>7, <3>1 DEF Noticing, EmptyNoticed, FullNoticed, Audience
  <2>8. QED
    BY <2>6, <2>7
<1>6. ASSUME UNCHANGED <<presence, seat, route, voice_channel_id>>
      PROVE  /\ OnTheWay' = OnTheWay /\ WayOK'
             /\ Audience(seat)' = Audience(seat)
             /\ Audience(voice_channel_id)' = Audience(voice_channel_id)
             /\ Audience(seat) # Audience(voice_channel_id) => OnTheWay
  BY <1>6 DEF OnTheWay, Noticing, WayOK, Audience
<1>7. CASE Look
  <2>1. /\ events["Dispatched"] > 0
        /\ UNCHANGED <<presence, seat, route, current, hold, voice_channel_id>>
    BY <1>7 DEF Look, vars, session
  <2>2. CASE seat = None
    <3>1. events' = [events EXCEPT !["Dispatched"] = @ - 1]
      BY <1>7, <2>2 DEF Look
    <3>2. ReadOK'
      BY <1>6, <1>n, <2>1, <3>1 DEF Noticing, ReadOK
    <3>3. voice_channel_id # None => OnTheWay'
      BY <1>6, <2>1, <2>2 DEF OnTheWay
    <3>4. QED
      BY <1>6, <2>1, <3>2, <3>3 DEF Noticing, EmptyNoticed, FullNoticed
  <2>3. CASE seat # None /\ Listeners > 0
    <3>1. events' = [events EXCEPT !["Dispatched"] = @ - 1, !["Releasing"] = @ + 1]
      BY <1>7, <2>3 DEF Look
    <3>2. Audience(seat) # {}
      BY <2>3, FS_EmptySet DEF Listeners
    <3>3. ReadOK' /\ events'["Releasing"] > 0
      BY <1>6, <1>n, <2>1, <3>1, <3>2 DEF Noticing, ReadOK
    <3>4. QED
      BY <1>6, <2>1, <3>2, <3>3 DEF Noticing, EmptyNoticed, FullNoticed
  <2>4. CASE seat # None /\ ~(Listeners > 0)
    <3>1. events' = [events EXCEPT !["Dispatched"] = @ - 1, !["Holding"] = @ + 1]
      BY <1>7, <2>4 DEF Look
    <3>2. Audience(seat) = {}
      <4>1. IsFiniteSet(Audience(seat))
        BY FS_Subset, RoomAssumption DEF Audience
      <4>2. QED
        BY <2>4, <4>1, FS_EmptySet, FS_CardinalityType DEF Listeners
    <3>3. ReadOK' /\ events'["Holding"] > 0
      BY <1>6, <1>n, <2>1, <3>1, <3>2 DEF Noticing, ReadOK
    <3>4. QED
      BY <1>6, <2>1, <3>2, <3>3 DEF Noticing, EmptyNoticed, FullNoticed
  <2>5. QED
    BY <2>2, <2>3, <2>4
<1>8. CASE HoldRoom
  <2>1. /\ events["Holding"] > 0 /\ HoldPlayback("Abandoned")
        /\ events' = [events EXCEPT !["Holding"] = @ - 1]
        /\ UNCHANGED <<presence, seat, route, current, voice_channel_id>>
    BY <1>8 DEF HoldRoom, HoldPlayback, Refuse, session
  <2>2. Audience(seat) = {} /\ ReadOK'
    BY <1>6, <1>n, <2>1 DEF Noticing, ReadOK
  <2>3. current' # None => hold' # "None"
    BY <2>1 DEF HoldPlayback, Refuse, session
  <2>4. Audience(voice_channel_id)' # {} => OnTheWay'
    BY <1>6, <2>1, <2>2
  <2>5. QED
    BY <1>6, <2>1, <2>2, <2>3, <2>4 DEF Noticing, EmptyNoticed, FullNoticed
<1>9. CASE ReleaseRoom
  <2>1. /\ events["Releasing"] > 0 /\ ReleasePlayback("OnlyAbandoned")
        /\ events' = [events EXCEPT !["Releasing"] = @ - 1]
        /\ UNCHANGED <<presence, seat, route, current, voice_channel_id>>
    BY <1>9 DEF ReleaseRoom, ReleasePlayback, Refuse, session
  <2>2. Audience(seat) # {} /\ ReadOK'
    BY <1>6, <1>n, <2>1 DEF Noticing, ReadOK
  <2>3. hold' # "Abandoned"
    BY <2>1 DEF ReleasePlayback, session
  <2>4. Audience(voice_channel_id)' = {} => OnTheWay'
    BY <1>6, <2>1, <2>2
  <2>5. QED
    BY <1>6, <2>1, <2>2, <2>3, <2>4 DEF Noticing, EmptyNoticed, FullNoticed
<1>10. ASSUME UNCHANGED <<vars, presence, seat, route, events>>
       PROVE  Noticing'
  BY <1>6, <1>10 DEF Noticing, ReadOK, EmptyNoticed, FullNoticed, vars, session
<1>11. QED
  BY <1>1, <1>2, <1>3, <1>4, <1>5, <1>7, <1>8, <1>9, <1>10
     DEF RoomNext, CommandStep, VoiceStep, Surroundings, Authorize, Check, Count, roomVars,
         around

(* Where handlers take turns, an empty channel is not played to and a      *)
(* return is always noticed, once what there is to notice has been.        *)
THEOREM RoomInTurnCorrect ==
    ASSUME Overlap = {}
    PROVE  RoomSpec => [](EmptyRoomIsHeld /\ ReturnIsNoticed)
<1>1. RoomInit => InTurn /\ Noticing
  <2> SUFFICES ASSUME RoomInit
               PROVE  InTurn /\ Noticing
    OBVIOUS
  <2>1. InTurn
    BY DEF RoomInit, InTurn, AtRest
  <2>2. <<>> \in Seq(VoiceChannels \cup {None})
    BY EmptySeq
  <2>3. QED
    BY <2>1, <2>2
       DEF RoomInit, Init, Noticing, WayOK, ReadOK, EmptyNoticed, FullNoticed, Phases
<1>2. /\ TypeOK /\ TypeOK' /\ NothingOutlivesItsTrack /\ HandlersOK /\ InTurn /\ Noticing
      /\ [RoomNext]_roomVars
      => (InTurn /\ Noticing)'
  BY InTurnStep, NoticingStep
<1>3. TypeOK /\ HandlersOK /\ Noticing => EmptyRoomIsHeld /\ ReturnIsNoticed
  <2> SUFFICES ASSUME TypeOK, Noticing, Settled
               PROVE  /\ Listeners = 0 => hold # "None"
                      /\ hold = "Abandoned" => Listeners = 0
    BY DEF EmptyRoomIsHeld, ReturnIsNoticed
  <2>1. IsFiniteSet(Audience(seat))
    BY FS_Subset, RoomAssumption DEF Audience
  <2>2. Listeners = 0 <=> Audience(voice_channel_id) = {}
    BY <2>1, FS_EmptySet DEF Listeners, Settled
  <2>3. \A phase \in {"Dispatched", "Holding", "Releasing"} : events[phase] = 0
    BY DEF Settled, NoEvents, Phases
  <2>4. ~OnTheWay
    BY EmptySeq DEF OnTheWay, Settled
  <2>5. QED
    BY <2>2, <2>3, <2>4 DEF Noticing, EmptyNoticed, FullNoticed, Settled
<1>4. RoomSpec => []NothingOutlivesItsTrack
  BY RoomImplementsActor, CountdownCorrect, PTL
<1>5. QED
  BY <1>1, <1>2, <1>3, <1>4, RoomInvariant, PTL DEF RoomSpec

-----------------------------------------------------------------------------
(* The room settles.  Nothing wakes a handler but somebody's move and      *)
(* Auxide's own, and Auxide moves only as its way turns: to a channel a    *)
(* command chose, or out of one.  However often tracks end and start, what *)
(* is left of the moves and the commands bounds what may yet be noticed.   *)
Turns(from, way) ==
    {k \in 1..Len(way) : way[k] # IF k = 1 THEN from ELSE way[k - 1]}
Busy == {user \in Users : handlers[user].pc # "Idle"}
Unnoticed == events["Dispatched"] + events["Holding"] + events["Releasing"]
Seated == IF voice_channel_id = None THEN 0 ELSE 1
CountsOK ==
    /\ events \in [Phases -> Nat]
    /\ commands \in 0..MaxCommands
    /\ moves \in 0..MaxMoves
Turning == Cardinality(Turns(seat, route))
Calling == Cardinality(Busy)
Unrest == Turning + Unnoticed + Seated
Settling ==
    /\ WayOK
    /\ CountsOK
    /\ Unrest + moves + 2 * (commands + Calling) <= MaxMoves + 2 * MaxCommands

LEMMA TurnsAreFinite ==
    ASSUME NEW from, NEW way, Len(way) \in Nat
    PROVE  /\ IsFiniteSet(Turns(from, way))
           /\ Cardinality(Turns(from, way)) \in Nat
<1>1. IsFiniteSet(1..Len(way))
  BY FS_Interval
<1>2. Turns(from, way) \in SUBSET (1..Len(way))
  BY DEF Turns
<1>3. QED
  BY <1>1, <1>2, FS_Subset, FS_CardinalityType

(* A way that is continued turns once more only if it goes elsewhere. *)
LEMMA WayTurns ==
    ASSUME TypeOK', WayOK, UNCHANGED seat, Follows, route' = Routed
    PROVE  /\ WayOK'
           /\ Cardinality(Turns(seat', route'))
                 <= Cardinality(Turns(seat, route))
                       + (IF voice_channel_id' = voice_channel_id THEN 0 ELSE 1)
           /\ Cardinality(Turns(seat', route')) \in Nat
<1>0. Len(route) \in Nat /\ route \in Seq(VoiceChannels \cup {None})
  BY LenProperties DEF WayOK
<1> DEFINE old == Turns(seat, route)
           new == Turns(seat', route')
<1>1. IsFiniteSet(old) /\ Cardinality(old) \in Nat
  BY <1>0, TurnsAreFinite
<1>2. WayOK'
  BY WayExtends DEF Follows
<1>3. CASE route' = route /\ voice_channel_id' = voice_channel_id
  <2>1. new = old
    BY <1>3
  <2> HIDE DEF old, new
  <2>2. QED
    BY <1>1, <1>2, <1>3, <2>1 DEF old, new
<1>4. CASE route' = Append(route, voice_channel_id')
  <2> DEFINE last == Len(route) + 1
  <2>1. voice_channel_id' \in VoiceChannels \cup {None}
    BY DEF TypeOK
  <2>2. /\ Len(route') = last
        /\ \A k \in 1..Len(route) : route'[k] = route[k]
        /\ route'[last] = voice_channel_id'
    BY <1>0, <1>4, <2>1, AppendProperties
  <2>3. new \subseteq old \cup {last}
    <3> SUFFICES ASSUME NEW k \in new, k # last
                 PROVE  k \in old
      OBVIOUS
    <3>1. k \in 1..Len(route) /\ (k # 1 => k - 1 \in 1..Len(route))
      BY <1>0, <2>2 DEF Turns
    <3>2. QED
      BY <2>2, <3>1 DEF Turns
  <2>4. last \in new => voice_channel_id' # voice_channel_id
    <3>1. CASE route = <<>>
      <4>1. last = 1 /\ seat = voice_channel_id
        BY <3>1, EmptySeq DEF WayOK
      <4>2. QED
        BY <2>2, <4>1 DEF Turns
    <3>2. CASE route # <<>>
      <4>1. last # 1 /\ last - 1 = Len(route) /\ Len(route) \in 1..Len(route)
        BY <1>0, <3>2, EmptySeq
      <4>2. route'[last - 1] = voice_channel_id
        BY <2>2, <3>2, <4>1 DEF WayOK
      <4>3. QED
        BY <2>2, <4>1, <4>2 DEF Turns
    <3>3. QED
      BY <3>1, <3>2
  <2> HIDE DEF old, new, last
  <2>5. /\ IsFiniteSet(old \cup {last})
        /\ Cardinality(old \cup {last}) <= Cardinality(old) + 1
    BY <1>1, FS_AddElement
  <2>6. CASE last \in new
    <3>1. Cardinality(new) <= Cardinality(old \cup {last}) /\ Cardinality(new) \in Nat
          /\ Cardinality(old \cup {last}) \in Nat
      BY <2>3, <2>5, FS_Subset, FS_CardinalityType
    <3>2. QED
      BY <1>1, <1>2, <2>4, <2>5, <2>6, <3>1 DEF old, new
  <2>7. CASE last \notin new
    <3>1. new \in SUBSET old
      BY <2>3, <2>7
    <3>2. Cardinality(new) <= Cardinality(old) /\ Cardinality(new) \in Nat
      BY <1>1, <3>1, FS_Subset, FS_CardinalityType
    <3>3. QED
      BY <1>1, <1>2, <3>2 DEF old, new
  <2>8. QED
    BY <2>6, <2>7
<1>5. QED
  BY <1>3, <1>4 DEF Follows

(* A seat that is taken leaves a turn behind, or was the seat before. *)
LEMMA SeatTurns ==
    ASSUME WayOK, UNCHANGED voice_channel_id,
           route # <<>>, seat' = Head(route), route' = Tail(route)
    PROVE  /\ WayOK'
           /\ Cardinality(Turns(seat', route')) \in Nat
           /\ Cardinality(Turns(seat', route')) + (IF seat' = seat THEN 0 ELSE 1)
                 <= Cardinality(Turns(seat, route))
<1> DEFINE old == Turns(seat, route)
           new == Turns(seat', route')
           shift == [k \in new |-> k + 1]
<1>1. /\ route' \in Seq(VoiceChannels \cup {None})
      /\ Len(route) \in Nat \ {0} /\ Len(route') = Len(route) - 1
      /\ seat' = route[1]
      /\ \A k \in 1..Len(route') : route'[k] = route[k + 1]
  BY HeadTailProperties, EmptySeq DEF WayOK
<1>2. WayOK'
  <2>1. CASE Len(route) = 1
    <3>1. route' = <<>>
      BY <1>1, <2>1, EmptySeq
    <3>2. QED
      BY <1>1, <2>1, <3>1 DEF WayOK
  <2>2. CASE Len(route) > 1
    <3>1. Len(route') \in 1..Len(route') /\ Len(route') + 1 = Len(route)
      BY <1>1, <2>2
    <3>2. route'[Len(route')] = route[Len(route)] /\ route' # <<>>
      BY <1>1, <3>1, EmptySeq
    <3>3. QED
      BY <1>1, <3>2 DEF WayOK
  <2>3. QED
    BY <1>1, <2>1, <2>2
<1>3. IsFiniteSet(old) /\ IsFiniteSet(new) /\ Cardinality(old) \in Nat /\ Cardinality(new) \in Nat
  BY <1>1, TurnsAreFinite
<1>4. shift \in Injection(new, old \ {1})
  <2>1. ASSUME NEW k \in new
        PROVE  k \in Nat /\ k + 1 \in old \ {1}
    <3>1. k \in 1..Len(route') /\ k + 1 \in 1..Len(route) /\ k + 1 # 1 /\ (k + 1) - 1 = k
      BY <1>1 DEF Turns
    <3>2. route'[k] # IF k = 1 THEN seat' ELSE route'[k - 1]
      BY DEF Turns
    <3>3. route[k + 1] # route[k]
      <4>1. CASE k = 1
        BY <1>1, <3>1, <3>2, <4>1
      <4>2. CASE k # 1
        <5>1. k - 1 \in 1..Len(route') /\ (k - 1) + 1 = k
          BY <3>1, <4>2
        <5>2. route'[k - 1] = route[k] /\ route'[k] = route[k + 1]
          BY <1>1, <3>1, <5>1
        <5>3. QED
          BY <3>2, <4>2, <5>2
      <4>3. QED
        BY <4>1, <4>2
    <3>4. QED
      BY <3>1, <3>3 DEF Turns
  <2>2. \A j, k \in new : j + 1 = k + 1 => j = k
    BY <2>1
  <2> HIDE DEF old, new
  <2>3. shift \in [new -> old \ {1}] /\ \A j, k \in new : shift[j] = shift[k] => j = k
    BY <2>1, <2>2
  <2>4. QED
    BY <2>3 DEF Injection, IsInjective
<1>5. 1 \in old <=> seat' # seat
  BY <1>1 DEF Turns
<1> HIDE DEF old, new, shift
<1>6. /\ IsFiniteSet(old \ {1})
      /\ Cardinality(old \ {1}) = IF 1 \in old THEN Cardinality(old) - 1 ELSE Cardinality(old)
  BY <1>3, FS_RemoveElement
<1>7. Cardinality(new) <= Cardinality(old \ {1})
  BY <1>4, <1>6, FS_Injection
<1>8. Cardinality(new) + (IF seat' = seat THEN 0 ELSE 1) <= Cardinality(old)
  BY <1>3, <1>5, <1>6, <1>7
<1>9. QED
  BY <1>2, <1>3, <1>8 DEF old, new

(* Whoever begins a command is busy with it until it is done. *)
LEMMA BusyChanges ==
    ASSUME HandlersOK, NEW user \in Users, NEW handler,
           handlers' = [handlers EXCEPT ![user] = handler]
    PROVE  /\ Cardinality(Busy) \in Nat /\ Cardinality(Busy') \in Nat
           /\ handlers[user].pc = "Idle" /\ handler.pc # "Idle"
                 => Cardinality(Busy') = Cardinality(Busy) + 1
           /\ handlers[user].pc # "Idle" /\ handler.pc = "Idle"
                 => Cardinality(Busy') = Cardinality(Busy) - 1
           /\ handlers[user].pc # "Idle" /\ handler.pc # "Idle"
                 => Cardinality(Busy') = Cardinality(Busy)
<1>1. \A other \in Users : handlers'[other] = IF other = user THEN handler ELSE handlers[other]
  BY DEF HandlersOK
<1>2. /\ user \in Busy <=> handlers[user].pc # "Idle"
      /\ handler.pc # "Idle" => Busy' = Busy \cup {user}
      /\ handler.pc = "Idle" => Busy' = Busy \ {user}
  BY <1>1 DEF Busy
<1>3. /\ IsFiniteSet(Busy) /\ IsFiniteSet(Busy')
      /\ Cardinality(Busy) \in Nat /\ Cardinality(Busy') \in Nat
  <2>1. Busy \in SUBSET Users /\ Busy' \in SUBSET Users
    BY DEF Busy
  <2>2. QED
    BY <2>1, FS_Subset, FS_CardinalityType, RoomAssumption
<1>4. /\ Cardinality(Busy \cup {user})
            = IF user \in Busy THEN Cardinality(Busy) ELSE Cardinality(Busy) + 1
      /\ Cardinality(Busy \ {user})
            = IF user \in Busy THEN Cardinality(Busy) - 1 ELSE Cardinality(Busy)
  BY <1>3, FS_AddElement, FS_RemoveElement
<1>5. QED
  BY <1>2, <1>3, <1>4

LEMMA SettlingStep ==
    ASSUME TypeOK, TypeOK', HandlersOK, Settling, [RoomNext]_roomVars
    PROVE  Settling'
<1>0. /\ Turning \in Nat /\ Calling \in Nat
      /\ WayOK /\ CountsOK
  <2>1. Turning \in Nat
    BY TurnsAreFinite, LenProperties DEF Settling, WayOK, Turning
  <2>2. IsFiniteSet(Busy)
    BY FS_Subset, RoomAssumption DEF Busy
  <2>3. QED
    BY <2>1, <2>2, FS_CardinalityType DEF Settling, Calling
<1>m. MaxMoves \in Nat /\ MaxCommands \in Nat
  BY RoomAssumption
<1>e. /\ commands \in Nat /\ moves \in Nat
      /\ commands <= MaxCommands /\ moves <= MaxMoves
      /\ Unnoticed \in Nat /\ Seated \in Nat /\ Seated <= 1
      /\ \A phase \in {"Dispatched", "Holding", "Releasing"} : events[phase] \in Nat
  BY <1>0, <1>m DEF CountsOK, Unnoticed, Seated, Phases
(* It is enough that no step adds to the total. *)
<1>f. ASSUME WayOK', CountsOK', Turning' \in Nat, Calling' \in Nat,
             Turning' + Unnoticed' + Seated' + moves' + 2 * (commands' + Calling')
                <= Turning + Unnoticed + Seated + moves + 2 * (commands + Calling)
      PROVE  Settling'
  <2>1. commands' \in Nat /\ moves' \in Nat /\ Unnoticed' \in Nat /\ Seated' \in Nat /\ Seated' <= 1
    BY <1>f, <1>m DEF CountsOK, Unnoticed, Seated, Phases
  <2>2. Unrest + moves + 2 * (commands + Calling) <= MaxMoves + 2 * MaxCommands
    BY DEF Settling
  <2>3. Unrest' + moves' + 2 * (commands' + Calling') <= MaxMoves + 2 * MaxCommands
    BY <1>0, <1>e, <1>f, <1>m, <2>1, <2>2 DEF Unrest, Turning, Calling, Unnoticed, Seated
  <2>4. QED
    BY <1>f, <2>3 DEF Settling
<1>s. ASSUME UNCHANGED <<seat, route, voice_channel_id>>
      PROVE  WayOK' /\ Turning' = Turning /\ Seated' = Seated
  BY <1>0, <1>s DEF WayOK, Turning, Seated
<1>v. UNCHANGED vars => UNCHANGED voice_channel_id
  BY DEF vars, session
<1>h. UNCHANGED handlers => Calling' = Calling
  BY DEF Calling, Busy
<1>c. ASSUME UNCHANGED events, commands' \in 0..MaxCommands, moves' \in 0..MaxMoves
      PROVE  CountsOK' /\ Unnoticed' = Unnoticed
  BY <1>0, <1>c DEF CountsOK, Unnoticed
<1>u. UNCHANGED <<commands, moves>> => commands' \in 0..MaxCommands /\ moves' \in 0..MaxMoves
  BY <1>0 DEF CountsOK
<1>t. ASSUME Follows, route' = Routed, UNCHANGED seat
      PROVE  /\ WayOK' /\ Turning' \in Nat
             /\ Turning' + Seated' <= Turning + Seated + 2
             /\ voice_channel_id' = None => Turning' + Seated' <= Turning + Seated
             /\ UNCHANGED voice_channel_id => Turning' + Seated' <= Turning + Seated
  <2>1. /\ WayOK' /\ Turning' \in Nat
        /\ Turning' <= Turning + (IF voice_channel_id' = voice_channel_id THEN 0 ELSE 1)
    BY <1>0, <1>t, WayTurns DEF Turning
  <2>2. Seated \in Nat /\ Seated <= 1 /\ Seated' \in Nat /\ Seated' <= 1
    BY DEF Seated
  <2>3. voice_channel_id' = None => Turning' + Seated' <= Turning + Seated
    BY <1>0, <2>1 DEF Turning, Seated
  <2>4. voice_channel_id' = voice_channel_id => Turning' + Seated' <= Turning + Seated
    BY <1>0, <2>1 DEF Turning, Seated
  <2>5. QED
    BY <1>0, <2>1, <2>2, <2>3, <2>4 DEF Turning, Seated
<1>1. ASSUME NEW user \in Users, NEW command \in Commands, Authorize(user, command)
      PROVE  Settling'
  <2> DEFINE handler == [AtRest EXCEPT !.pc = IF command \in Guarded THEN "Checking" ELSE "Acting",
                                       !.command = command, !.voice = presence[user]]
  <2>1. /\ handlers' = [handlers EXCEPT ![user] = handler]
        /\ handlers[user].pc = "Idle" /\ commands > 0 /\ commands' = commands - 1
        /\ UNCHANGED <<vars, seat, route, events, moves>>
    BY <1>1 DEF Authorize
  <2>2. handler.pc # "Idle"
    BY DEF AtRest
  <2> HIDE DEF handler
  <2>3. Calling' = Calling + 1
    BY <2>1, <2>2, BusyChanges DEF Calling
  <2>4. commands' \in 0..MaxCommands /\ moves' \in 0..MaxMoves
    BY <1>e, <1>m, <2>1
  <2>5. QED
    BY <1>0, <1>c, <1>e, <1>f, <1>s, <1>v, <2>1, <2>3, <2>4
<1>2. ASSUME NEW user \in Users, NEW handler, handlers[user].pc # "Idle",
             handlers' = [handlers EXCEPT ![user] = handler],
             UNCHANGED <<vars, seat, route, events, commands, moves>>
      PROVE  Settling'
  <2>1. Calling' \in Nat /\ Calling' <= Calling
    <3>1. \/ Cardinality(Busy') = Cardinality(Busy)
          \/ Cardinality(Busy') = Cardinality(Busy) - 1
      BY <1>2, BusyChanges
    <3>2. Cardinality(Busy) \in Nat /\ Cardinality(Busy') \in Nat
      BY <1>2, BusyChanges
    <3>3. QED
      BY <3>1, <3>2 DEF Calling
  <2>2. QED
    BY <1>0, <1>c, <1>e, <1>f, <1>s, <1>u, <1>v, <1>2, <2>1 DEF Turning, Calling, Unnoticed, Seated
<1>3. ASSUME NEW user \in Users, Check(user) \/ Count(user)
      PROVE  Settling'
  <2>1. /\ handlers[user].pc # "Idle"
        /\ \E handler : handlers' = [handlers EXCEPT ![user] = handler]
        /\ UNCHANGED <<vars, seat, route, events, commands, moves>>
    <3>1. CASE Check(user)
      BY <3>1 DEF Check
    <3>2. CASE Count(user)
      <4>1. handlers' = [handlers EXCEPT ![user] =
                            [handlers[user] EXCEPT !.pc = "Acting",
                                                   !.needed = VotesNeeded(ListenerCount)]]
        BY <3>2 DEF Count, HandlersOK
      <4>2. QED
        BY <3>2, <4>1 DEF Count
    <3>3. QED
      BY <1>3, <3>1, <3>2
  <2>2. QED
    BY <1>2, <2>1
<1>4. ASSUME NEW user \in Users, Perform(user)
      PROVE  Settling'
  <2>1. /\ handlers[user].pc # "Idle"
        /\ handlers' = [handlers EXCEPT ![user] = AtRest]
        /\ route' = Routed
        /\ UNCHANGED <<seat, events, commands, moves>>
    BY <1>4 DEF Perform
  <2>2. Calling' \in Nat /\ Calling' = Calling - 1
    <3>1. AtRest.pc = "Idle"
      BY DEF AtRest
    <3>2. Cardinality(Busy') \in Nat /\ Cardinality(Busy') = Cardinality(Busy) - 1
      BY <2>1, <3>1, BusyChanges
    <3>3. QED
      BY <3>2 DEF Calling
  <2>3. Follows
    BY <1>4, PerformAsks, RoutedFollows
  <2>4. WayOK' /\ Turning' \in Nat /\ Turning' + Seated' <= Turning + Seated + 2
    BY <1>t, <2>1, <2>3
  <2>5. CountsOK' /\ Unnoticed' = Unnoticed
    BY <1>c, <1>u, <2>1
  <2>6. Seated' \in Nat /\ Seated' <= 1
    BY DEF Seated
  <2>7. QED
    BY <1>0, <1>e, <1>f, <2>1, <2>2, <2>4, <2>5, <2>6 DEF Turning, Calling, Unnoticed, Seated
<1>5. ASSUME Dispatched, UNCHANGED commands, moves' \in 0..MaxMoves
      PROVE  CountsOK' /\ Unnoticed' = Unnoticed + 1
  <2>1. /\ events' \in [Phases -> Nat]
        /\ events'["Dispatched"] = events["Dispatched"] + 1
        /\ events'["Holding"] = events["Holding"] /\ events'["Releasing"] = events["Releasing"]
    BY <1>0, <1>5 DEF CountsOK, Dispatched, Phases
  <2>2. QED
    BY <1>0, <1>e, <1>5, <2>1 DEF CountsOK, Unnoticed
<1>6. ASSUME NEW user \in Users, Move(user)
      PROVE  Settling'
  <2>1. /\ Dispatched /\ moves > 0 /\ moves' = moves - 1
        /\ UNCHANGED <<vars, seat, route, handlers, commands>>
    BY <1>6 DEF Move
  <2>2. moves' \in 0..MaxMoves
    BY <1>e, <1>m, <2>1
  <2>3. CountsOK' /\ Unnoticed' = Unnoticed + 1
    BY <1>5, <2>1, <2>2
  <2>4. QED
    BY <1>0, <1>e, <1>f, <1>h, <1>s, <1>v, <2>1, <2>3
<1>7. CASE TakeSeat
  <2>1. /\ route # <<>> /\ seat' = Head(route) /\ route' = Tail(route)
        /\ seat' # seat => Dispatched
        /\ seat' = seat => UNCHANGED events
        /\ UNCHANGED <<vars, handlers, commands, moves>>
    BY <1>7 DEF TakeSeat
  <2>2. /\ WayOK' /\ Turning' \in Nat /\ Seated' = Seated
        /\ Turning' + (IF seat' = seat THEN 0 ELSE 1) <= Turning
    BY <1>0, <1>v, <2>1, SeatTurns DEF Turning, Seated
  <2>3. /\ CountsOK'
        /\ Unnoticed' = Unnoticed + (IF seat' = seat THEN 0 ELSE 1)
    BY <1>c, <1>e, <1>u, <1>5, <2>1
  <2>4. QED
    BY <1>0, <1>e, <1>f, <1>h, <2>1, <2>2, <2>3 DEF Turning, Calling, Unnoticed, Seated
<1>8. ASSUME UNCHANGED <<voice_channel_id, seat, route, handlers, commands, moves>>,
             CountsOK', Unnoticed' <= Unnoticed
      PROVE  Settling'
  <2>1. Unnoticed' \in Nat
    BY <1>8 DEF CountsOK, Unnoticed, Phases
  <2>2. QED
    BY <1>0, <1>e, <1>f, <1>h, <1>s, <1>8, <2>1 DEF Turning, Calling, Unnoticed, Seated
<1>9. ASSUME NEW phase \in {"Dispatched", "Holding", "Releasing"}, events[phase] > 0,
             events' = [events EXCEPT ![phase] = @ - 1],
             UNCHANGED <<commands, moves>>
      PROVE  CountsOK' /\ Unnoticed' <= Unnoticed
  BY <1>0, <1>e, <1>9 DEF CountsOK, Unnoticed, Phases
<1>10. CASE Look
  <2>1. events["Dispatched"] > 0
        /\ UNCHANGED <<vars, seat, route, handlers, commands, moves>>
    BY <1>10 DEF Look
  <2>2. CASE seat = None
    BY <1>8, <1>9, <1>10, <1>v, <2>1, <2>2 DEF Look
  <2>3. CASE seat # None
    <3>1. PICK phase \in {"Holding", "Releasing"} :
             events' = [events EXCEPT !["Dispatched"] = @ - 1, ![phase] = @ + 1]
      BY <1>10, <2>3 DEF Look
    <3>2. CountsOK' /\ Unnoticed' = Unnoticed
      BY <1>0, <1>e, <2>1, <3>1 DEF CountsOK, Unnoticed, Phases
    <3>3. QED
      BY <1>8, <1>e, <1>v, <2>1, <3>2
  <2>4. QED
    BY <2>2, <2>3
<1>11. CASE HoldRoom \/ ReleaseRoom
  <2>1. UNCHANGED <<voice_channel_id, seat, route, handlers, commands, moves>>
    BY <1>11 DEF HoldRoom, ReleaseRoom, HoldPlayback, ReleasePlayback, Refuse, session
  <2>2. PICK phase \in {"Holding", "Releasing"} :
           events[phase] > 0 /\ events' = [events EXCEPT ![phase] = @ - 1]
    BY <1>11 DEF HoldRoom, ReleaseRoom
  <2>3. QED
    BY <1>8, <1>9, <2>1, <2>2
<1>12. CASE TrackEnds \/ TimeOut
  <2>1. /\ route' = Routed
        /\ UNCHANGED <<seat, handlers, events, commands, moves>>
        /\ voice_channel_id' = None \/ UNCHANGED voice_channel_id
    BY <1>12 DEF TrackEnds, TrackFinished, Advance, TimeOut, IdleTimeout, ClearSession, session
  <2>2. Follows
    <3>1. CASE TrackEnds
      <4>1. /\ current # None
            /\ TrackFinished(current, "Finished") \/ TrackFinished(current, "Failed")
        BY <3>1 DEF TrackEnds
      <4>2. current \in Items
        BY <4>1 DEF TypeOK
      <4>3. QED
        BY <4>1, <4>2, RoutedFollows DEF Completing, Departure
    <3>2. CASE TimeOut
      BY <3>2, RoutedFollows DEF TimeOut
    <3>3. QED
      BY <1>12, <3>1, <3>2
  <2>3. WayOK' /\ Turning' \in Nat /\ Turning' + Seated' <= Turning + Seated
    BY <1>t, <2>1, <2>2
  <2>4. CountsOK' /\ Unnoticed' = Unnoticed /\ Seated' \in Nat /\ Seated' <= 1
    BY <1>c, <1>u, <2>1 DEF Seated
  <2>5. QED
    BY <1>0, <1>e, <1>f, <1>h, <2>1, <2>3, <2>4 DEF Turning, Calling, Unnoticed, Seated
<1>13. CASE UNCHANGED roomVars
  <2>1. UNCHANGED <<vars, seat, route, handlers, events, commands, moves>>
    BY <1>13 DEF roomVars, around
  <2>2. QED
    BY <1>8, <1>c, <1>e, <1>u, <1>v, <2>1
<1>14. QED
  BY <1>1, <1>3, <1>4, <1>6, <1>7, <1>10, <1>11, <1>12, <1>13
     DEF RoomNext, CommandStep, VoiceStep, Surroundings

(* Auxide sits where its way led it, and asks for no more votes than there *)
(* are people.                                                             *)
SeatsAndBallots ==
    /\ seat \in VoiceChannels \cup {None}
    /\ \A user \in Users : handlers[user].needed \in 0..Cardinality(Users)

LEMMA SeatsAndBallotsStep ==
    ASSUME HandlersOK, WayOK, SeatsAndBallots, [RoomNext]_roomVars
    PROVE  SeatsAndBallots'
<1>1. ASSUME NEW user \in Users, NEW handler,
             handlers' = [handlers EXCEPT ![user] = handler],
             handler.needed \in 0..Cardinality(Users), UNCHANGED seat
      PROVE  SeatsAndBallots'
  BY <1>1 DEF SeatsAndBallots, HandlersOK
<1>2. AtRest.needed \in 0..Cardinality(Users)
  BY FS_CardinalityType, RoomAssumption DEF AtRest
<1>3. ASSUME NEW user \in Users, NEW command \in Commands, Authorize(user, command)
      PROVE  SeatsAndBallots'
  <2> DEFINE handler == [AtRest EXCEPT !.pc = IF command \in Guarded THEN "Checking" ELSE "Acting",
                                       !.command = command, !.voice = presence[user]]
  <2>1. handlers' = [handlers EXCEPT ![user] = handler] /\ UNCHANGED seat
    BY <1>3 DEF Authorize
  <2>2. handler.needed \in 0..Cardinality(Users)
    BY <1>2 DEF AtRest
  <2> HIDE DEF handler
  <2>3. QED
    BY <1>1, <2>1, <2>2
<1>4. ASSUME NEW user \in Users, Check(user)
      PROVE  SeatsAndBallots'
  <2> DEFINE onwards == [handlers[user] EXCEPT
                            !.pc = IF handlers[user].command = "Skip" THEN "Counting" ELSE "Acting"]
  <2>1. UNCHANGED seat
        /\ \/ handlers' = [handlers EXCEPT ![user] = AtRest]
           \/ handlers' = [handlers EXCEPT ![user] = onwards]
    BY <1>4 DEF Check, HandlersOK
  <2>2. onwards.needed \in 0..Cardinality(Users)
    BY DEF HandlersOK, SeatsAndBallots
  <2> HIDE DEF onwards
  <2>3. QED
    BY <1>1, <1>2, <2>1, <2>2
<1>5. ASSUME NEW user \in Users, Count(user)
      PROVE  SeatsAndBallots'
  <2> DEFINE counted == [handlers[user] EXCEPT !.pc = "Acting",
                                               !.needed = VotesNeeded(ListenerCount)]
  <2>1. handlers' = [handlers EXCEPT ![user] = counted] /\ UNCHANGED seat
    BY <1>5 DEF Count, HandlersOK
  <2>2. VotesNeeded(ListenerCount) \in 0..Cardinality(Users)
    BY VotesNeededBounds, FS_CardinalityType, RoomAssumption
  <2>3. counted.needed \in 0..Cardinality(Users)
    BY <2>2 DEF HandlersOK
  <2> HIDE DEF counted
  <2>4. QED
    BY <1>1, <2>1, <2>3
<1>6. ASSUME NEW user \in Users, Perform(user)
      PROVE  SeatsAndBallots'
  BY <1>1, <1>2, <1>6 DEF Perform
<1>7. CASE TakeSeat
  <2>1. Head(route) \in VoiceChannels \cup {None}
    BY <1>7, HeadTailProperties DEF TakeSeat, WayOK
  <2>2. QED
    BY <1>7, <2>1 DEF TakeSeat, SeatsAndBallots
<1>8. CASE UNCHANGED <<seat, handlers>>
  BY <1>8 DEF SeatsAndBallots
<1>9. QED
  BY <1>3, <1>4, <1>5, <1>6, <1>7, <1>8
     DEF RoomNext, CommandStep, VoiceStep, Surroundings, Look, HoldRoom, ReleaseRoom,
         TrackEnds, TimeOut, Move, roomVars, around

(* The room's variables keep their types and their bounds: however its     *)
(* handlers overlap, no more voice state handlers wait than there were     *)
(* moves, and commands that move Auxide in and out again.                  *)
THEOREM RoomTypeCorrect == RoomSpec => []RoomTypeOK
<1>1. RoomInit => Settling /\ SeatsAndBallots
  <2> SUFFICES ASSUME RoomInit
               PROVE  Settling /\ SeatsAndBallots
    OBVIOUS
  <2>1. Turning = 0 /\ Calling = 0
    <3>1. Turns(seat, route) = {}
      BY EmptySeq DEF RoomInit, Turns
    <3>2. Busy = {}
      BY DEF RoomInit, Busy, AtRest
    <3>3. QED
      BY <3>1, <3>2, FS_EmptySet DEF Turning, Calling
  <2>2. /\ Unnoticed = 0 /\ Seated = 0
        /\ commands = MaxCommands /\ moves = MaxMoves
        /\ CountsOK
    BY RoomAssumption DEF RoomInit, Init, Unnoticed, Seated, CountsOK, Phases
  <2>3. WayOK
    BY EmptySeq DEF RoomInit, Init, WayOK
  <2>4. Unrest + moves + 2 * (commands + Calling) <= MaxMoves + 2 * MaxCommands
    BY <2>1, <2>2, RoomAssumption DEF Unrest
  <2>5. SeatsAndBallots
    BY FS_CardinalityType, RoomAssumption DEF RoomInit, SeatsAndBallots, AtRest
  <2>6. QED
    BY <2>2, <2>3, <2>4, <2>5 DEF Settling
<1>2. /\ TypeOK /\ TypeOK' /\ HandlersOK /\ Settling /\ SeatsAndBallots /\ [RoomNext]_roomVars
      => (Settling /\ SeatsAndBallots)'
  BY SettlingStep, SeatsAndBallotsStep DEF Settling
<1>3. TypeOK /\ HandlersOK /\ Settling /\ SeatsAndBallots => RoomTypeOK
  <2> SUFFICES ASSUME TypeOK, HandlersOK, Settling, SeatsAndBallots
               PROVE  RoomTypeOK
    OBVIOUS
  <2> DEFINE most == MaxMoves + 2 * MaxCommands
  <2>1. Turning \in Nat /\ Calling \in Nat
    <3>1. IsFiniteSet(Busy)
      BY FS_Subset, RoomAssumption DEF Busy
    <3>2. QED
      BY <3>1, TurnsAreFinite, LenProperties, FS_CardinalityType
         DEF Settling, WayOK, Turning, Calling
  <2>2. /\ CountsOK /\ route \in Seq(VoiceChannels \cup {None})
        /\ Turning + Unnoticed + Seated + moves + 2 * (commands + Calling) <= most
    BY DEF Settling, WayOK, Unrest
  <2>3. /\ \A phase \in Phases : events[phase] \in Nat
        /\ commands \in Nat /\ moves \in Nat /\ Seated \in Nat /\ most \in Nat
    BY <2>2, RoomAssumption DEF CountsOK, Seated
  <2> HIDE DEF most
  <2>4. events["Dispatched"] \in 0..most /\ events["Holding"] \in 0..most
        /\ events["Releasing"] \in 0..most
    <3>1. \A phase \in {"Dispatched", "Holding", "Releasing"} : events[phase] \in Nat
      BY <2>3 DEF Phases
    <3>2. Unnoticed \in Nat
      BY <3>1 DEF Unnoticed
    <3>3. Unnoticed <= most
      BY <2>1, <2>2, <2>3, <3>2
    <3>4. QED
      BY <2>3, <3>1, <3>3 DEF Unnoticed
  <2>5. events \in [Phases -> 0..most]
    BY <2>2, <2>4 DEF CountsOK, Phases
  <2>6. handlers \in [Users -> [pc: {"Idle", "Checking", "Counting", "Acting"},
                                command: Commands \cup {None},
                                voice: VoiceChannels \cup {None},
                                needed: 0..Cardinality(Users)]]
    <3>1. ASSUME NEW user \in Users
          PROVE  handlers[user] \in [pc: {"Idle", "Checking", "Counting", "Acting"},
                                     command: Commands \cup {None},
                                     voice: VoiceChannels \cup {None},
                                     needed: 0..Cardinality(Users)]
      BY DEF HandlersOK, SeatsAndBallots
    <3>2. QED
      BY <3>1 DEF HandlersOK
  <2>7. \A user \in Users :
           handlers[user].pc = "Acting" /\ handlers[user].command = "Skip"
              => handlers[user].needed > 0
    BY FS_CardinalityType, RoomAssumption DEF HandlersOK
  <2>8. QED
    BY <2>2, <2>5, <2>6, <2>7 DEF RoomTypeOK, CountsOK, HandlersOK, SeatsAndBallots, most
<1>4. QED
  BY <1>1, <1>2, <1>3, RoomInvariant, PTL DEF RoomSpec

=============================================================================
