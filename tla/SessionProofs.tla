---------------------------- MODULE SessionProofs ----------------------------
(***************************************************************************)
(* Theorems about PlaybackSession.  The mailbox, the transitions, the      *)
(* worker and the gateway keep their types and bounds, and what they add   *)
(* to the actor leaves it the actor GuildPlayer describes: the theorems    *)
(* about its queue and its countdown hold behind the two bounded queues.   *)
(***************************************************************************)
EXTENDS PlaybackSession, GuildPlayerProofs

MailboxCommand ==
    [kind: Requests \cup Outcome \cup {"Snapshot", "Park", "Shutdown"},
     item: Items \cup {None}, channel: VoiceChannels \cup {None},
     sender: {"Client", "Completion", "Worker", "Runtime"}]

(* A command says what its kind needs: what it adds is new to the session, *)
(* and a completion is about some track.                                   *)
Addressed(command) ==
    /\ command.kind = "Enqueue" => command.item \in Fresh /\ command.channel \in VoiceChannels
    /\ command.kind = "Join" => command.channel \in VoiceChannels
    /\ command.kind \in Outcome => command.item \in Items

(* A transition that starts a track names it, and one that joins a channel *)
(* names that.                                                             *)
Aimed(transition) ==
    /\ transition.directive \in Starting => transition.target \in Items
    /\ transition.directive = "Join" => transition.target \in VoiceChannels
AimedTransition == {transition \in CarriedTransition : Aimed(transition)}

MailboxOK ==
    /\ mailbox \in Seq(MailboxCommand) /\ Len(mailbox) <= MailboxCapacity
    /\ \A k \in 1..Len(mailbox) : Addressed(mailbox[k])
    /\ \A j, k \in 1..Len(mailbox) :
          /\ mailbox[j].kind = "Enqueue" /\ mailbox[k].kind = "Enqueue"
          /\ mailbox[j].item = mailbox[k].item
          => j = k
TransitionsOK == transitions \in Seq(AimedTransition) /\ Len(transitions) <= MailboxCapacity

(* A worker that prepares, plays or asks about a track has one in hand. *)
WorkerOK ==
    /\ worker \in [pc: {"Receiving", "Preparing", "Asking", "Awaiting", "Joining", "Connecting",
                        "Left", "Aborted"},
                   asks: {"Snapshot", "Failed", "Park"},
                   item: Items \cup {None}, channel: VoiceChannels \cup {None},
                   volume: 1..MaxVolume, deferred: Seq(AimedTransition)]
    /\ worker.pc \in {"Preparing", "Connecting"} => worker.item \in Items
    /\ worker.pc \in {"Asking", "Awaiting"} /\ worker.asks # "Park" => worker.item \in Items
StageOK ==
    /\ stage \in [channel: VoiceChannels \cup {None}, track: Items \cup {None},
                  driver: {"Silent", "Playing", "Paused", "Ended"}, volume: 1..MaxVolume]
    /\ stage.driver # "Silent" => stage.track \in Items
CompletionsOK == completions \in [Items \X Outcome -> 0..MaxCompletions]
RuntimeOK ==
    /\ serving \in {"Nobody", "Timer", "Client", "Completion", "Worker", "Runtime"}
    /\ runtime \in {"Serving", "Signalled", "Stopping", "Cancelled"}
    /\ requests \in 0..MaxRequests

ActorOK == TypeOK /\ QueueIsSound /\ Countdown /\ Aimed(emitted)
IInv ==
    /\ ActorOK /\ MailboxOK /\ TransitionsOK /\ WorkerOK /\ StageOK /\ CompletionsOK /\ RuntimeOK

LEMMA InitIInv == SessionInit => IInv
<1> SUFFICES ASSUME SessionInit
             PROVE  IInv
  OBVIOUS
<1>1. TypeOK
  BY InitType DEF SessionInit
<1>2. QueueIsSound
  <2>1. IsInjective(<<>>) /\ Range(<<>>) = {} /\ Len(<<>>) = 0
    BY DEF IsInjective, Range
  <2>2. QED
    BY <2>1, ConstantsAssumption DEF SessionInit, Init, QueueIsSound, Length
<1>3. Countdown
  BY DEF SessionInit, Init, Countdown, NothingOutlivesItsTrack, SilentChannelIsCountedDown,
         PlayingIsNotCountedDown, Silent
<1>4. Aimed(emitted)
  BY DirectiveOf DEF SessionInit, Init, Aimed, Starting
<1>5. MailboxOK /\ TransitionsOK
  <2>1. Len(<<>>) = 0
    OBVIOUS
  <2>2. QED
    BY <2>1, SessionAssumption DEF SessionInit, MailboxOK, TransitionsOK
<1>6. WorkerOK /\ StageOK
  BY ConstantsAssumption DEF SessionInit, WorkerOK, StageOK, Resting, Silence
<1>7. CompletionsOK /\ RuntimeOK
  BY SessionAssumption DEF SessionInit, CompletionsOK, RuntimeOK
<1>8. QED
  BY <1>1, <1>2, <1>3, <1>4, <1>5, <1>6, <1>7 DEF IInv, ActorOK

-----------------------------------------------------------------------------
(* What the actor does with a command off its mailbox.                     *)

(* It is a request GuildPlayer allows, or a question that changes nothing. *)
LEMMA HandleIsCommand ==
    ASSUME NEW command, Addressed(command), Handle(command)
    PROVE  \/ command.kind = "Enqueue" /\ Enqueue(command.item, command.channel)
           \/ Editing \/ Controlling \/ Completing \/ Shutdown
           \/ Accept(Transition("None")) /\ UNCHANGED session
<1>1. CASE command.kind = "SetVolume" /\ \E percent \in 1..MaxVolume : SetVolume(percent)
  <2>1. 1..MaxVolume \subseteq 0..(MaxVolume + 1)
    BY ConstantsAssumption
  <2>2. QED
    BY <1>1, <2>1 DEF Controlling, Skipping
<1>2. CASE command.kind = "Repeat" /\ \E mode \in {"Single", "All"} : SetRepeat(mode)
  BY <1>2 DEF Editing, RepeatMode
<1>3. CASE command.kind \in Outcome /\ TrackFinished(command.item, command.kind)
  BY <1>3 DEF Completing, Addressed, Outcome, Departure
<1>4. CASE \/ command.kind = "Skip" /\ Skip
           \/ command.kind = "Stop" /\ Stop
           \/ command.kind = "Pause" /\ HoldPlayback("Requested")
           \/ command.kind = "Abandon" /\ HoldPlayback("Abandoned")
           \/ command.kind = "Resume" /\ ReleasePlayback("Anything")
           \/ command.kind = "Return" /\ ReleasePlayback("OnlyAbandoned")
           \/ command.kind = "Park" /\ Park
           \/ command.kind = "Join" /\ Join(command.channel)
  BY <1>4 DEF Controlling, Skipping, Hold, Release, Addressed
<1>5. QED
  BY <1>1, <1>2, <1>3, <1>4 DEF Handle

LEMMA HandleIsNext ==
    ASSUME running, NEW command, Addressed(command), Handle(command)
    PROVE  Next \/ (Accept(Transition("None")) /\ UNCHANGED session)
<1>1. CASE command.kind = "Enqueue" /\ Enqueue(command.item, command.channel)
  BY <1>1 DEF Addressed, Requesting, Command, Next
<1>2. QED
  BY <1>1, HandleIsCommand DEF Command, Next

(* A step of GuildPlayer, or one that changes no more than the answer that *)
(* is on its way and whether the actor runs.                               *)
OnlyAnswers ==
    /\ UNCHANGED <<current, pending, voice_channel_id, text_channel_id, hold, votes, history,
                   repeat, shuffle, volume_percent, idle_deadline>>
    /\ running' \in BOOLEAN
    /\ emitted' = Transition("None")
    /\ reply' = "Ok"

LEMMA ActorStep ==
    ASSUME TypeOK, QueueIsSound, Countdown, [Next]_vars \/ OnlyAnswers
    PROVE  TypeOK' /\ QueueIsSound' /\ Countdown'
<1>1. CASE [Next]_vars
  BY <1>1, TypeStep, QueueStep, CountdownStep
<1>2. CASE OnlyAnswers
  <2>1. Transition("None") \in PlayerTransition
    BY TransitionType DEF PlaybackDirective
  <2>2. TypeOK'
    BY <1>2, <2>1 DEF OnlyAnswers, TypeOK
  <2>3. QueueIsSound'
    BY <1>2 DEF OnlyAnswers, QueueIsSound, Length
  <2>4. Countdown'
    BY <1>2 DEF OnlyAnswers, Countdown, NothingOutlivesItsTrack, SilentChannelIsCountedDown,
                PlayingIsNotCountedDown, Silent
  <2>5. QED
    BY <2>2, <2>3, <2>4
<1>3. QED
  BY <1>1, <1>2

(* What a command sends the worker has the target its directive needs. *)
LEMMA PlainIsAimed ==
    ASSUME NEW directive, directive \notin Starting \cup {"Join"}
    PROVE  Aimed(Transition(directive))
BY DirectiveOf DEF Aimed

LEMMA TransitionToFields ==
    ASSUME NEW directive, NEW target
    PROVE  /\ TransitionTo(directive, target).directive = directive
           /\ TransitionTo(directive, target).target = target
           /\ Answered(target).directive = "Play"
           /\ Answered(target).target = target
BY DEF Transition, TransitionTo, Answered

LEMMA StartIsAimed ==
    ASSUME NEW item \in Items, NEW start \in Starting
    PROVE  Aimed(TransitionTo(start, item)) /\ Aimed(Answered(item))
BY TransitionToFields DEF Aimed, Starting

LEMMA RefusalIsAimed ==
    ASSUME NEW error, Refuse(error)
    PROVE  Aimed(emitted')
BY PlainIsAimed DEF Refuse, Starting

LEMMA AdvanceIsAimed ==
    ASSUME TypeOK', NEW left, NEW reason, NEW start \in Starting, Advance(left, reason, start)
    PROVE  Aimed(emitted')
<1>1. current' \in Items \cup {None}
  BY DEF TypeOK
<1>2. CASE current' = None
  BY <1>2, PlainIsAimed DEF Advance, Accept, Starting
<1>3. CASE current' # None
  BY <1>1, <1>3, StartIsAimed DEF Advance, Accept
<1>4. QED
  BY <1>2, <1>3

LEMMA HandleIsAimed ==
    ASSUME TypeOK, TypeOK', NEW command, Addressed(command), Handle(command)
    PROVE  Aimed(emitted')
<1>n. Aimed(Transition("None"))
  BY PlainIsAimed DEF Starting
<1>a. ASSUME NEW left, NEW reason, NEW start \in {"Play", "Replace"},
             Advance(left, reason, start)
      PROVE  Aimed(emitted')
  BY <1>a, AdvanceIsAimed DEF Starting
<1>1. CASE command.kind = "Enqueue" /\ Enqueue(command.item, command.channel)
  <2>1. CASE /\ Add(<<command.item>>, command.channel)
             /\ Accept(IF StartsPlayback THEN Answered(current') ELSE Transition("None"))
    <3>1. CASE StartsPlayback
      <4>1. current' \in Items
        <5>1. command.item \in Items
          BY <1>1 DEF Addressed, Fresh
        <5>2. current = None => current' = command.item
          BY <2>1 DEF Add, Begin
        <5>3. current # None => current' = current
          BY <2>1 DEF Add, Wake, Wait
        <5>4. QED
          BY <5>1, <5>2, <5>3 DEF TypeOK
      <4>2. emitted' = Answered(current')
        BY <2>1, <3>1 DEF Accept
      <4>3. "Play" \in Starting
        BY DEF Starting
      <4>4. QED
        BY <4>1, <4>2, <4>3, StartIsAimed
    <3>2. CASE ~StartsPlayback
      BY <1>n, <2>1, <3>2 DEF Accept
    <3>3. QED
      BY <3>1, <3>2
  <2>2. QED
    BY <1>1, <2>1, RefusalIsAimed DEF Enqueue
<1>2. CASE Skip \/ \E item, reason : TrackFinished(item, reason)
  BY <1>n, <1>a, <1>2 DEF Skip, TrackFinished, Accept
<1>3. CASE Stop \/ Shutdown
  BY <1>3, PlainIsAimed DEF Stop, Shutdown, StopDirective, Accept, Starting
<1>4. CASE \E reason : HoldPlayback(reason)
  BY <1>4, RefusalIsAimed, PlainIsAimed DEF HoldPlayback, Accept, Starting
<1>5. CASE \E scope : ReleasePlayback(scope)
  BY <1>n, <1>5, RefusalIsAimed, PlainIsAimed DEF ReleasePlayback, Accept, Starting
<1>6. CASE Park
  BY <1>6, RefusalIsAimed, PlainIsAimed DEF Park, Accept, Starting
<1>7. CASE command.kind = "Join" /\ Join(command.channel)
  <2>1. command.channel \in VoiceChannels
    BY <1>7 DEF Addressed
  <2>2. Aimed(TransitionTo("Join", command.channel))
    BY <2>1, TransitionToFields DEF Aimed, Starting
  <2>3. current # None => Aimed(Answered(current))
    BY StartIsAimed DEF TypeOK, Starting
  <2>4. QED
    BY <1>7, <2>2, <2>3, RefusalIsAimed DEF Join, Accept
<1>8. CASE \E percent : SetVolume(percent)
  BY <1>8, RefusalIsAimed, PlainIsAimed DEF SetVolume, Accept, Starting
<1>9. CASE \E mode : SetRepeat(mode)
  BY <1>n, <1>9 DEF SetRepeat, Accept
<1>10. CASE Accept(Transition("None"))
  BY <1>n, <1>10 DEF Accept
<1>11. QED
  BY <1>1, <1>2, <1>3, <1>4, <1>5, <1>6, <1>7, <1>8, <1>9, <1>10 DEF Handle

-----------------------------------------------------------------------------
(* What the session has a record of: nothing becomes known to it but what  *)
(* a request added.                                                        *)
LEMMA RememberRange ==
    ASSUME history \in Seq(Items), NEW item \in Items
    PROVE  Range(Remember(item)) \subseteq Range(history) \cup {item}
<1> DEFINE kept == IF Len(history) = HistoryLength THEN Tail(history) ELSE history
<1>1. CASE Remember(item) = history
  BY <1>1
<1>2. CASE Remember(item) = Append(kept, item) /\ (kept = history \/ history # <<>>)
  <2>1. kept \in Seq(Items) /\ Range(kept) \subseteq Range(history)
    <3>1. CASE kept = history
      BY <3>1
    <3>2. CASE kept = Tail(history) /\ history # <<>>
      <4>1. /\ Tail(history) \in Seq(Items) /\ Len(Tail(history)) = Len(history) - 1
            /\ \A k \in 1..Len(Tail(history)) : Tail(history)[k] = history[k + 1]
        BY <3>2, HeadTailProperties
      <4>2. /\ DOMAIN history = 1..Len(history) /\ Len(history) \in Nat
            /\ DOMAIN Tail(history) = 1..Len(Tail(history))
        BY <4>1, LenProperties
      <4>3. Range(Tail(history)) \subseteq Range(history)
        BY <4>1, <4>2 DEF Range
      <4>4. QED
        BY <3>2, <4>1, <4>3
    <3>3. QED
      BY <1>2, <3>1, <3>2
  <2> HIDE DEF kept
  <2>2. Append(kept, item) = kept \o <<item>>
    BY <2>1, AppendIsConcat
  <2>3. Range(<<item>>) = {item}
    BY DEF Range
  <2>4. Range(kept \o <<item>>) = Range(kept) \cup Range(<<item>>)
    <3>1. <<item>> \in Seq(Items)
      OBVIOUS
    <3>2. QED
      BY <2>1, <3>1, RangeConcatenation
  <2>5. QED
    BY <1>2, <2>1, <2>2, <2>3, <2>4
<1>3. Len(history) = HistoryLength => history # <<>>
  BY ConstantsAssumption, EmptySeq
<1>4. QED
  BY <1>1, <1>2, <1>3 DEF Remember

LEMMA HistoryRemembers ==
    ASSUME TypeOK, Next
    PROVE  Range(history') \subseteq Range(history) \cup ({current} \ {None})
<1>1. CASE history' = history
  BY <1>1
<1>2. CASE TrackLeaves
  <2>1. current \in Items /\ history \in Seq(Items) /\ current # None
    BY <1>2 DEF TypeOK, TrackLeaves, MovesOff
  <2>2. history' = history \/ history' = Remember(current)
    BY <1>2 DEF TrackLeaves, MovesOff, Advance, Filed
  <2>3. QED
    BY <2>1, <2>2, RememberRange
<1>3. QED
  BY <1>1, <1>2, NextMoves DEF PlaysOn, SessionEnds

(* What a command may make the session remember. *)
Added(command) == IF command.kind = "Enqueue" THEN {command.item} ELSE {}

LEMMA HeldRemembers ==
    ASSUME OnlyWithdraws \/ (current # None /\ GivesWay) \/ ClearSession
    PROVE  Range(pending') \cup {current'} \subseteq Range(pending) \cup {current, None}
<1>1. Range(<<>>) = {}
  BY DEF Range
<1>2. QED
  BY <1>1 DEF OnlyWithdraws, GivesWay, ClearSession

LEMMA HandleRemembers ==
    ASSUME TypeOK, QueueIsSound, running, NEW command, Addressed(command), Handle(command)
    PROVE  Remembered' \subseteq Remembered \cup Added(command)
<1>1. CASE UNCHANGED session
  BY <1>1 DEF session, Remembered
<1>2. CASE command.kind = "Enqueue" /\ Enqueue(command.item, command.channel)
           /\ TakesIn({command.item})
  <2>1. Range(history') \subseteq Range(history) \cup ({current} \ {None})
    BY <1>2, HistoryRemembers DEF Addressed, Requesting, Command, Next
  <2>2. Range(pending') \cup {current'} \subseteq Range(pending) \cup {current, command.item}
    BY <1>2 DEF TakesIn
  <2>3. QED
    BY <1>2, <2>1, <2>2 DEF Remembered, Added
<1>3. CASE Editing \/ Controlling \/ Completing \/ Shutdown
  <2>1. Range(history') \subseteq Range(history) \cup ({current} \ {None})
    BY <1>3, HistoryRemembers DEF Command, Next
  <2>2. Range(pending') \cup {current'} \subseteq Range(pending) \cup {current, None}
    BY <1>3, OthersHold, HeldRemembers
  <2>3. QED
    BY <2>1, <2>2 DEF Remembered
<1>4. QED
  BY <1>1, <1>2, <1>3, HandleIsCommand, EnqueueQueue DEF Addressed

-----------------------------------------------------------------------------
(* The two bounded queues.                                                 *)

LEMMA AppendOne ==
    ASSUME NEW S, NEW s \in Seq(S), NEW e \in S, NEW bound \in Nat, Len(s) < bound
    PROVE  /\ Append(s, e) \in Seq(S)
           /\ Len(Append(s, e)) = Len(s) + 1
           /\ Len(Append(s, e)) <= bound
           /\ \A k \in 1..Len(s) : Append(s, e)[k] = s[k]
           /\ Append(s, e)[Len(s) + 1] = e
<1>1. Len(s) \in Nat
  BY LenProperties
<1>2. QED
  BY <1>1, AppendProperties

LEMMA TakeOne ==
    ASSUME NEW S, NEW s \in Seq(S), s # <<>>, NEW bound \in Nat, Len(s) <= bound
    PROVE  /\ Head(s) \in S
           /\ Head(s) = s[1]
           /\ 1 \in 1..Len(s)
           /\ Tail(s) \in Seq(S)
           /\ Len(Tail(s)) <= bound
           /\ \A k \in 1..Len(Tail(s)) : k + 1 \in 1..Len(s) /\ Tail(s)[k] = s[k + 1]
<1>1. /\ Tail(s) \in Seq(S)
      /\ Len(Tail(s)) = Len(s) - 1
      /\ \A k \in 1..Len(Tail(s)) : Tail(s)[k] = s[k + 1]
  BY HeadTailProperties
<1>2. Len(s) \in Nat \ {0} /\ Head(s) = s[1]
  BY LenProperties, EmptySeq
<1>3. s[1] \in S
  BY <1>2, ElementOfSeq
<1>4. Len(Tail(s)) <= bound /\ \A k \in 1..Len(Tail(s)) : k + 1 \in 1..Len(s)
  BY <1>1, <1>2
<1>5. QED
  BY <1>1, <1>2, <1>3, <1>4

LEMMA MailboxUndisturbed ==
    ASSUME MailboxOK, UNCHANGED mailbox, Remembered' \subseteq Remembered
    PROVE  MailboxOK'
BY DEF MailboxOK, Addressed, Fresh

(* A command that is sent is new to the mailbox too. *)
LEMMA SendKeepsMailbox ==
    ASSUME MailboxOK, NEW command \in MailboxCommand, Addressed(command),
           command.kind = "Enqueue" => \A k \in 1..Len(mailbox) : mailbox[k].item # command.item,
           Send(command), Remembered' = Remembered
    PROVE  MailboxOK'
<1>0. MailboxCapacity \in Nat /\ Len(mailbox) \in Nat
  BY SessionAssumption, LenProperties DEF MailboxOK
<1>1. /\ mailbox' \in Seq(MailboxCommand)
      /\ Len(mailbox') = Len(mailbox) + 1
      /\ Len(mailbox') <= MailboxCapacity
      /\ \A k \in 1..Len(mailbox) : mailbox'[k] = mailbox[k]
      /\ mailbox'[Len(mailbox) + 1] = command
  BY <1>0, AppendOne DEF MailboxOK, Send
<1>2. \A k \in 1..Len(mailbox') : k \in 1..Len(mailbox) \/ k = Len(mailbox) + 1
  BY <1>0, <1>1
<1>3. \A k \in 1..Len(mailbox') : Addressed(mailbox'[k])
  BY <1>1, <1>2 DEF MailboxOK
<1>4. (\A k \in 1..Len(mailbox) : Addressed(mailbox[k]))'
  BY <1>3 DEF Addressed, Fresh
<1>5. ASSUME NEW j \in 1..Len(mailbox'), NEW k \in 1..Len(mailbox'),
             mailbox'[j].kind = "Enqueue", mailbox'[k].kind = "Enqueue",
             mailbox'[j].item = mailbox'[k].item
      PROVE  j = k
  BY <1>1, <1>2, <1>5 DEF MailboxOK
<1>6. QED
  BY <1>1, <1>4, <1>5 DEF MailboxOK

(* The command that is taken is the only one to name what it adds. *)
LEMMA TakeKeepsMailbox ==
    ASSUME MailboxOK, mailbox # <<>>, mailbox' = Tail(mailbox),
           Remembered' \subseteq Remembered \cup Added(Head(mailbox))
    PROVE  MailboxOK'
<1>0. MailboxCapacity \in Nat
  BY SessionAssumption
<1>1. /\ Head(mailbox) = mailbox[1] /\ 1 \in 1..Len(mailbox)
      /\ mailbox' \in Seq(MailboxCommand) /\ Len(mailbox') <= MailboxCapacity
      /\ \A k \in 1..Len(mailbox') : k + 1 \in 1..Len(mailbox) /\ mailbox'[k] = mailbox[k + 1]
  BY <1>0, TakeOne DEF MailboxOK
<1>2. ASSUME NEW k \in 1..Len(mailbox')
      PROVE  Addressed(mailbox[k])'
  <2>1. Addressed(mailbox[k + 1]) /\ k + 1 # 1
    BY <1>1 DEF MailboxOK
  <2>2. mailbox[k + 1].kind = "Enqueue" => mailbox[k + 1].item \notin Added(mailbox[1])
    BY <1>1, <2>1 DEF MailboxOK, Added
  <2>3. QED
    BY <1>1, <2>1, <2>2 DEF Addressed, Fresh
<1>3. ASSUME NEW j \in 1..Len(mailbox'), NEW k \in 1..Len(mailbox'),
             mailbox'[j].kind = "Enqueue", mailbox'[k].kind = "Enqueue",
             mailbox'[j].item = mailbox'[k].item
      PROVE  j = k
  <2>1. j + 1 = k + 1
    BY <1>1, <1>3 DEF MailboxOK
  <2>2. QED
    BY <2>1
<1>4. QED
  BY <1>1, <1>2, <1>3 DEF MailboxOK

-----------------------------------------------------------------------------
(* The steps of the actor, its timer and its answers.                      *)

LEMMA ActorUnmoved ==
    ASSUME ActorOK, UNCHANGED vars
    PROVE  ActorOK' /\ Remembered' = Remembered
<1>1. [Next]_vars
  OBVIOUS
<1>2. TypeOK' /\ QueueIsSound' /\ Countdown'
  BY <1>1, ActorStep DEF ActorOK
<1>3. Aimed(emitted') /\ Remembered' = Remembered
  BY DEF ActorOK, vars, session, Remembered
<1>4. QED
  BY <1>2, <1>3 DEF ActorOK, Aimed

LEMMA ServeCommandIsActors ==
    ASSUME IInv, ServeCommand
    PROVE  [Next]_vars \/ OnlyAnswers
<1>0. MailboxCapacity \in Nat
  BY SessionAssumption
<1>1. running /\ Addressed(Head(mailbox)) /\ Handle(Head(mailbox))
  BY <1>0, TakeOne DEF IInv, MailboxOK, ServeCommand
<1>2. CASE Accept(Transition("None")) /\ UNCHANGED session
  BY <1>2 DEF OnlyAnswers, Accept, session, IInv, ActorOK, TypeOK
<1>3. QED
  BY <1>1, <1>2, HandleIsNext

LEMMA ServeCommandKeepsIInv ==
    ASSUME IInv, ServeCommand
    PROVE  IInv'
<1> DEFINE command == Head(mailbox)
<1>0. MailboxCapacity \in Nat
  BY SessionAssumption
<1>1. /\ command \in MailboxCommand /\ Addressed(command)
      /\ Handle(command) /\ running /\ mailbox # <<>>
  BY <1>0, TakeOne DEF IInv, MailboxOK, ServeCommand
<1> HIDE DEF command
<1>2. TypeOK /\ QueueIsSound /\ Countdown
  BY DEF IInv, ActorOK
<1>4. TypeOK' /\ QueueIsSound' /\ Countdown'
  BY <1>2, ServeCommandIsActors, ActorStep
<1>5. Aimed(emitted')
  BY <1>1, <1>2, <1>4, HandleIsAimed
<1>6. ActorOK'
  BY <1>4, <1>5 DEF ActorOK, Aimed
<1>7. MailboxOK'
  <2>1. Remembered' \subseteq Remembered \cup Added(command)
    BY <1>1, <1>2, HandleRemembers
  <2>2. QED
    BY <2>1, TakeKeepsMailbox DEF command, IInv, ServeCommand
<1>8. RuntimeOK'
  <2>1. command.sender \in {"Client", "Completion", "Worker", "Runtime"}
    BY <1>1 DEF MailboxCommand
  <2>2. serving' = command.sender /\ UNCHANGED <<runtime, requests>>
    BY DEF ServeCommand, command
  <2>3. QED
    BY <2>1, <2>2 DEF IInv, RuntimeOK
<1>9. TransitionsOK' /\ WorkerOK' /\ StageOK' /\ CompletionsOK'
  BY DEF IInv, ServeCommand, TransitionsOK, WorkerOK, StageOK, CompletionsOK
<1>10. QED
  BY <1>6, <1>7, <1>8, <1>9 DEF IInv

LEMMA ServeTimerKeepsIInv ==
    ASSUME IInv, ServeTimer
    PROVE  IInv'
<1>1. Next /\ IdleTimeout
  BY DEF ServeTimer, Expire, Next
<1>2. TypeOK' /\ QueueIsSound' /\ Countdown'
  BY <1>1, ActorStep DEF IInv, ActorOK
<1>3. Aimed(emitted')
  BY <1>1, PlainIsAimed DEF IdleTimeout, Starting
<1>4. Remembered' \subseteq Remembered
  BY <1>1 DEF IdleTimeout, ClearSession, Remembered, Range
<1>5. MailboxOK'
  BY <1>4, MailboxUndisturbed DEF IInv, ServeTimer
<1>6. /\ TransitionsOK' /\ WorkerOK' /\ StageOK' /\ CompletionsOK' /\ RuntimeOK'
  BY DEF IInv, ServeTimer, TransitionsOK, WorkerOK, StageOK, CompletionsOK, RuntimeOK
<1>7. QED
  BY <1>2, <1>3, <1>5, <1>6 DEF IInv, ActorOK, Aimed

(* What a directive carries to the worker. *)
LEMMA CarriedIsAimed ==
    ASSUME TypeOK, Aimed(emitted), emitted.directive # "None"
    PROVE  Carried \in AimedTransition
<1>1. /\ emitted.directive \in PlaybackDirective
      /\ emitted.target \in Items \cup VoiceChannels \cup {None}
  BY DEF TypeOK, PlayerTransition
<1>2. Carried \in CarriedTransition
  BY <1>1 DEF TypeOK, Carried, CarriedTransition
<1>3. Aimed(Carried)
  BY DEF Aimed, Carried
<1>4. QED
  BY <1>2, <1>3 DEF AimedTransition

LEMMA AnswerKeepsIInv ==
    ASSUME IInv, Answer
    PROVE  IInv' /\ OnlyAnswers
<1>1. OnlyAnswers
  BY DEF IInv, ActorOK, TypeOK, Answer, OnlyAnswers
<1>2. TypeOK' /\ QueueIsSound' /\ Countdown'
  BY <1>1, ActorStep DEF IInv, ActorOK
<1>3. Aimed(emitted')
  BY <1>1, PlainIsAimed DEF OnlyAnswers, Starting
<1>4. MailboxOK'
  <2>1. Remembered' = Remembered /\ UNCHANGED mailbox
    BY DEF Answer, Remembered
  <2>2. QED
    BY <2>1, MailboxUndisturbed DEF IInv
<1>5. TransitionsOK'
  <2>1. CASE UNCHANGED transitions
    BY <2>1 DEF IInv, TransitionsOK
  <2>2. CASE /\ emitted.directive # "None" /\ Len(transitions) < MailboxCapacity
             /\ transitions' = Append(transitions, Carried)
    <3>1. Carried \in AimedTransition
      BY <2>2, CarriedIsAimed DEF IInv, ActorOK
    <3>2. MailboxCapacity \in Nat
      BY SessionAssumption
    <3>3. QED
      BY <2>2, <3>1, <3>2, AppendOne DEF IInv, TransitionsOK
  <2>3. QED
    BY <2>1, <2>2 DEF Answer
<1>6. WorkerOK'
  <2>1. CASE UNCHANGED worker
    BY <2>1 DEF IInv, WorkerOK
  <2>2. CASE worker' = Resting
    BY <2>2, ConstantsAssumption DEF WorkerOK, Resting
  <2>3. CASE /\ worker.pc = "Awaiting" /\ worker.asks = "Snapshot"
             /\ worker' = [worker EXCEPT !.pc = "Connecting"]
    BY <2>3 DEF IInv, WorkerOK
  <2>4. QED
    BY <2>1, <2>2, <2>3 DEF Answer
<1>7. StageOK' /\ CompletionsOK'
  BY DEF IInv, Answer, StageOK, CompletionsOK
<1>8. RuntimeOK'
  BY DEF IInv, Answer, RuntimeOK
<1>9. QED
  BY <1>1, <1>2, <1>3, <1>4, <1>5, <1>6, <1>7, <1>8 DEF IInv, ActorOK, Aimed

-----------------------------------------------------------------------------
(* Everybody else.                                                         *)

LEMMA ClientRequestKeepsIInv ==
    ASSUME IInv, NEW kind \in Requests, ClientRequest(kind)
    PROVE  IInv'
<1>1. PICK item \in ItemsFor(kind), channel \in ChannelsFor(kind) :
         Send(Request(kind, item, channel, "Client"))
  BY DEF ClientRequest
<1> DEFINE command == Request(kind, item, channel, "Client")
<1>2. /\ command.kind = kind /\ command.item = item /\ command.channel = channel
      /\ command \in [kind: {kind}, item: {item}, channel: {channel}, sender: {"Client"}]
  BY DEF Request
<1>3. kind \notin Outcome
  BY SessionAssumption DEF RequestKinds, Outcome
<1>4. item \in Items \cup {None} /\ channel \in VoiceChannels \cup {None}
  BY <1>1 DEF ItemsFor, ChannelsFor, NewItems, Fresh
<1>5. kind = "Enqueue" => item \in NewItems /\ channel \in VoiceChannels
  BY <1>1 DEF ItemsFor, ChannelsFor
<1>6. kind = "Join" => channel \in VoiceChannels
  BY <1>1 DEF ChannelsFor
<1> HIDE DEF command
<1>7. command \in MailboxCommand
  BY <1>2, <1>4 DEF MailboxCommand
<1>8. Addressed(command)
  BY <1>2, <1>3, <1>5, <1>6 DEF Addressed, NewItems
<1>9. command.kind = "Enqueue" => \A k \in 1..Len(mailbox) : mailbox[k].item # command.item
  <2>1. DOMAIN mailbox = 1..Len(mailbox)
    BY LenProperties DEF IInv, MailboxOK
  <2>2. QED
    BY <1>2, <1>5, <2>1 DEF NewItems, InFlight
<1>10. Send(command) /\ UNCHANGED vars
  BY <1>1 DEF command, ClientRequest
<1>11. ActorOK' /\ MailboxOK'
  BY <1>7, <1>8, <1>9, <1>10, ActorUnmoved, SendKeepsMailbox DEF IInv
<1>12. RuntimeOK'
  BY SessionAssumption DEF IInv, ClientRequest, RuntimeOK
<1>13. TransitionsOK' /\ WorkerOK' /\ StageOK' /\ CompletionsOK'
  BY DEF IInv, ClientRequest, TransitionsOK, WorkerOK, StageOK, CompletionsOK
<1>14. QED
  BY <1>11, <1>12, <1>13 DEF IInv

(* A question or a report that adds nothing to the queue. *)
LEMMA SendingKeepsIInv ==
    ASSUME IInv, NEW kind \in {"Finished", "Failed", "Snapshot", "Park", "Shutdown"},
           NEW item \in Items \cup {None}, kind \in Outcome => item \in Items,
           NEW sender \in {"Completion", "Worker", "Runtime"},
           Send(Request(kind, item, None, sender)), UNCHANGED vars
    PROVE  ActorOK' /\ MailboxOK'
<1> DEFINE command == Request(kind, item, None, sender)
<1>1. /\ command.kind = kind /\ command.item = item
      /\ command \in [kind: {kind}, item: {item}, channel: {None}, sender: {sender}]
  BY DEF Request
<1>2. Send(command)
  OBVIOUS
<1> HIDE DEF command
<1>3. command \in MailboxCommand
  BY <1>1 DEF MailboxCommand, Outcome
<1>4. Addressed(command) /\ command.kind # "Enqueue"
  BY <1>1 DEF Addressed
<1>5. QED
  BY <1>2, <1>3, <1>4, ActorUnmoved, SendKeepsMailbox DEF IInv

LEMMA MailboxAndActorUnmoved ==
    ASSUME IInv, UNCHANGED <<vars, mailbox>>
    PROVE  ActorOK' /\ MailboxOK'
BY ActorUnmoved, MailboxUndisturbed DEF IInv

LEMMA CountOneMore ==
    ASSUME CompletionsOK, NEW item \in Items, NEW outcome \in Outcome,
           completions[<<item, outcome>>] < MaxCompletions, Reported(item, outcome)
    PROVE  CompletionsOK'
BY SessionAssumption DEF CompletionsOK, Reported

LEMMA ReportKeepsIInv ==
    ASSUME IInv, NEW item \in Items, NEW outcome \in Outcome, ReportCompletion(item, outcome)
    PROVE  IInv'
<1>1. ActorOK' /\ MailboxOK'
  BY SendingKeepsIInv, MailboxAndActorUnmoved DEF ReportCompletion, Outcome
<1>2. CompletionsOK'
  <2>1. completions[<<item, outcome>>] \in 0..MaxCompletions
    BY DEF IInv, CompletionsOK
  <2>2. completions[<<item, outcome>>] - 1 \in 0..MaxCompletions
    BY <2>1, SessionAssumption DEF ReportCompletion
  <2>3. QED
    BY <2>2 DEF IInv, CompletionsOK, ReportCompletion
<1>3. TransitionsOK' /\ WorkerOK' /\ StageOK' /\ RuntimeOK'
  BY DEF IInv, ReportCompletion, TransitionsOK, WorkerOK, StageOK, RuntimeOK
<1>4. QED
  BY <1>1, <1>2, <1>3 DEF IInv

LEMMA DriverEndsKeepsIInv ==
    ASSUME IInv, NEW outcome \in Outcome, DriverEnds(outcome)
    PROVE  IInv'
<1>1. stage.track \in Items /\ stage.driver = "Playing"
  BY DEF IInv, StageOK, DriverEnds
<1>2. StageOK'
  BY <1>1 DEF IInv, StageOK, DriverEnds
<1>3. CompletionsOK'
  BY <1>1, CountOneMore DEF IInv, DriverEnds
<1>4. ActorOK' /\ MailboxOK'
  BY MailboxAndActorUnmoved DEF DriverEnds
<1>5. TransitionsOK' /\ WorkerOK' /\ RuntimeOK'
  BY DEF IInv, DriverEnds, TransitionsOK, WorkerOK, RuntimeOK
<1>6. QED
  BY <1>2, <1>3, <1>4, <1>5 DEF IInv

LEMMA RuntimeKeepsIInv ==
    ASSUME IInv, Runtime
    PROVE  IInv'
<1>1. CASE ShutdownRequest
  <2>1. ActorOK' /\ MailboxOK'
    BY <1>1, SendingKeepsIInv DEF ShutdownRequest, Outcome
  <2>2. /\ TransitionsOK' /\ WorkerOK' /\ StageOK' /\ CompletionsOK' /\ RuntimeOK'
    BY <1>1 DEF IInv, ShutdownRequest, TransitionsOK, WorkerOK, StageOK, CompletionsOK, RuntimeOK
  <2>3. QED
    BY <2>1, <2>2 DEF IInv
<1>2. CASE SignalReceived \/ CancelUnasked
  <2>1. ActorOK' /\ MailboxOK'
    BY <1>2, MailboxAndActorUnmoved DEF SignalReceived, CancelUnasked
  <2>2. /\ TransitionsOK' /\ WorkerOK' /\ StageOK' /\ CompletionsOK' /\ RuntimeOK'
    BY <1>2 DEF IInv, SignalReceived, CancelUnasked, TransitionsOK, WorkerOK, StageOK,
                CompletionsOK, RuntimeOK
  <2>3. QED
    BY <2>1, <2>2 DEF IInv
<1>3. CASE AbortWorker
  <2>1. ActorOK' /\ MailboxOK'
    BY <1>3, MailboxAndActorUnmoved DEF AbortWorker, WorkerAlone
  <2>2. WorkerOK'
    BY <1>3 DEF IInv, WorkerOK, AbortWorker, Proceed
  <2>3. TransitionsOK' /\ StageOK' /\ CompletionsOK' /\ RuntimeOK'
    BY <1>3 DEF IInv, AbortWorker, WorkerAlone, TransitionsOK, StageOK, CompletionsOK, RuntimeOK
  <2>4. QED
    BY <2>1, <2>2, <2>3 DEF IInv
<1>4. QED
  BY <1>1, <1>2, <1>3 DEF Runtime

-----------------------------------------------------------------------------
(* The worker.                                                             *)

LEMMA RestIsOK ==
    ASSUME Rest
    PROVE  WorkerOK'
BY ConstantsAssumption DEF Rest, Resting, WorkerOK

LEMMA SilenceIsOK ==
    ASSUME NEW channel \in VoiceChannels \cup {None}, stage' = Silence(channel)
    PROVE  StageOK'
BY ConstantsAssumption DEF Silence, StageOK

LEMMA StopStageIsOK ==
    ASSUME StageOK, CompletionsOK, NEW channel \in VoiceChannels \cup {None}, StopStage(channel)
    PROVE  StageOK' /\ CompletionsOK'
<1>1. StageOK'
  BY SilenceIsOK DEF StopStage
<1>2. CASE UNCHANGED completions
  BY <1>1, <1>2 DEF CompletionsOK
<1>3. CASE Sounding /\ completions[<<stage.track, "Finished">>] < MaxCompletions
           /\ Reported(stage.track, "Finished")
  <2>1. stage.track \in Items /\ "Finished" \in Outcome
    BY <1>3 DEF StageOK, Sounding, Outcome
  <2>2. QED
    BY <1>1, <1>3, <2>1, CountOneMore
<1>4. QED
  BY <1>2, <1>3 DEF StopStage

(* Whatever the transition, the worker ends up with what its next step     *)
(* needs in hand.                                                          *)
LEMMA ApplyIsOK ==
    ASSUME StageOK, CompletionsOK, NEW transition \in AimedTransition, Apply(transition)
    PROVE  WorkerOK' /\ StageOK' /\ CompletionsOK'
<1> DEFINE working == [Resting EXCEPT !.volume = transition.volume]
<1>c. stage.channel \in VoiceChannels \cup {None}
  BY DEF StageOK
<1>t. /\ transition.volume \in 1..MaxVolume
      /\ transition.channel \in VoiceChannels \cup {None}
      /\ Aimed(transition)
  BY DEF AimedTransition, CarriedTransition
<1>w. working = [pc |-> "Receiving", asks |-> "Snapshot", item |-> None, channel |-> None,
                 volume |-> transition.volume, deferred |-> <<>>]
  BY DEF Resting
<1>1. CASE Rest /\ (StopStage(stage.channel) \/ StopStage(None) \/ UNCHANGED <<stage, completions>>)
  <2>1. WorkerOK'
    BY <1>1, RestIsOK
  <2>2. StageOK' /\ CompletionsOK'
    BY <1>1, <1>c, StopStageIsOK DEF StageOK, CompletionsOK
  <2>3. QED
    BY <2>1, <2>2
<1>2. CASE /\ transition.directive = "Join"
           /\ worker' = [working EXCEPT !.pc = "Joining", !.channel = transition.target]
           /\ UNCHANGED <<stage, completions>>
  <2>1. transition.target \in VoiceChannels
    BY <1>2, <1>t DEF Aimed
  <2> HIDE DEF working
  <2>w. worker' = [pc |-> "Joining", asks |-> "Snapshot", item |-> None,
                   channel |-> transition.target, volume |-> transition.volume,
                   deferred |-> <<>>]
    BY <1>2, <1>w
  <2>2. WorkerOK'
    BY <1>t, <2>1, <2>w DEF WorkerOK
  <2>3. QED
    BY <1>2, <2>2 DEF StageOK, CompletionsOK
<1>3. CASE /\ Rest /\ UNCHANGED completions
           /\ \/ stage' = [stage EXCEPT !.driver = IF @ = "Playing" THEN "Paused" ELSE @]
              \/ stage' = [stage EXCEPT !.driver = IF @ = "Paused" THEN "Playing" ELSE @]
              \/ stage' = [stage EXCEPT !.volume = IF stage.track = None THEN @
                                                   ELSE transition.volume]
  <2>1. StageOK'
    BY <1>3, <1>t DEF StageOK
  <2>2. QED
    BY <1>3, <2>1, RestIsOK DEF CompletionsOK
<1>4. CASE /\ transition.directive \in Starting
           /\ StopStage(stage.channel)
           /\ worker' = [working EXCEPT !.pc = "Preparing", !.item = transition.target,
                                        !.channel = transition.channel]
  <2>1. transition.target \in Items
    BY <1>4, <1>t DEF Aimed
  <2> HIDE DEF working
  <2>w. worker' = [pc |-> "Preparing", asks |-> "Snapshot", item |-> transition.target,
                   channel |-> transition.channel, volume |-> transition.volume,
                   deferred |-> <<>>]
    BY <1>4, <1>w
  <2>2. WorkerOK'
    BY <1>t, <2>1, <2>w DEF WorkerOK
  <2>3. QED
    BY <1>4, <1>c, <2>2, StopStageIsOK
<1>5. QED
  BY <1>1, <1>2, <1>3, <1>4 DEF Apply

LEMMA TakeKeepsIInv ==
    ASSUME IInv, TakeDeferred \/ TakeTransition
    PROVE  IInv'
<1>1. PICK transition \in AimedTransition :
         Apply(transition) /\ TransitionsOK' /\ UNCHANGED mailbox /\ WorkerAlone
  <2>1. CASE TakeDeferred
    <3>1. worker.deferred \in Seq(AimedTransition) /\ worker.deferred # <<>>
      BY <2>1 DEF IInv, WorkerOK, TakeDeferred
    <3>2. Head(worker.deferred) \in AimedTransition
      BY <3>1, LenProperties, TakeOne
    <3>3. QED
      BY <2>1, <3>2 DEF IInv, TakeDeferred, TransitionsOK
  <2>2. CASE TakeTransition
    <3>1. MailboxCapacity \in Nat
      BY SessionAssumption
    <3>2. /\ Head(transitions) \in AimedTransition
          /\ Tail(transitions) \in Seq(AimedTransition)
          /\ Len(Tail(transitions)) <= MailboxCapacity
      BY <2>2, <3>1, TakeOne DEF IInv, TransitionsOK, TakeTransition
    <3>3. QED
      BY <2>2, <3>2 DEF TakeTransition, TransitionsOK
  <2>3. QED
    BY <2>1, <2>2
<1>2. WorkerOK' /\ StageOK' /\ CompletionsOK'
  BY <1>1, ApplyIsOK DEF IInv
<1>3. ActorOK' /\ MailboxOK'
  BY <1>1, MailboxAndActorUnmoved DEF WorkerAlone
<1>4. RuntimeOK'
  BY <1>1 DEF IInv, WorkerAlone, RuntimeOK
<1>5. QED
  BY <1>1, <1>2, <1>3, <1>4 DEF IInv

LEMMA SupersedeKeepsIInv ==
    ASSUME IInv, Supersede
    PROVE  IInv'
<1>1. MailboxCapacity \in Nat
  BY SessionAssumption
<1>2. /\ Head(transitions) \in AimedTransition
      /\ Tail(transitions) \in Seq(AimedTransition)
      /\ Len(Tail(transitions)) <= MailboxCapacity
  BY <1>1, TakeOne DEF IInv, TransitionsOK, Supersede
<1>3. TransitionsOK'
  BY <1>2 DEF Supersede, TransitionsOK
<1>4. WorkerOK'
  <2>1. <<Head(transitions)>> \in Seq(AimedTransition)
    BY <1>2
  <2>2. worker' = [pc |-> "Receiving", asks |-> "Snapshot", item |-> None, channel |-> None,
                   volume |-> StartingVolume, deferred |-> <<Head(transitions)>>]
    BY DEF Supersede, Resting
  <2>3. QED
    BY <2>1, <2>2, ConstantsAssumption DEF WorkerOK
<1>5. ActorOK' /\ MailboxOK'
  BY MailboxAndActorUnmoved DEF Supersede, WorkerAlone
<1>6. StageOK' /\ CompletionsOK' /\ RuntimeOK'
  BY DEF IInv, Supersede, WorkerAlone, StageOK, CompletionsOK, RuntimeOK
<1>7. QED
  BY <1>3, <1>4, <1>5, <1>6 DEF IInv

(* The steps of the worker that leave the transitions and the driver's     *)
(* reports alone.                                                          *)
LEMMA WorkerStepKeepsIInv ==
    ASSUME IInv, UNCHANGED <<transitions, completions>>, WorkerAlone,
           ActorOK', MailboxOK', WorkerOK', StageOK'
    PROVE  IInv'
BY DEF IInv, WorkerAlone, TransitionsOK, CompletionsOK, RuntimeOK

LEMMA FinishKeepsIInv ==
    ASSUME IInv, FinishPreparing \/ FinishJoining \/ FinishConnecting \/ AnswerLost
    PROVE  IInv'
<1>1. /\ UNCHANGED <<transitions, completions>> /\ WorkerAlone
      /\ ActorOK' /\ MailboxOK'
  BY MailboxAndActorUnmoved DEF FinishPreparing, FinishJoining, FinishConnecting, AnswerLost,
                                WorkerAlone
<1>2. CASE FinishPreparing
  <2>1. WorkerOK' /\ StageOK'
    BY <1>2, RestIsOK DEF IInv, FinishPreparing, At, Ask, WorkerOK, StageOK
  <2>2. QED
    BY <1>1, <2>1, WorkerStepKeepsIInv
<1>3. CASE FinishJoining
  <2>1. WorkerOK'
    BY <1>3, RestIsOK DEF IInv, FinishJoining, At, Ask, WorkerOK
  <2>2. worker.channel \in VoiceChannels \cup {None}
    BY DEF IInv, WorkerOK
  <2>3. StageOK'
    BY <1>3, <2>2, SilenceIsOK DEF IInv, FinishJoining, StageOK
  <2>4. QED
    BY <1>1, <2>1, <2>3, WorkerStepKeepsIInv
<1>4. CASE FinishConnecting
  <2>1. WorkerOK'
    BY <1>4, RestIsOK DEF IInv, FinishConnecting, At, Ask, WorkerOK
  <2>2. /\ worker.channel \in VoiceChannels \cup {None} /\ worker.item \in Items
        /\ worker.volume \in 1..MaxVolume
    BY <1>4 DEF IInv, WorkerOK, FinishConnecting, At
  <2>3. StageOK'
    BY <1>4, <2>2, SilenceIsOK DEF FinishConnecting, StageOK
  <2>4. QED
    BY <1>1, <2>1, <2>3, WorkerStepKeepsIInv
<1>5. CASE AnswerLost
  <2>1. WorkerOK' /\ StageOK'
    BY <1>5, RestIsOK DEF IInv, AnswerLost, StageOK
  <2>2. QED
    BY <1>1, <2>1, WorkerStepKeepsIInv
<1>6. QED
  BY <1>2, <1>3, <1>4, <1>5

LEMMA AskActorKeepsIInv ==
    ASSUME IInv, AskActor
    PROVE  IInv'
<1>1. UNCHANGED <<transitions, completions, stage>> /\ WorkerAlone /\ UNCHANGED vars
  BY DEF AskActor, WorkerAlone
<1>2. StageOK'
  BY <1>1 DEF IInv, StageOK
<1>3. CASE Rest /\ UNCHANGED mailbox
  BY <1>1, <1>2, <1>3, RestIsOK, MailboxAndActorUnmoved, WorkerStepKeepsIInv
<1>4. CASE /\ Send(Request(worker.asks, IF worker.asks = "Failed" THEN worker.item ELSE None,
                           None, "Worker"))
           /\ Proceed("Awaiting")
  <2>1. /\ worker.asks \in {"Snapshot", "Failed", "Park"}
        /\ worker.asks = "Failed" => worker.item \in Items
    BY DEF IInv, WorkerOK, AskActor, At
  <2>2. WorkerOK'
    BY <1>4 DEF IInv, WorkerOK, AskActor, At, Proceed
  <2>3. ActorOK' /\ MailboxOK'
    BY <1>1, <1>4, <2>1, SendingKeepsIInv DEF Outcome
  <2>4. QED
    BY <1>1, <1>2, <2>2, <2>3, WorkerStepKeepsIInv
<1>5. QED
  BY <1>3, <1>4 DEF AskActor

LEMMA LeaveKeepsIInv ==
    ASSUME IInv, Leave
    PROVE  IInv'
<1>1. StageOK' /\ CompletionsOK'
  BY StopStageIsOK DEF IInv, Leave
<1>2. WorkerOK'
  BY DEF IInv, WorkerOK, Leave, Proceed
<1>3. ActorOK' /\ MailboxOK'
  BY MailboxAndActorUnmoved DEF Leave, WorkerAlone
<1>4. TransitionsOK' /\ RuntimeOK'
  BY DEF IInv, Leave, WorkerAlone, TransitionsOK, RuntimeOK
<1>5. QED
  BY <1>1, <1>2, <1>3, <1>4 DEF IInv

-----------------------------------------------------------------------------
LEMMA NextKeepsIInv ==
    ASSUME IInv, [SessionNext]_sessionVars
    PROVE  IInv'
<1>1. CASE Actor \/ ServeTimer
  BY <1>1, ServeCommandKeepsIInv, AnswerKeepsIInv, ServeTimerKeepsIInv DEF Actor
<1>2. CASE Worker
  BY <1>2, TakeKeepsIInv, SupersedeKeepsIInv, FinishKeepsIInv, AskActorKeepsIInv, LeaveKeepsIInv
     DEF Worker
<1>3. CASE Driver \/ Reporters \/ Clients
  BY <1>3, DriverEndsKeepsIInv, ReportKeepsIInv, ClientRequestKeepsIInv
     DEF Driver, Reporters, Clients
<1>4. CASE Runtime
  BY <1>4, RuntimeKeepsIInv
<1>5. CASE UNCHANGED sessionVars
  <2>1. UNCHANGED <<vars, mailbox>> /\ UNCHANGED plumbing
    BY <1>5 DEF sessionVars, plumbing
  <2>2. ActorOK' /\ MailboxOK'
    BY <2>1, MailboxAndActorUnmoved
  <2>3. QED
    BY <2>1, <2>2
       DEF plumbing, IInv, TransitionsOK, WorkerOK, StageOK, CompletionsOK, RuntimeOK
<1>6. QED
  BY <1>1, <1>2, <1>3, <1>4, <1>5 DEF SessionNext

LEMMA IInvAlways == SessionSpec => []IInv
<1>1. SessionInit => IInv
  BY InitIInv
<1>2. IInv /\ [SessionNext]_sessionVars => IInv'
  BY NextKeepsIInv
<1>3. QED
  BY <1>1, <1>2, PTL DEF SessionSpec

(* Everything the pipeline holds keeps its type and its bound: no queue    *)
(* outgrows its capacity, and the worker never acts on a track it does not *)
(* have (the channels of src/src/player.rs, playback_worker).              *)
THEOREM SessionTypeCorrect == SessionSpec => []SessionTypeOK
<1>1. IInv => SessionTypeOK
  <2> SUFFICES ASSUME IInv
               PROVE  SessionTypeOK
    OBVIOUS
  <2>1. AimedTransition \subseteq CarriedTransition
    BY DEF AimedTransition
  <2>2. \A s \in Seq(AimedTransition) : s \in Seq(CarriedTransition)
    BY <2>1
  <2>3. transitions \in Seq(CarriedTransition) /\ worker.deferred \in Seq(CarriedTransition)
    BY <2>2 DEF IInv, TransitionsOK, WorkerOK
  <2>4. QED
    BY <2>3 DEF IInv, ActorOK, MailboxOK, MailboxCommand, TransitionsOK, WorkerOK, StageOK,
                CompletionsOK, RuntimeOK, SessionTypeOK
<1>2. QED
  BY <1>1, IInvAlways, PTL

(* Behind its bounded queues, with completions and the worker's questions  *)
(* arriving when they may, the actor's queue stays sound.                  *)
THEOREM QueueInSession == SessionSpec => []QueueIsSound
<1>1. IInv => QueueIsSound
  BY DEF IInv, ActorOK
<1>2. QED
  BY <1>1, IInvAlways, PTL

(* ... and the countdown runs exactly when it should.                      *)
THEOREM CountdownInSession ==
    SessionSpec => []( /\ NothingOutlivesItsTrack
                       /\ SilentChannelIsCountedDown
                       /\ PlayingIsNotCountedDown )
<1>1. IInv => NothingOutlivesItsTrack /\ SilentChannelIsCountedDown /\ PlayingIsNotCountedDown
  BY DEF IInv, ActorOK, Countdown
<1>2. QED
  BY <1>1, IInvAlways, PTL

-----------------------------------------------------------------------------
(* To the actor, a step of the pipeline is a step of its own, or an answer *)
(* that leaves, or nothing.                                                *)
LEMMA SessionStepIsActors ==
    ASSUME IInv, [SessionNext]_sessionVars
    PROVE  [Next]_vars \/ OnlyAnswers
<1>1. CASE Actor \/ ServeTimer
  BY <1>1, ServeCommandIsActors, AnswerKeepsIInv DEF Actor, ServeTimer, Expire, Next
<1>2. CASE Worker
  BY <1>2 DEF Worker, TakeDeferred, TakeTransition, Supersede, FinishPreparing, AskActor,
              AnswerLost, FinishJoining, FinishConnecting, Leave, WorkerAlone
<1>3. CASE Driver \/ Reporters \/ Clients
  BY <1>3 DEF Driver, Reporters, Clients, DriverEnds, ReportCompletion, ClientRequest
<1>4. CASE Runtime
  BY <1>4 DEF Runtime, SignalReceived, ShutdownRequest, CancelUnasked, AbortWorker, WorkerAlone
<1>5. CASE UNCHANGED sessionVars
  BY <1>5 DEF sessionVars
<1>6. QED
  BY <1>1, <1>2, <1>3, <1>4, <1>5 DEF SessionNext

(* The pipeline keeps the promise of the queue at its heart, whatever      *)
(* fails, arrives late or is asked of it meanwhile.                        *)
THEOREM SessionKeepsThePromise == SessionSpec => KeepsThePromise
<1>1. SessionInit => Promise!Init
  BY DEF SessionInit, Init, Promise!Init, Range
<1>2. IInv /\ IInv' /\ [SessionNext]_sessionVars => [Promise!Next]_Promise!jukebox
  <2> SUFFICES ASSUME IInv, IInv', [SessionNext]_sessionVars
               PROVE  [Promise!Next]_Promise!jukebox
    OBVIOUS
  <2>1. TypeOK /\ QueueIsSound /\ TypeOK' /\ QueueIsSound'
    BY DEF IInv, ActorOK
  <2>2. CASE OnlyAnswers
    BY <2>2 DEF OnlyAnswers, Promise!jukebox
  <2>3. QED
    BY <2>1, <2>2, SessionStepIsActors, StepKeepsThePromise
<1>3. QED
  BY <1>1, <1>2, IInvAlways, PTL DEF SessionSpec, KeepsThePromise, Promise!Spec

-----------------------------------------------------------------------------
(* Wrong audio.  What the room hears lags behind the session's word, by    *)
(* what is due: the directives on their way to the worker.  A performance  *)
(* is mended when what is due after some point will stop it, or will bring *)
(* it to the current track, held or not, at the current level.             *)
Sent == worker.deferred \o transitions
Due == IF emitted.directive = "None" THEN Sent ELSE Append(Sent, Carried)

After(due, k, directives) ==
    \E j \in 1..Len(due) : j > k /\ due[j].directive \in directives

(* The last word on a hold is the session's.                               *)
HoldSettled(due, word, k) ==
    \A j \in 1..Len(due) : j > k =>
        /\ due[j].directive = "Pause" /\ word.hold = "None" => After(due, j, {"Resume"})
        /\ due[j].directive = "Resume" /\ word.hold # "None" => After(due, j, {"Pause"})

Performance(track, state, volume) == [track |-> track, state |-> state, volume |-> volume]

BroughtAbout(due, word, k, sound) ==
    /\ word.channel # None /\ sound.track = word.track
    /\ sound.volume # word.volume => After(due, k, {"SetVolume"})
    /\ sound.state = "Playing" /\ word.hold # "None" => After(due, k, {"Pause"})
    /\ sound.state = "Paused" /\ word.hold = "None" => After(due, k, {"Resume"})
    /\ HoldSettled(due, word, k)
Mends(due, word, k, sound) ==
    After(due, k, Silencing) \/ BroughtAbout(due, word, k, sound)

(* What is due is in order: what each directive will do to the gateway is  *)
(* mended by what comes after it.                                          *)
Starts(transition) == transition.directive \in Starting /\ transition.channel # None
Takes(transition) == Starts(transition) \/ transition.directive = "Join"
DueAt(due, word, k) ==
    /\ Starts(due[k]) =>
          Mends(due, word, k, Performance(due[k].target, "Playing", due[k].volume))
    /\ Takes(due[k]) /\ word.channel = None => After(due, k, Leaving)
    /\ due[k].directive = "SetVolume" /\ due[k].volume # word.volume
          => After(due, k, {"SetVolume"})
DueOK(due, word) == \A k \in 1..Len(due) : DueAt(due, word, k)

(* The worker has a track in hand, which it will play unless it is told    *)
(* otherwise before it starts.                                             *)
InHand ==
    \/ worker.pc \in {"Preparing", "Connecting"}
    \/ worker.pc \in {"Asking", "Awaiting"} /\ worker.asks = "Snapshot"
Heard == Performance(stage.track, stage.driver, stage.volume)
ToBeHeard == Performance(worker.item, "Playing", worker.volume)

Mended ==
    /\ DueOK(Due, Word)
    /\ Sounding => Mends(Due, Word, 0, Heard)
    /\ InHand => Mends(Due, Word, 0, ToBeHeard)
    /\ voice_channel_id = None /\ (stage.channel # None \/ InHand \/ worker.pc = "Joining")
          => After(Due, 0, Leaving)

(* The worker hears of everything, until it is gone or going.              *)
Listening ==
    /\ Idle => emitted.directive = "None"
    /\ Len(worker.deferred) <= 1
    /\ worker.pc \notin {"Receiving", "Aborted"} => worker.deferred = <<>>
    /\ worker.pc = "Left" => stage = Silence(None)
    /\ worker.pc = "Aborted" => Cancelled

MInv == Listening /\ (runtime # "Cancelled" /\ worker.pc # "Left" => Mended)

(* What is due, one directive longer. *)
LEMMA AfterAppend ==
    ASSUME NEW due \in Seq(AimedTransition), NEW t \in AimedTransition, NEW k \in 0..Len(due),
           NEW directives
    PROVE  /\ Append(due, t) \in Seq(AimedTransition)
           /\ Len(Append(due, t)) = Len(due) + 1
           /\ Append(due, t)[Len(due) + 1] = t
           /\ \A j \in 1..Len(due) : Append(due, t)[j] = due[j]
           /\ After(due, k, directives) => After(Append(due, t), k, directives)
           /\ t.directive \in directives => After(Append(due, t), k, directives)
<1>1. Len(due) \in Nat
  BY LenProperties
<1>2. /\ Append(due, t) \in Seq(AimedTransition)
      /\ Len(Append(due, t)) = Len(due) + 1
      /\ Append(due, t)[Len(due) + 1] = t
      /\ \A j \in 1..Len(due) : Append(due, t)[j] = due[j]
  BY AppendProperties
<1>3. QED
  BY <1>1, <1>2 DEF After

(* ... and one shorter. *)
LEMMA AfterTail ==
    ASSUME NEW due \in Seq(AimedTransition), due # <<>>, NEW k \in 0..(Len(due) - 1),
           NEW directives
    PROVE  /\ Tail(due) \in Seq(AimedTransition)
           /\ Len(Tail(due)) = Len(due) - 1 /\ Len(due) \in Nat \ {0}
           /\ \A j \in 1..(Len(due) - 1) : Tail(due)[j] = due[j + 1]
           /\ After(Tail(due), k, directives) <=> After(due, k + 1, directives)
           /\ After(due, 0, directives)
                 <=> due[1].directive \in directives \/ After(due, 1, directives)
<1>1. /\ Tail(due) \in Seq(AimedTransition)
      /\ Len(Tail(due)) = Len(due) - 1
      /\ \A j \in 1..Len(Tail(due)) : Tail(due)[j] = due[j + 1]
  BY HeadTailProperties
<1>2. Len(due) \in Nat \ {0}
  BY LenProperties, EmptySeq
<1>3. After(Tail(due), k, directives) => After(due, k + 1, directives)
  <2> SUFFICES ASSUME NEW j \in 1..(Len(due) - 1), j > k, due[j + 1].directive \in directives
               PROVE  After(due, k + 1, directives)
    BY <1>1 DEF After
  <2>1. j + 1 \in 1..Len(due) /\ j + 1 > k + 1
    BY <1>2
  <2>2. QED
    BY <2>1 DEF After
<1>4. After(due, k + 1, directives) => After(Tail(due), k, directives)
  <2> SUFFICES ASSUME NEW j \in 1..Len(due), j > k + 1, due[j].directive \in directives
               PROVE  After(Tail(due), k, directives)
    BY DEF After
  <2>1. j - 1 \in 1..(Len(due) - 1) /\ j - 1 > k /\ (j - 1) + 1 = j
    BY <1>2
  <2>2. Tail(due)[j - 1] = due[j]
    BY <1>1, <2>1
  <2>3. QED
    BY <1>1, <2>1, <2>2 DEF After
<1>5. After(due, 0, directives)
         <=> due[1].directive \in directives \/ After(due, 1, directives)
  BY <1>2 DEF After
<1>6. QED
  BY <1>1, <1>2, <1>3, <1>4, <1>5

(* What is mended stays mended, whatever the actor says next. *)
LEMMA StaysMended ==
    ASSUME NEW due \in Seq(AimedTransition), NEW t \in AimedTransition, NEW word, NEW next,
           Said(word, next, t.directive, t.target), NEW k \in 0..Len(due),
           NEW sound, sound.track \in Items, Mends(due, word, k, sound)
    PROVE  Mends(Append(due, t), next, k, sound)
<1> DEFINE longer == Append(due, t)
<1>1. Len(due) \in Nat
  BY LenProperties
<1>2. sound.track # None
  BY ConstantsAssumption
<1>3. /\ Len(longer) = Len(due) + 1
      /\ longer[Len(due) + 1] = t
      /\ \A j \in 1..Len(due) : longer[j] = due[j]
  BY AfterAppend
<1>4. \A j \in 0..Len(due) : \A directives :
         /\ After(due, j, directives) => After(longer, j, directives)
         /\ t.directive \in directives => After(longer, j, directives)
  BY AfterAppend
<1> HIDE DEF longer
<1>5. CASE t.directive \in Silencing \/ After(due, k, Silencing)
  BY <1>4, <1>5 DEF Mends, longer
<1>6. CASE t.directive \notin Silencing /\ BroughtAbout(due, word, k, sound)
  <2>1. t.directive \in {"Pause", "Resume", "SetVolume"}
    BY <1>2, <1>6 DEF Said, Silencing, Leaving, GivingUp, AimedTransition, CarriedTransition,
                      BroughtAbout
  <2>2. next.channel = word.channel /\ next.track = word.track
    BY <2>1 DEF Said, GivingUp, Starting
  <2>3. sound.volume # next.volume => After(longer, k, {"SetVolume"})
    BY <1>4, <1>6, <2>1 DEF Said, GivingUp, Starting, BroughtAbout
  <2>4. sound.state = "Playing" /\ next.hold # "None" => After(longer, k, {"Pause"})
    BY <1>4, <1>6, <2>1 DEF Said, GivingUp, Starting, BroughtAbout
  <2>5. sound.state = "Paused" /\ next.hold = "None" => After(longer, k, {"Resume"})
    BY <1>4, <1>6, <2>1 DEF Said, GivingUp, Starting, BroughtAbout
  <2>6. HoldSettled(longer, next, k)
    <3> SUFFICES ASSUME NEW j \in 1..Len(longer), j > k
                 PROVE  /\ longer[j].directive = "Pause" /\ next.hold = "None"
                              => After(longer, j, {"Resume"})
                        /\ longer[j].directive = "Resume" /\ next.hold # "None"
                              => After(longer, j, {"Pause"})
      BY DEF HoldSettled
    <3>1. CASE j = Len(due) + 1
      BY <1>3, <2>1, <3>1 DEF Said, GivingUp, Starting
    <3>2. CASE j # Len(due) + 1
      <4>1. j \in 1..Len(due) /\ longer[j] = due[j]
        BY <1>1, <1>3, <3>2
      <4>2. /\ due[j].directive = "Pause" /\ word.hold = "None" => After(due, j, {"Resume"})
            /\ due[j].directive = "Resume" /\ word.hold # "None" => After(due, j, {"Pause"})
        BY <1>6, <4>1 DEF BroughtAbout, HoldSettled
      <4>3. j \in 0..Len(due)
        BY <4>1
      <4>4. CASE next.hold = word.hold
        BY <1>4, <4>1, <4>2, <4>3, <4>4
      <4>5. CASE next.hold # word.hold
        <5>1. \/ t.directive = "Pause" /\ next.hold # "None"
              \/ t.directive = "Resume" /\ next.hold = "None"
          BY <2>1, <4>5 DEF Said, GivingUp, Starting
        <5>2. QED
          BY <1>4, <4>1, <4>3, <5>1
      <4>6. QED
        BY <4>4, <4>5
    <3>3. QED
      BY <3>1, <3>2
  <2>7. QED
    BY <1>6, <2>2, <2>3, <2>4, <2>5, <2>6 DEF Mends, BroughtAbout, longer
<1>7. QED
  BY <1>5, <1>6 DEF Mends

(* The line of what is due stays in order as the actor adds to it. *)
LEMMA LineGrows ==
    ASSUME NEW due \in Seq(AimedTransition), NEW t \in AimedTransition, NEW word, NEW next,
           Said(word, next, t.directive, t.target),
           t.channel = next.channel, t.volume = next.volume, DueOK(due, word)
    PROVE  DueOK(Append(due, t), next)
<1> DEFINE longer == Append(due, t)
           last == Len(due) + 1
<1>1. Len(due) \in Nat
  BY LenProperties
<1>2. /\ Len(longer) = last
      /\ longer[last] = t
      /\ \A j \in 1..Len(due) : longer[j] = due[j]
  BY AfterAppend
<1>3. \A j \in 0..Len(due) : \A directives :
         /\ After(due, j, directives) => After(longer, j, directives)
         /\ t.directive \in directives => After(longer, j, directives)
  BY AfterAppend
<1> SUFFICES ASSUME NEW k \in 1..last
             PROVE  DueAt(longer, next, k)
  BY <1>2 DEF DueOK
<1>4. CASE k = last
  <2>1. Starts(t) => Mends(longer, next, k, Performance(t.target, "Playing", t.volume))
    <3> SUFFICES ASSUME Starts(t)
                 PROVE  BroughtAbout(longer, next, k, Performance(t.target, "Playing", t.volume))
      BY DEF Mends
    <3>1. next.channel # None /\ next.track = t.target /\ next.hold = "None"
      BY DEF Starts, Said, Starting, GivingUp
    <3>2. HoldSettled(longer, next, k)
      BY <1>1, <1>2, <1>4 DEF HoldSettled
    <3>3. QED
      BY <3>1, <3>2 DEF BroughtAbout, Performance
  <2>2. ~(Takes(t) /\ next.channel = None)
    BY DEF Takes, Starts, Said, Starting, GivingUp
  <2>3. QED
    BY <1>2, <1>4, <2>1, <2>2 DEF DueAt
<1>5. CASE k # last
  <2>1. k \in 1..Len(due) /\ longer[k] = due[k] /\ k \in 0..Len(due)
    BY <1>1, <1>2, <1>5
  <2>2. DueAt(due, word, k)
    BY <2>1 DEF DueOK
  <2>3. Starts(due[k]) =>
           Mends(longer, next, k, Performance(due[k].target, "Playing", due[k].volume))
    <3> SUFFICES ASSUME Starts(due[k])
                 PROVE  Mends(longer, next, k,
                              Performance(due[k].target, "Playing", due[k].volume))
      OBVIOUS
    <3>1. due[k] \in AimedTransition
      BY <2>1, ElementOfSeq
    <3>2. Performance(due[k].target, "Playing", due[k].volume).track \in Items
      BY <3>1 DEF AimedTransition, Aimed, Starts, Performance
    <3>3. Mends(due, word, k, Performance(due[k].target, "Playing", due[k].volume))
      BY <2>2 DEF DueAt
    <3>4. QED
      BY <2>1, <3>2, <3>3, StaysMended
  <2>4. Takes(due[k]) /\ next.channel = None => After(longer, k, Leaving)
    <3>1. CASE t.directive \in Leaving
      BY <1>3, <2>1, <3>1
    <3>2. CASE t.directive \notin Leaving
      <4>1. next.channel = None => word.channel = None
        BY <3>2 DEF Said, Leaving, GivingUp, AimedTransition, CarriedTransition
      <4>2. QED
        BY <1>3, <2>1, <2>2, <4>1 DEF DueAt
    <3>3. QED
      BY <3>1, <3>2
  <2>5. due[k].directive = "SetVolume" /\ due[k].volume # next.volume
           => After(longer, k, {"SetVolume"})
    BY <1>3, <2>1, <2>2 DEF DueAt, Said
  <2>6. QED
    BY <2>1, <2>3, <2>4, <2>5 DEF DueAt
<1>6. QED
  BY <1>4, <1>5

(* What is mended by what is due is mended by the rest of it, once the     *)
(* first directive has been applied.                                       *)
LEMMA MendsByTheRest ==
    ASSUME NEW due \in Seq(AimedTransition), due # <<>>, NEW word, NEW k \in 0..(Len(due) - 1),
           NEW sound, Mends(due, word, k + 1, sound)
    PROVE  Mends(Tail(due), word, k, sound)
<1> DEFINE rest == Tail(due)
<1>1. /\ Len(rest) = Len(due) - 1 /\ Len(due) \in Nat \ {0}
      /\ \A j \in 1..(Len(due) - 1) : rest[j] = due[j + 1]
  BY AfterTail
<1>2. \A j \in 0..(Len(due) - 1) : \A directives :
         After(rest, j, directives) <=> After(due, j + 1, directives)
  BY AfterTail
<1> HIDE DEF rest
<1>3. CASE After(due, k + 1, Silencing)
  BY <1>2, <1>3 DEF Mends, rest
<1>4. CASE BroughtAbout(due, word, k + 1, sound)
  <2>1. HoldSettled(rest, word, k)
    <3> SUFFICES ASSUME NEW j \in 1..Len(rest), j > k
                 PROVE  /\ rest[j].directive = "Pause" /\ word.hold = "None"
                              => After(rest, j, {"Resume"})
                        /\ rest[j].directive = "Resume" /\ word.hold # "None"
                              => After(rest, j, {"Pause"})
      BY DEF HoldSettled
    <3>1. j + 1 \in 1..Len(due) /\ j + 1 > k + 1 /\ rest[j] = due[j + 1]
          /\ j \in 0..(Len(due) - 1)
      BY <1>1
    <3>2. /\ due[j + 1].directive = "Pause" /\ word.hold = "None"
                => After(due, j + 1, {"Resume"})
          /\ due[j + 1].directive = "Resume" /\ word.hold # "None"
                => After(due, j + 1, {"Pause"})
      BY <1>4, <3>1 DEF BroughtAbout, HoldSettled
    <3>3. QED
      BY <1>2, <3>1, <3>2
  <2>2. QED
    BY <1>2, <1>4, <2>1 DEF BroughtAbout, Mends, rest
<1>5. QED
  BY <1>3, <1>4 DEF Mends

(* The line of what is due stays in order as the worker takes its head. *)
LEMMA LineShortens ==
    ASSUME NEW due \in Seq(AimedTransition), due # <<>>, NEW word, DueOK(due, word)
    PROVE  DueOK(Tail(due), word)
<1>1. /\ Len(Tail(due)) = Len(due) - 1 /\ Len(due) \in Nat \ {0}
      /\ \A j \in 1..(Len(due) - 1) : Tail(due)[j] = due[j + 1]
  <2>1. 0 \in 0..(Len(due) - 1)
    BY LenProperties, EmptySeq
  <2>2. QED
    BY <2>1, AfterTail
<1> SUFFICES ASSUME NEW k \in 1..(Len(due) - 1)
             PROVE  DueAt(Tail(due), word, k)
  BY <1>1 DEF DueOK
<1>2. k + 1 \in 1..Len(due) /\ k \in 0..(Len(due) - 1) /\ Tail(due)[k] = due[k + 1]
  BY <1>1
<1>3. DueAt(due, word, k + 1)
  BY <1>2 DEF DueOK
<1>4. \A directives : After(Tail(due), k, directives) <=> After(due, k + 1, directives)
  BY <1>2, AfterTail
<1>5. ASSUME NEW sound, Mends(due, word, k + 1, sound)
      PROVE  Mends(Tail(due), word, k, sound)
  BY <1>2, <1>5, MendsByTheRest
<1>6. QED
  BY <1>2, <1>3, <1>4, <1>5 DEF DueAt

(* What a directive that stops nothing makes of a performance. *)
Changed(sound, directive, volume) ==
    Performance(sound.track,
                IF directive = "Pause" THEN "Paused"
                ELSE IF directive = "Resume" THEN "Playing" ELSE sound.state,
                IF directive = "SetVolume" THEN volume ELSE sound.volume)

LEMMA HeadIsHeard ==
    ASSUME NEW due \in Seq(AimedTransition), due # <<>>, NEW word, DueOK(due, word),
           due[1].directive \notin Silencing,
           NEW sound, sound.state \in {"Playing", "Paused"}, Mends(due, word, 0, sound)
    PROVE  Mends(Tail(due), word, 0, Changed(sound, due[1].directive, due[1].volume))
<1> DEFINE changed == Changed(sound, due[1].directive, due[1].volume)
<1>1. Len(due) \in Nat \ {0}
  BY LenProperties, EmptySeq
<1>2. 1 \in 1..Len(due) /\ 0 \in 0..(Len(due) - 1)
  BY <1>1
<1>3. \A directives :
         After(due, 0, directives) <=> due[1].directive \in directives \/ After(due, 1, directives)
  BY <1>2, AfterTail
<1>4. ASSUME After(due, 0, Silencing)
      PROVE  Mends(due, word, 1, changed)
  BY <1>3, <1>4 DEF Mends
<1>5. ASSUME BroughtAbout(due, word, 0, sound)
      PROVE  Mends(due, word, 1, changed)
  <2>1. /\ changed.track = sound.track
        /\ changed.state = IF due[1].directive = "Pause" THEN "Paused"
                           ELSE IF due[1].directive = "Resume" THEN "Playing" ELSE sound.state
        /\ changed.volume = IF due[1].directive = "SetVolume" THEN due[1].volume
                                                              ELSE sound.volume
    BY DEF Changed, Performance
  <2> HIDE DEF changed
  <2>2. HoldSettled(due, word, 1)
    BY <1>1, <1>5 DEF BroughtAbout, HoldSettled
  <2>3. /\ due[1].directive = "Pause" /\ word.hold = "None" => After(due, 1, {"Resume"})
        /\ due[1].directive = "Resume" /\ word.hold # "None" => After(due, 1, {"Pause"})
    BY <1>1, <1>2, <1>5 DEF BroughtAbout, HoldSettled
  <2>4. due[1].directive = "SetVolume" /\ due[1].volume # word.volume
           => After(due, 1, {"SetVolume"})
    BY <1>2 DEF DueOK, DueAt
  <2>5. changed.volume # word.volume => After(due, 1, {"SetVolume"})
    BY <1>3, <1>5, <2>1, <2>4 DEF BroughtAbout
  <2>6. changed.state = "Playing" /\ word.hold # "None" => After(due, 1, {"Pause"})
    BY <1>3, <1>5, <2>1, <2>3 DEF BroughtAbout
  <2>7. changed.state = "Paused" /\ word.hold = "None" => After(due, 1, {"Resume"})
    BY <1>3, <1>5, <2>1, <2>3 DEF BroughtAbout
  <2>8. QED
    BY <1>5, <2>1, <2>2, <2>5, <2>6, <2>7 DEF BroughtAbout, Mends
<1> HIDE DEF changed
<1>6. Mends(due, word, 0 + 1, changed)
  <2>1. Mends(due, word, 1, changed)
    BY <1>4, <1>5 DEF Mends
  <2>2. 0 + 1 = 1
    OBVIOUS
  <2>3. QED
    BY <2>1, <2>2
<1>7. Mends(Tail(due), word, 0, changed)
  BY <1>2, <1>6, MendsByTheRest
<1>8. QED
  BY <1>7 DEF changed

-----------------------------------------------------------------------------
(* What is due, as the actor, the worker and the answers handle it.        *)

LEMMA DueIsALine ==
    ASSUME IInv
    PROVE  Sent \in Seq(AimedTransition) /\ Due \in Seq(AimedTransition)
<1>1. Sent \in Seq(AimedTransition)
  BY ConcatProperties DEF IInv, TransitionsOK, WorkerOK, Sent
<1>2. emitted.directive # "None" => Carried \in AimedTransition
  BY CarriedIsAimed DEF IInv, ActorOK
<1>3. QED
  BY <1>1, <1>2, AppendProperties DEF Due

LEMMA PerformancesAreTracks ==
    ASSUME IInv
    PROVE  /\ Sounding => Heard.track \in Items /\ Heard.state \in {"Playing", "Paused"}
           /\ InHand => ToBeHeard.track \in Items /\ ToBeHeard.state = "Playing"
BY DEF IInv, StageOK, WorkerOK, Sounding, InHand, Heard, ToBeHeard, Performance

(* One transition put aside before the others. *)
LEMMA OneBefore ==
    ASSUME NEW S, NEW s \in Seq(S), NEW t \in Seq(S), Len(s) = 1
    PROVE  s \o t # <<>> /\ (s \o t)[1] = Head(s) /\ Tail(s \o t) = t
<1>1. /\ s \o t \in Seq(S) /\ Len(s \o t) = 1 + Len(t)
      /\ \A i \in 1..(1 + Len(t)) : (s \o t)[i] = IF i <= 1 THEN s[i] ELSE t[i - 1]
  <2>1. /\ s \o t \in Seq(S) /\ Len(s \o t) = Len(s) + Len(t)
        /\ \A i \in 1..(Len(s) + Len(t)) :
              (s \o t)[i] = IF i <= Len(s) THEN s[i] ELSE t[i - Len(s)]
    BY ConcatProperties
  <2>2. QED
    BY <2>1
<1>2. Len(t) \in Nat
  BY LenProperties
<1>3. s \o t # <<>>
  BY <1>1, <1>2, EmptySeq
<1>4. /\ Tail(s \o t) \in Seq(S) /\ Len(Tail(s \o t)) = Len(t)
      /\ \A i \in 1..Len(t) : Tail(s \o t)[i] = (s \o t)[i + 1]
  BY <1>1, <1>2, <1>3, HeadTailProperties
<1>5. \A i \in 1..Len(t) : Tail(s \o t)[i] = t[i]
  <2> SUFFICES ASSUME NEW i \in 1..Len(t)
               PROVE  Tail(s \o t)[i] = t[i]
    OBVIOUS
  <2>1. i + 1 \in 1..(1 + Len(t)) /\ ~(i + 1 <= 1) /\ (i + 1) - 1 = i
    BY <1>2
  <2>2. (s \o t)[i + 1] = t[i]
    BY <1>1, <2>1
  <2>3. QED
    BY <1>4, <2>2
<1>6. Tail(s \o t) = t
  BY <1>4, <1>5, SeqEqual
<1>7. (s \o t)[1] = Head(s)
  BY <1>1, <1>2
<1>8. QED
  BY <1>3, <1>6, <1>7

LEMMA HeadThenTail ==
    ASSUME NEW S, NEW s \in Seq(S), s # <<>>
    PROVE  <<Head(s)>> \o Tail(s) = s
<1> DEFINE again == <<Head(s)>> \o Tail(s)
<1>1. /\ Head(s) \in S /\ Tail(s) \in Seq(S) /\ Len(Tail(s)) = Len(s) - 1
      /\ \A i \in 1..Len(Tail(s)) : Tail(s)[i] = s[i + 1]
      /\ Len(s) \in Nat
  BY HeadTailProperties, LenProperties
<1>2. <<Head(s)>> \in Seq(S) /\ Len(<<Head(s)>>) = 1 /\ Head(<<Head(s)>>) = Head(s)
  BY <1>1
<1>3. /\ again \in Seq(S) /\ Len(again) = Len(s) /\ again # <<>>
      /\ again[1] = Head(s) /\ Tail(again) = Tail(s)
  BY <1>1, <1>2, OneBefore, ConcatProperties
<1> HIDE DEF again
<1>4. ASSUME NEW i \in 1..Len(again)
      PROVE  again[i] = s[i]
  <2>1. CASE i = 1
    BY <1>3, <2>1
  <2>2. CASE i # 1
    <3>1. i - 1 \in 1..Len(Tail(s)) /\ (i - 1) + 1 = i
      BY <1>1, <1>3, <2>2
    <3>2. Tail(again)[i - 1] = again[i] /\ Tail(s)[i - 1] = s[i]
      BY <1>1, <1>3, <3>1, HeadTailProperties
    <3>3. QED
      BY <1>3, <3>2
  <2>3. QED
    BY <2>1, <2>2
<1>5. again = s
  BY <1>3, <1>4, SeqEqual
<1>6. QED
  BY <1>5 DEF again

LEMMA ApplyEmptiesHands ==
    ASSUME NEW transition, Apply(transition)
    PROVE  worker'.deferred = <<>> /\ worker'.pc \in {"Receiving", "Preparing", "Joining"}
<1>1. CASE Rest
  BY <1>1 DEF Rest, Resting
<1>2. CASE ~Rest
  <2> DEFINE working == [Resting EXCEPT !.volume = transition.volume]
  <2>1. working = [pc |-> "Receiving", asks |-> "Snapshot", item |-> None, channel |-> None,
                   volume |-> transition.volume, deferred |-> <<>>]
    BY DEF Resting
  <2>2. \/ worker' = [working EXCEPT !.pc = "Joining", !.channel = transition.target]
        \/ worker' = [working EXCEPT !.pc = "Preparing", !.item = transition.target,
                                     !.channel = transition.channel]
    BY <1>2 DEF Apply
  <2> HIDE DEF working
  <2>3. QED
    BY <2>1, <2>2
<1>3. QED
  BY <1>1, <1>2

(* The worker applies the first of what is due. *)
LEMMA FirstDueIsTaken ==
    ASSUME IInv, Listening, TakeDeferred \/ TakeTransition
    PROVE  Due # <<>> /\ Apply(Due[1]) /\ Due' = Tail(Due)
<1>1. /\ transitions \in Seq(AimedTransition) /\ worker.deferred \in Seq(AimedTransition)
      /\ Sent \in Seq(AimedTransition)
  BY DueIsALine DEF IInv, TransitionsOK, WorkerOK
<1>2. Sent # <<>> /\ Apply(Sent[1]) /\ Sent' = Tail(Sent)
  <2>1. CASE TakeDeferred
    <3>1. Len(worker.deferred) = 1
      <4>1. Len(worker.deferred) \in Nat \ {0}
        BY <1>1, <2>1, EmptySeq DEF TakeDeferred
      <4>2. Len(worker.deferred) <= 1
        BY DEF Listening
      <4>3. \A n \in Nat \ {0} : n <= 1 => n = 1
        OBVIOUS
      <4>4. QED
        BY <4>1, <4>2, <4>3, Zenon
    <3>2. Sent # <<>> /\ Sent[1] = Head(worker.deferred) /\ Tail(Sent) = transitions
      BY <1>1, <3>1, OneBefore DEF Sent
    <3>3. worker'.deferred = <<>> /\ transitions' = transitions
      BY <2>1, ApplyEmptiesHands DEF TakeDeferred
    <3>4. Sent' = transitions
      BY <1>1, <3>3, ConcatEmptySeq DEF Sent
    <3>5. QED
      BY <2>1, <3>2, <3>4 DEF TakeDeferred
  <2>2. CASE TakeTransition
    <3>1. Sent = transitions
      BY <1>1, <2>2, ConcatEmptySeq DEF Sent, TakeTransition
    <3>2. transitions # <<>> /\ Apply(Head(transitions)) /\ transitions' = Tail(transitions)
      BY <2>2 DEF TakeTransition
    <3>3. Tail(transitions) \in Seq(AimedTransition)
      BY <1>1, <3>2, HeadTailProperties
    <3>4. Sent' = Tail(transitions)
      BY <3>2, <3>3, ApplyEmptiesHands, ConcatEmptySeq DEF Sent
    <3>5. Head(transitions) = transitions[1]
      BY <1>1, <3>2
    <3>6. QED
      BY <3>1, <3>2, <3>4, <3>5
  <2>3. QED
    BY <2>1, <2>2
<1>3. UNCHANGED vars
  BY DEF TakeDeferred, TakeTransition, WorkerAlone
<1>4. CASE emitted.directive = "None"
  BY <1>2, <1>3, <1>4 DEF Due, vars
<1>5. CASE emitted.directive # "None"
  <2>1. Carried \in AimedTransition /\ Carried' = Carried /\ emitted' = emitted
    BY <1>3, <1>5, CarriedIsAimed DEF IInv, ActorOK, vars, session, Carried
  <2>2. Due = Append(Sent, Carried) /\ Due' = Append(Tail(Sent), Carried)
    BY <1>2, <1>5, <2>1 DEF Due
  <2>3. Tail(Append(Sent, Carried)) = Append(Tail(Sent), Carried)
    BY <1>1, <1>2, HeadTailAppend
  <2>4. Append(Sent, Carried) # <<>> /\ Append(Sent, Carried)[1] = Sent[1]
    <3>1. 1 \in 1..Len(Sent)
      BY <1>1, <1>2, EmptySeq
    <3>2. QED
      BY <1>1, <2>1, <3>1, AppendProperties
  <2>5. QED
    BY <1>2, <2>2, <2>3, <2>4
<1>6. QED
  BY <1>4, <1>5

(* Whatever supersedes a preparation is put aside, not lost. *)
LEMMA SupersedingIsDue ==
    ASSUME IInv, Listening, Supersede
    PROVE  Due' = Due
<1>1. transitions \in Seq(AimedTransition) /\ transitions # <<>> /\ worker.deferred = <<>>
  BY DEF IInv, TransitionsOK, Supersede, At, Listening
<1>2. worker'.deferred = <<Head(transitions)>> /\ transitions' = Tail(transitions)
  BY DEF Supersede, Resting
<1>3. <<Head(transitions)>> \o Tail(transitions) = transitions
  BY <1>1, HeadThenTail
<1>4. Sent' = Sent
  BY <1>1, <1>2, <1>3, ConcatEmptySeq DEF Sent
<1>5. UNCHANGED vars
  BY DEF Supersede, WorkerAlone
<1>6. QED
  BY <1>4, <1>5 DEF Due, vars, session, Carried

(* An answer hands what the actor said to the channel. *)
LEMMA AnsweringIsDue ==
    ASSUME IInv, Listening, Answer, ~WorkerGone
    PROVE  Due' = Due
<1>1. worker'.deferred = worker.deferred
  BY DEF Answer, Resting, Listening
<1>2. emitted'.directive = "None"
  BY DirectiveOf DEF Answer
<1>3. CASE emitted.directive = "None"
  <2>1. transitions' = transitions
    BY <1>3 DEF Answer
  <2>2. QED
    BY <1>1, <1>2, <1>3, <2>1 DEF Due, Sent
<1>4. CASE emitted.directive # "None"
  <2>1. transitions' = Append(transitions, Carried) /\ Carried \in AimedTransition
    BY <1>4, CarriedIsAimed DEF Answer, IInv, ActorOK
  <2>2. /\ transitions \in Seq(AimedTransition) /\ worker.deferred \in Seq(AimedTransition)
        /\ <<Carried>> \in Seq(AimedTransition) /\ Sent \in Seq(AimedTransition)
    BY <2>1, DueIsALine DEF IInv, TransitionsOK, WorkerOK
  <2>3. Append(transitions, Carried) = transitions \o <<Carried>>
        /\ Append(Sent, Carried) = Sent \o <<Carried>>
    BY <2>1, <2>2, AppendIsConcat
  <2>4. (worker.deferred \o transitions) \o <<Carried>>
           = worker.deferred \o (transitions \o <<Carried>>)
    <3> DEFINE S == AimedTransition
               line == worker.deferred
               more == <<Carried>>
    <3>1. line \in Seq(S) /\ transitions \in Seq(S) /\ more \in Seq(S)
      BY <2>2
    <3> HIDE DEF S, line, more
    <3>2. (line \o transitions) \o more = line \o (transitions \o more)
      BY <3>1, ConcatAssociative
    <3>3. QED
      BY <3>2 DEF line, more
  <2>5. QED
    BY <1>1, <1>2, <1>4, <2>1, <2>3, <2>4 DEF Due, Sent
<1>5. QED
  BY <1>3, <1>4

-----------------------------------------------------------------------------
(* Every step leaves what the room hears wrongly being mended.             *)

LEMMA NothingSaid ==
    ASSUME Mended, Due' = Due, Word' = Word,
           Sounding' => (Sounding /\ Heard' = Heard) \/ (InHand /\ Heard' = ToBeHeard),
           InHand' => InHand /\ ToBeHeard' = ToBeHeard,
           stage'.channel # None \/ InHand' \/ worker'.pc = "Joining"
              => stage.channel # None \/ InHand \/ worker.pc = "Joining"
    PROVE  Mended'
<1>1. voice_channel_id' = voice_channel_id
  BY DEF Word
<1>2. DueOK(Due', Word') /\ (Sounding' => Mends(Due', Word', 0, Heard'))
      /\ (InHand' => Mends(Due', Word', 0, ToBeHeard'))
  BY DEF Mended
<1>3. voice_channel_id' = None /\ (stage'.channel # None \/ InHand' \/ worker'.pc = "Joining")
         => After(Due', 0, Leaving)
  BY <1>1 DEF Mended
<1>4. QED
  BY <1>2, <1>3 DEF Mended

LEMMA ActorSays ==
    ASSUME IInv, IInv', Mended, emitted.directive = "None", Says,
           UNCHANGED <<worker, transitions, stage>>
    PROVE  Mended'
<1>1. Due = Sent /\ Sent' = Sent /\ Due \in Seq(AimedTransition)
  BY DueIsALine DEF Due, Sent
<1>2. /\ Sounding' = Sounding /\ InHand' = InHand /\ Heard' = Heard /\ ToBeHeard' = ToBeHeard
  BY DEF Sounding, InHand, Heard, ToBeHeard
<1>3. CASE emitted'.directive = "None"
  <2>1. Word' = Word
    BY <1>3 DEF Says, Said, Starting, GivingUp
  <2>2. Due' = Due
    BY <1>1, <1>3 DEF Due
  <2>3. QED
    BY <1>2, <2>1, <2>2, NothingSaid
<1>4. CASE emitted'.directive # "None"
  <2> DEFINE t == Carried'
  <2>1. t \in AimedTransition
    <3>1. emitted.directive # "None" /\ TypeOK /\ Aimed(emitted) => Carried \in AimedTransition
      BY CarriedIsAimed
    <3>2. (emitted.directive # "None" /\ TypeOK /\ Aimed(emitted)
              => Carried \in AimedTransition)'
      BY <3>1, CarriedIsAimed, PTL
    <3>3. QED
      BY <1>4, <3>2 DEF IInv, ActorOK
  <2>2. /\ t.directive = emitted'.directive /\ t.target = emitted'.target
        /\ t.channel = Word'.channel /\ t.volume = Word'.volume
        /\ Word'.channel = voice_channel_id' /\ Word.channel = voice_channel_id
    BY DEF Carried, Word
  <2>3. Due' = Append(Due, t)
    BY <1>1, <1>4 DEF Due
  <2> HIDE DEF t
  <2>4. Said(Word, Word', t.directive, t.target)
    BY <2>2 DEF Says
  <2>5. DueOK(Append(Due, t), Word')
    BY <1>1, <2>1, <2>2, <2>4, LineGrows DEF Mended
  <2>6. 0 \in 0..Len(Due)
    BY <1>1, LenProperties
  <2>7. Sounding => Mends(Append(Due, t), Word', 0, Heard)
    BY <1>1, <2>1, <2>4, <2>6, StaysMended, PerformancesAreTracks DEF Mended
  <2>8. InHand => Mends(Append(Due, t), Word', 0, ToBeHeard)
    BY <1>1, <2>1, <2>4, <2>6, StaysMended, PerformancesAreTracks DEF Mended
  <2>9. voice_channel_id' = None /\ (stage.channel # None \/ InHand \/ worker.pc = "Joining")
           => After(Append(Due, t), 0, Leaving)
    <3>1. CASE t.directive \in Leaving
      BY <1>1, <2>1, <2>6, <3>1, AfterAppend
    <3>2. CASE t.directive \notin Leaving
      <4>1. voice_channel_id' = None => voice_channel_id = None
        BY <2>1, <2>2, <2>4, <3>2
           DEF Said, Leaving, GivingUp, AimedTransition, CarriedTransition
      <4>2. QED
        BY <1>1, <2>1, <2>6, <4>1, AfterAppend DEF Mended
    <3>3. QED
      BY <3>1, <3>2
  <2>10. QED
    BY <1>2, <2>3, <2>5, <2>7, <2>8, <2>9 DEF Mended
<1>5. QED
  BY <1>3, <1>4

(* A directive that stops the track leaves a silent stage, and one that    *)
(* starts another leaves the worker with that in hand.                     *)
LEMMA TakingSilences ==
    ASSUME IInv, Due # <<>>, Mended, Apply(Due[1]), Due' = Tail(Due), Word' = Word,
           Due[1].directive \in Silencing
    PROVE  Mended'
<1> DEFINE t == Due[1]
<1>1. Due \in Seq(AimedTransition) /\ Len(Due) \in Nat \ {0}
  BY DueIsALine, EmptySeq
<1>2. 1 \in 1..Len(Due) /\ 0 \in 0..(Len(Due) - 1) /\ 0 + 1 = 1
  BY <1>1
<1>3. t \in AimedTransition /\ DueAt(Due, Word, 1)
  BY <1>1, <1>2, ElementOfSeq DEF Mended, DueOK
<1>4. \A directives :
         /\ After(Tail(Due), 0, directives) <=> After(Due, 1, directives)
         /\ After(Due, 0, directives) <=> t.directive \in directives \/ After(Due, 1, directives)
  BY <1>1, <1>2, AfterTail
<1>5. DueOK(Tail(Due), Word)
  BY <1>1, LineShortens DEF Mended
<1>6. stage'.driver = "Silent"
      /\ (t.directive \in Leaving => stage'.channel = None)
      /\ (t.directive \notin Leaving => stage'.channel = stage.channel)
  BY <1>3 DEF Apply, StopStage, Silence, Silencing, Leaving, Starting
<1>7. \/ /\ worker'.pc = "Preparing" /\ Starts(t)
         /\ worker'.item = t.target /\ worker'.volume = t.volume
      \/ worker'.pc = "Receiving"
  <2>1. CASE Rest
    BY <2>1 DEF Rest, Resting
  <2>2. CASE ~Rest
    <3> DEFINE working == [Resting EXCEPT !.volume = t.volume]
    <3>1. working = [pc |-> "Receiving", asks |-> "Snapshot", item |-> None, channel |-> None,
                     volume |-> t.volume, deferred |-> <<>>]
      BY DEF Resting
    <3>2. /\ t.directive \in Starting /\ t.channel # None
          /\ worker' = [working EXCEPT !.pc = "Preparing", !.item = t.target,
                                       !.channel = t.channel]
      BY <2>2 DEF Apply, Silencing, Leaving, Starting
    <3> HIDE DEF working
    <3>3. QED
      BY <3>1, <3>2 DEF Starts
  <2>3. QED
    BY <2>1, <2>2
<1>8. voice_channel_id' = Word.channel /\ voice_channel_id = Word.channel
  BY DEF Word
<1> HIDE DEF t
<1>9. ~Sounding'
  BY <1>6 DEF Sounding
<1>10. InHand' => Mends(Tail(Due), Word, 0, ToBeHeard')
  <2> SUFFICES ASSUME InHand'
               PROVE  Mends(Tail(Due), Word, 0, ToBeHeard')
    OBVIOUS
  <2>1. Starts(t) /\ ToBeHeard' = Performance(t.target, "Playing", t.volume)
    BY <1>7 DEF InHand, ToBeHeard
  <2>2. Mends(Due, Word, 0 + 1, ToBeHeard')
    BY <1>2, <1>3, <2>1 DEF DueAt, t
  <2>3. QED
    BY <1>1, <1>2, <2>2, MendsByTheRest
<1>11. voice_channel_id' = None /\ (stage'.channel # None \/ InHand' \/ worker'.pc = "Joining")
          => After(Tail(Due), 0, Leaving)
  <2> SUFFICES ASSUME voice_channel_id' = None,
                      stage'.channel # None \/ InHand' \/ worker'.pc = "Joining"
               PROVE  After(Due, 1, Leaving)
    BY <1>4
  <2>1. CASE Starts(t)
    BY <1>3, <1>8, <2>1 DEF DueAt, Takes, t
  <2>2. CASE ~Starts(t)
    <3>1. stage'.channel # None
      BY <1>7, <2>2 DEF InHand
    <3>2. stage.channel # None /\ t.directive \notin Leaving
      BY <1>6, <3>1
    <3>3. After(Due, 0, Leaving)
      BY <1>8, <3>2 DEF Mended
    <3>4. QED
      BY <1>4, <3>2, <3>3
  <2>3. QED
    BY <2>1, <2>2
<1>12. QED
  BY <1>5, <1>9, <1>10, <1>11 DEF Mended

(* Any other directive changes the track that plays, or nothing.           *)
LEMMA TakingAdjusts ==
    ASSUME IInv, Due # <<>>, Mended, Apply(Due[1]), Due' = Tail(Due), Word' = Word,
           Due[1].directive \notin Silencing
    PROVE  Mended'
<1> DEFINE t == Due[1]
<1>1. Due \in Seq(AimedTransition) /\ Len(Due) \in Nat \ {0}
  BY DueIsALine, EmptySeq
<1>2. 1 \in 1..Len(Due) /\ 0 \in 0..(Len(Due) - 1)
  BY <1>1
<1>3. t \in AimedTransition /\ DueAt(Due, Word, 1)
  BY <1>1, <1>2, ElementOfSeq DEF Mended, DueOK
<1>4. \A directives :
         /\ After(Tail(Due), 0, directives) <=> After(Due, 1, directives)
         /\ After(Due, 0, directives) <=> t.directive \in directives \/ After(Due, 1, directives)
  BY <1>1, <1>2, AfterTail
<1>5. DueOK(Tail(Due), Word)
  BY <1>1, LineShortens DEF Mended
<1>6. /\ t.directive \in {"Join", "Pause", "Resume", "SetVolume", "IdleExpired"}
      /\ worker'.pc = IF t.directive = "Join" THEN "Joining" ELSE "Receiving"
      /\ stage'.channel = stage.channel
  <2>1. t.directive \in {"Join", "Pause", "Resume", "SetVolume", "IdleExpired"}
    BY <1>3 DEF AimedTransition, CarriedTransition, PlaybackDirective, Silencing, Leaving,
                Starting
  <2>2. CASE t.directive = "Join"
    BY <2>2 DEF Apply, Resting, Starting
  <2>3. CASE t.directive # "Join"
    BY <2>1, <2>3 DEF Apply, Rest, Resting, Starting, IInv, StageOK
  <2>4. QED
    BY <2>1, <2>2, <2>3
<1>7. Sounding' => Sounding /\ Heard' = Changed(Heard, t.directive, t.volume)
  <2> SUFFICES ASSUME Sounding'
               PROVE  Sounding /\ Heard' = Changed(Heard, t.directive, t.volume)
    OBVIOUS
  <2>1. Sounding
    BY <1>6 DEF Apply, Sounding, Starting, IInv, StageOK
  <2>2. /\ stage.driver \in {"Playing", "Paused"} /\ stage.track # None
        /\ stage \in [channel: VoiceChannels \cup {None}, track: Items \cup {None},
                      driver: {"Silent", "Playing", "Paused", "Ended"}, volume: 1..MaxVolume]
    BY <2>1, ConstantsAssumption DEF IInv, StageOK, Sounding
  <2>3. /\ stage'.track = stage.track
        /\ stage'.driver = IF t.directive = "Pause" THEN "Paused"
                           ELSE IF t.directive = "Resume" THEN "Playing" ELSE stage.driver
        /\ stage'.volume = IF t.directive = "SetVolume" THEN t.volume ELSE stage.volume
    <3>1. CASE t.directive \in {"Join", "IdleExpired"}
      BY <3>1 DEF Apply, Starting
    <3>2. CASE t.directive = "Pause"
      BY <2>2, <3>2 DEF Apply, Starting
    <3>3. CASE t.directive = "Resume"
      BY <2>2, <3>3 DEF Apply, Starting
    <3>4. CASE t.directive = "SetVolume"
      BY <2>2, <3>4 DEF Apply, Starting
    <3>5. QED
      BY <1>6, <3>1, <3>2, <3>3, <3>4
  <2> HIDE DEF t
  <2>4. QED
    BY <2>1, <2>3 DEF Heard, Changed, Performance
<1>8. voice_channel_id' = Word.channel /\ voice_channel_id = Word.channel
  BY DEF Word
<1>9. Sounding' => Mends(Tail(Due), Word, 0, Heard')
  BY <1>1, <1>7, HeadIsHeard, PerformancesAreTracks DEF Mended
<1>10. ~InHand'
  BY <1>6 DEF InHand
<1>11. voice_channel_id' = None /\ (stage'.channel # None \/ InHand' \/ worker'.pc = "Joining")
          => After(Tail(Due), 0, Leaving)
  <2> SUFFICES ASSUME voice_channel_id' = None,
                      stage'.channel # None \/ worker'.pc = "Joining"
               PROVE  After(Due, 1, Leaving)
    BY <1>4, <1>10
  <2>1. CASE t.directive = "Join"
    BY <1>3, <1>8, <2>1 DEF DueAt, Takes
  <2>2. CASE t.directive # "Join"
    <3>1. stage.channel # None /\ t.directive \notin Leaving
      BY <1>6, <2>2 DEF Leaving
    <3>2. After(Due, 0, Leaving)
      BY <1>8, <3>1 DEF Mended
    <3>3. QED
      BY <1>4, <3>1, <3>2
  <2>3. QED
    BY <2>1, <2>2
<1>12. QED
  BY <1>5, <1>9, <1>10, <1>11 DEF Mended

LEMMA NothingMoved ==
    ASSUME UNCHANGED <<emitted, voice_channel_id, current, hold, volume_percent, transitions>>,
           worker'.deferred = worker.deferred
    PROVE  Due' = Due /\ Word' = Word
BY DEF Due, Sent, Carried, Word

LEMMA StageUnmoved ==
    ASSUME UNCHANGED stage
    PROVE  Sounding' = Sounding /\ Heard' = Heard /\ stage'.channel = stage.channel
BY DEF Sounding, Heard

(* What the worker has in hand, as it turns to something else. *)
LEMMA HandsTurn ==
    ASSUME WorkerOK
    PROVE  /\ Rest => worker'.pc = "Receiving" /\ worker'.deferred = <<>>
           /\ \A what : Ask(what) =>
                 /\ worker'.pc = "Asking" /\ worker'.asks = what
                 /\ UNCHANGED <<worker.item, worker.volume, worker.deferred>>
           /\ \A pc : Proceed(pc) =>
                 /\ worker'.pc = pc
                 /\ UNCHANGED <<worker.asks, worker.item, worker.volume, worker.deferred>>
<1>1. Rest => worker'.pc = "Receiving" /\ worker'.deferred = <<>>
  BY DEF Rest, Resting
<1>2. ASSUME NEW what, Ask(what)
      PROVE  /\ worker'.pc = "Asking" /\ worker'.asks = what
             /\ UNCHANGED <<worker.item, worker.volume, worker.deferred>>
  BY <1>2 DEF WorkerOK, Ask
<1>3. ASSUME NEW pc, Proceed(pc)
      PROVE  /\ worker'.pc = pc
             /\ UNCHANGED <<worker.asks, worker.item, worker.volume, worker.deferred>>
  BY <1>3 DEF WorkerOK, Proceed
<1>4. QED
  BY <1>1, <1>2, <1>3

LEMMA ActorKeepsMInv ==
    ASSUME IInv, IInv', MInv, ServeCommand \/ ServeTimer
    PROVE  MInv'
<1>1. UNCHANGED <<transitions, worker, stage, runtime>> /\ emitted.directive = "None"
  BY DEF ServeCommand, ServeTimer, MInv, Listening
<1>2. Says
  <2>c. Countdown
    BY DEF IInv, ActorOK
  <2>1. CASE ServeCommand
    <3>1. running /\ Addressed(Head(mailbox)) /\ Handle(Head(mailbox))
      BY <2>1, SessionAssumption, TakeOne DEF IInv, MailboxOK, ServeCommand
    <3>2. QED
      BY <2>c, <3>1, HandleIsNext, NextSays, UnchangedSays
  <2>2. CASE ServeTimer
    BY <2>c, <2>2, TimeoutSays DEF ServeTimer
  <2>3. QED
    BY <2>1, <2>2
<1>3. ~Idle'
  <2>1. CASE ServeCommand
    <3>1. Head(mailbox) \in MailboxCommand
      BY <2>1, SessionAssumption, TakeOne DEF IInv, MailboxOK, ServeCommand
    <3>2. QED
      BY <2>1, <3>1 DEF ServeCommand, MailboxCommand, Idle
  <2>2. CASE ServeTimer
    BY <2>2 DEF ServeTimer, Idle
  <2>3. QED
    BY <2>1, <2>2
<1>4. Listening'
  BY <1>1, <1>3 DEF MInv, Listening, Cancelled
<1>5. runtime' # "Cancelled" /\ worker'.pc # "Left" => Mended'
  BY <1>1, <1>2, ActorSays DEF MInv
<1>6. QED
  BY <1>4, <1>5 DEF MInv

LEMMA AnswerKeepsMInv ==
    ASSUME IInv, MInv, Answer
    PROVE  MInv'
<1>1. /\ emitted'.directive = "None" /\ UNCHANGED stage
      /\ Word' = Word /\ (runtime = "Cancelled" => runtime' = "Cancelled")
  BY DirectiveOf DEF Answer, Word
<1>2. /\ worker'.deferred = worker.deferred
      /\ \/ UNCHANGED worker
         \/ worker' = Resting /\ worker.pc = "Awaiting"
         \/ /\ worker.pc = "Awaiting" /\ worker.asks = "Snapshot"
            /\ worker'.pc = "Connecting" /\ UNCHANGED <<worker.item, worker.volume>>
  BY DEF Answer, Resting, MInv, Listening, IInv, WorkerOK
<1>3. Listening'
  BY <1>1, <1>2 DEF MInv, Listening, Resting, Cancelled
<1>4. ASSUME runtime' # "Cancelled", worker'.pc # "Left"
      PROVE  Mended'
  <2>1. ~WorkerGone /\ runtime # "Cancelled" /\ worker.pc # "Left"
    BY <1>1, <1>2, <1>4 DEF MInv, Listening, WorkerGone, Cancelled
  <2>2. Due' = Due
    BY <2>1, AnsweringIsDue DEF MInv
  <2>3. /\ InHand' => InHand /\ ToBeHeard' = ToBeHeard
        /\ worker'.pc = "Joining" => worker.pc = "Joining"
    BY <1>2 DEF InHand, ToBeHeard, Resting
  <2>4. QED
    BY <1>1, <2>1, <2>2, <2>3, StageUnmoved, NothingSaid DEF MInv
<1>5. QED
  BY <1>3, <1>4 DEF MInv

LEMMA TakeKeepsMInv ==
    ASSUME IInv, MInv, TakeDeferred \/ TakeTransition
    PROVE  MInv'
<1>1. Due # <<>> /\ Apply(Due[1]) /\ Due' = Tail(Due)
  BY FirstDueIsTaken DEF MInv
<1>2. UNCHANGED <<vars, serving, runtime>> /\ worker.pc = "Receiving"
  BY DEF TakeDeferred, TakeTransition, WorkerAlone, At
<1>3. Word' = Word
  BY <1>2 DEF vars, session, Word
<1>4. worker'.deferred = <<>> /\ worker'.pc \in {"Receiving", "Preparing", "Joining"}
  BY <1>1, ApplyEmptiesHands
<1>5. Listening'
  BY <1>2, <1>4 DEF MInv, Listening, vars, Idle
<1>6. Mended => Mended'
  BY <1>1, <1>3, TakingSilences, TakingAdjusts
<1>7. QED
  BY <1>2, <1>5, <1>6 DEF MInv

(* The steps that neither say nor apply anything.                          *)
LEMMA WorkerKeepsMInv ==
    ASSUME IInv, MInv,
           Supersede \/ FinishPreparing \/ AskActor \/ AnswerLost \/ FinishJoining
           \/ FinishConnecting
    PROVE  MInv'
<1>1. UNCHANGED <<vars, serving, runtime>> /\ worker.pc \notin {"Left", "Aborted", "Receiving"}
  BY DEF Supersede, FinishPreparing, AskActor, AnswerLost, FinishJoining, FinishConnecting,
         WorkerAlone, At
<1>w. /\ Rest => worker'.pc = "Receiving" /\ worker'.deferred = <<>>
      /\ \A what : Ask(what) =>
            /\ worker'.pc = "Asking" /\ worker'.asks = what
            /\ UNCHANGED <<worker.item, worker.volume, worker.deferred>>
      /\ \A pc : Proceed(pc) =>
            /\ worker'.pc = pc
            /\ UNCHANGED <<worker.asks, worker.item, worker.volume, worker.deferred>>
  BY HandsTurn DEF IInv
<1>d. worker.deferred = <<>>
  BY <1>1 DEF MInv, Listening
<1>2. worker'.pc \notin {"Left", "Aborted"}
  BY <1>w DEF Supersede, Resting, FinishPreparing, AskActor, AnswerLost, FinishJoining,
              FinishConnecting
<1>3. CASE Supersede
  <2>1. Due' = Due /\ Word' = Word
    BY <1>1, <1>3, SupersedingIsDue DEF MInv, vars, session, Word
  <2>2. /\ worker'.deferred = <<Head(transitions)>> /\ worker'.pc = "Receiving"
        /\ UNCHANGED stage
    BY <1>3 DEF Supersede, Resting
  <2>3. Mended => Mended'
    BY <2>1, <2>2, StageUnmoved, NothingSaid DEF InHand
  <2>4. Listening'
    BY <1>1, <2>2 DEF MInv, Listening, vars, Idle
  <2>5. QED
    BY <1>1, <2>3, <2>4 DEF MInv
<1>4. CASE ~Supersede
  <2>1. worker'.deferred = <<>> /\ UNCHANGED transitions
    BY <1>w, <1>d, <1>4 DEF FinishPreparing, AskActor, AnswerLost, FinishJoining,
                            FinishConnecting
  <2>2. Due' = Due /\ Word' = Word
    BY <1>1, <1>d, <2>1, NothingMoved DEF vars, session
  <2>3. Listening'
    BY <1>1, <1>2, <2>1 DEF MInv, Listening, vars, Idle
  <2>4. CASE FinishPreparing \/ AskActor \/ AnswerLost
    <3>1. UNCHANGED stage
      BY <2>4 DEF FinishPreparing, AskActor, AnswerLost
    <3>2. /\ InHand' => InHand /\ ToBeHeard' = ToBeHeard
          /\ worker'.pc # "Joining"
      BY <1>w, <2>4 DEF FinishPreparing, AskActor, AnswerLost, InHand, ToBeHeard, At
    <3>3. Mended => Mended'
      BY <2>2, <3>1, <3>2, StageUnmoved, NothingSaid
    <3>4. QED
      BY <1>1, <2>3, <3>3 DEF MInv
  <2>5. CASE FinishJoining
    <3>1. /\ worker.pc = "Joining" /\ worker'.pc \in {"Receiving", "Asking"}
          /\ worker'.pc = "Asking" => worker'.asks = "Park"
          /\ \/ stage' = [stage EXCEPT !.channel = worker.channel]
             \/ stage' = Silence(None)
      BY <1>w, <2>5 DEF FinishJoining, At
    <3>2. ~InHand' /\ worker'.pc # "Joining"
      BY <3>1 DEF InHand
    <3>3. Sounding' => Sounding /\ Heard' = Heard
      BY <3>1 DEF Sounding, Heard, Silence, IInv, StageOK
    <3>4. Mended => Mended'
      BY <2>2, <3>1, <3>2, <3>3, NothingSaid
    <3>5. QED
      BY <1>1, <2>3, <3>4 DEF MInv
  <2>6. CASE FinishConnecting
    <3>1. /\ worker.pc = "Connecting" /\ worker'.pc \in {"Receiving", "Asking"}
          /\ worker'.pc = "Asking" => worker'.asks \in {"Park", "Failed"}
          /\ \/ stage' = [channel |-> worker.channel, track |-> worker.item,
                          driver |-> "Playing", volume |-> worker.volume]
             \/ stage'.driver = "Silent"
      BY <1>w, <2>6 DEF FinishConnecting, At, Silence
    <3>2. ~InHand' /\ worker'.pc # "Joining" /\ InHand
      BY <3>1 DEF InHand
    <3>3. Sounding' => Heard' = ToBeHeard
      BY <3>1 DEF Sounding, Heard, ToBeHeard
    <3>4. Mended => Mended'
      BY <2>2, <3>2, <3>3, NothingSaid
    <3>5. QED
      BY <1>1, <2>3, <3>4 DEF MInv
  <2>7. QED
    BY <1>4, <2>4, <2>5, <2>6
<1>5. QED
  BY <1>3, <1>4

LEMMA OthersKeepMInv ==
    ASSUME IInv, MInv,
           Leave \/ Driver \/ Reporters \/ Clients \/ Runtime \/ UNCHANGED sessionVars
    PROVE  MInv'
<1>1. UNCHANGED <<vars, serving, transitions>> /\ (runtime = "Cancelled" => runtime' = "Cancelled")
  BY DEF Leave, Driver, DriverEnds, Reporters, ReportCompletion, Clients, ClientRequest, Runtime,
         SignalReceived, ShutdownRequest, CancelUnasked, AbortWorker, WorkerAlone, Cancelled,
         sessionVars, plumbing
<1>2. CASE Leave
  <2>1. worker'.pc = "Left" /\ worker'.deferred = worker.deferred /\ stage' = Silence(None)
    BY <1>2 DEF Leave, Proceed, StopStage, IInv, WorkerOK
  <2>2. worker.deferred = <<>>
    BY <1>2 DEF Leave, At, MInv, Listening
  <2>3. Listening'
    BY <1>1, <2>1, <2>2 DEF MInv, Listening, vars, Idle
  <2>4. QED
    BY <2>1, <2>3 DEF MInv
<1>3. CASE AbortWorker
  <2>1. worker'.pc = "Aborted" /\ worker'.deferred = worker.deferred /\ runtime' = "Cancelled"
    BY <1>3 DEF AbortWorker, Proceed, WorkerAlone, Cancelled, IInv, WorkerOK
  <2>2. Listening'
    BY <1>1, <2>1 DEF MInv, Listening, vars, Idle, Cancelled
  <2>3. QED
    BY <2>1, <2>2 DEF MInv
<1>4. CASE ~Leave /\ ~AbortWorker
  <2>1. UNCHANGED worker
    BY <1>4 DEF Driver, DriverEnds, Reporters, ReportCompletion, Clients, ClientRequest, Runtime,
                SignalReceived, ShutdownRequest, CancelUnasked, sessionVars, plumbing
  <2>2. UNCHANGED stage \/ (stage' = [stage EXCEPT !.driver = "Ended"] /\ stage.driver = "Playing")
    BY <1>4 DEF Driver, DriverEnds, Reporters, ReportCompletion, Clients, ClientRequest, Runtime,
                SignalReceived, ShutdownRequest, CancelUnasked, sessionVars, plumbing
  <2>3. Due' = Due /\ Word' = Word
    BY <1>1, <2>1, NothingMoved DEF vars, session
  <2>4. Sounding' => Sounding /\ Heard' = Heard
    BY <2>2 DEF Sounding, Heard, IInv, StageOK
  <2>5. stage'.channel = stage.channel /\ (stage' = stage \/ stage.driver = "Playing")
    BY <2>2 DEF IInv, StageOK
  <2>6. InHand' = InHand /\ ToBeHeard' = ToBeHeard
    BY <2>1 DEF InHand, ToBeHeard
  <2>7. Mended => Mended'
    BY <2>1, <2>3, <2>4, <2>5, <2>6, NothingSaid
  <2>8. Listening'
    BY <1>1, <2>1, <2>5 DEF MInv, Listening, vars, Idle, Cancelled, Silence
  <2>9. QED
    BY <1>1, <2>1, <2>7, <2>8 DEF MInv
<1>5. QED
  BY <1>2, <1>3, <1>4

LEMMA InitMInv == SessionInit => MInv
<1> SUFFICES ASSUME SessionInit
             PROVE  MInv
  OBVIOUS
<1>1. emitted.directive = "None" /\ worker = Resting /\ transitions = <<>>
      /\ stage = Silence(None)
  BY DirectiveOf DEF SessionInit, Init
<1>2. Listening
  BY <1>1 DEF Listening, Resting
<1>3. Due = <<>> /\ Len(Due) = 0
  BY <1>1, ConcatEmptySeq, EmptySeq DEF Due, Sent, Resting
<1>4. Mended
  BY <1>1, <1>3 DEF Mended, DueOK, Sounding, InHand, Silence, Resting
<1>5. QED
  BY <1>2, <1>4 DEF MInv

LEMMA MInvAlways == SessionSpec => []MInv
<1>1. IInv /\ IInv' /\ MInv /\ [SessionNext]_sessionVars => MInv'
  BY ActorKeepsMInv, AnswerKeepsMInv, TakeKeepsMInv, WorkerKeepsMInv, OthersKeepMInv
     DEF SessionNext, Actor, Worker
<1>2. QED
  BY <1>1, InitMInv, IInvAlways, PTL DEF SessionSpec

(* What is due is on its way. *)
LEMMA DueIsComing ==
    ASSUME IInv, NEW directives, After(Due, 0, directives)
    PROVE  Coming(directives)
<1>1. Sent \in Seq(AimedTransition) /\ Due \in Seq(AimedTransition)
  BY DueIsALine
<1>2. PICK j \in 1..Len(Due) : Due[j].directive \in directives
  BY DEF After
<1>3. /\ worker.deferred \in Seq(AimedTransition) /\ transitions \in Seq(AimedTransition)
      /\ DOMAIN worker.deferred = 1..Len(worker.deferred)
      /\ DOMAIN transitions = 1..Len(transitions)
      /\ Len(worker.deferred) \in Nat /\ Len(transitions) \in Nat
  BY LenProperties DEF IInv, WorkerOK, TransitionsOK
<1>4. ASSUME NEW i \in 1..Len(Sent)
      PROVE  Sent[i].directive \in Pipeline
  <2>1. /\ Len(Sent) = Len(worker.deferred) + Len(transitions)
        /\ Sent[i] = IF i <= Len(worker.deferred) THEN worker.deferred[i]
                     ELSE transitions[i - Len(worker.deferred)]
    BY <1>3, ConcatProperties DEF Sent
  <2>2. CASE i <= Len(worker.deferred)
    BY <1>3, <2>1, <2>2 DEF Pipeline
  <2>3. CASE ~(i <= Len(worker.deferred))
    <3>1. i - Len(worker.deferred) \in DOMAIN transitions
      BY <1>3, <2>1, <2>3
    <3>2. QED
      BY <2>1, <2>3, <3>1 DEF Pipeline
  <2>4. QED
    BY <2>2, <2>3
<1>5. CASE emitted.directive = "None"
  BY <1>2, <1>4, <1>5 DEF Due, Coming
<1>6. CASE emitted.directive # "None"
  <2>1. Carried \in AimedTransition /\ Carried.directive = emitted.directive
    BY <1>6, CarriedIsAimed DEF IInv, ActorOK, Carried
  <2>2. /\ Len(Due) = Len(Sent) + 1 /\ Due[Len(Sent) + 1] = Carried
        /\ \A i \in 1..Len(Sent) : Due[i] = Sent[i]
        /\ Len(Sent) \in Nat
    BY <1>1, <1>6, <2>1, AppendProperties, LenProperties DEF Due
  <2>3. CASE j = Len(Sent) + 1
    BY <1>2, <2>1, <2>2, <2>3 DEF Coming, Pipeline
  <2>4. CASE j # Len(Sent) + 1
    <3>1. j \in 1..Len(Sent)
      BY <2>2, <2>4
    <3>2. QED
      BY <1>2, <1>4, <2>2, <3>1 DEF Coming
  <2>5. QED
    BY <2>3, <2>4
<1>7. QED
  BY <1>5, <1>6

(* Whatever the room hears against the session's word, what mends it has   *)
(* been said and is on its way (the transitions of src/src/player.rs and   *)
(* their playback_worker), however requests, completions, failures and     *)
(* preparations fall.                                                      *)
THEOREM WrongAudioCorrect == SessionSpec => []WrongAudioIsBeingMended
<1>1. IInv /\ MInv => WrongAudioIsBeingMended
  <2> SUFFICES ASSUME IInv, MInv, runtime # "Cancelled"
               PROVE  /\ voice_channel_id = None /\ stage.channel # None => Coming(Leaving)
                      /\ Sounding /\ stage.track # current => Coming(Silencing)
                      /\ stage.driver = "Playing" /\ hold # "None"
                            => Coming(Silencing \cup {"Pause"})
                      /\ stage.driver = "Paused" /\ hold = "None"
                            => Coming(Silencing \cup {"Resume"})
                      /\ Sounding /\ stage.volume # volume_percent
                            => Coming(Silencing \cup {"SetVolume"})
    BY DEF WrongAudioIsBeingMended
  <2>1. CASE worker.pc = "Left"
    BY <2>1 DEF MInv, Listening, Silence, Sounding
  <2>2. CASE worker.pc # "Left"
    <3>1. Mended
      BY <2>2 DEF MInv
    <3>2. \A directives : After(Due, 0, directives) => Coming(directives)
      BY DueIsComing
    <3>3. \A some, more : Coming(some) \/ Coming(more) => Coming(some \cup more)
      BY DEF Coming
    <3>4. voice_channel_id = None /\ stage.channel # None => Coming(Leaving)
      BY <3>1, <3>2 DEF Mended
    <3>5. Sounding => Coming(Silencing) \/ BroughtAbout(Due, Word, 0, Heard)
      BY <3>1, <3>2 DEF Mended, Mends
    <3>6. BroughtAbout(Due, Word, 0, Heard) =>
             /\ stage.track = current
             /\ stage.driver = "Playing" /\ hold # "None" => Coming({"Pause"})
             /\ stage.driver = "Paused" /\ hold = "None" => Coming({"Resume"})
             /\ stage.volume # volume_percent => Coming({"SetVolume"})
      BY <3>2 DEF BroughtAbout, Heard, Performance, Word
    <3>7. QED
      BY <3>3, <3>4, <3>5, <3>6 DEF Sounding
  <2>3. QED
    BY <2>1, <2>2
<1>2. QED
  BY <1>1, IInvAlways, MInvAlways, PTL

-----------------------------------------------------------------------------
(* Playing is heard, where nothing but another start can supersede a       *)
(* preparation: nobody holds the playback or changes its level.  Then the  *)
(* last directive due starts the current track.  With nothing due the      *)
(* worker has the track in hand, or it sounds, or its end, its failure or  *)
(* the loss of its channel is on its way to the actor.                     *)
Interrupting == {"Pause", "Abandon", "SetVolume"}

Decided(command) ==
    \/ command.kind = "Park"
    \/ command.kind \in Outcome /\ command.item = current
Underway ==
    \/ InHand /\ worker.item = current
    \/ worker.pc = "Asking" /\ worker.asks = "Failed" /\ worker.item = current
    \/ worker.pc = "Asking" /\ worker.asks = "Park"
    \/ Sounding /\ stage.track = current
    \/ \E outcome \in Outcome : completions[<<current, outcome>>] > 0
    \/ \E k \in 1..Len(mailbox) : Decided(mailbox[k])
StartsCurrent(transition) == Starts(transition) /\ transition.target = current
OnItsWay == IF Due = <<>> THEN Underway ELSE StartsCurrent(Due[Len(Due)])

ToBePlayed == current # None /\ voice_channel_id # None
EndedIsEmpty ==
    /\ ~running \/ serving = "Timer" => current = None
    /\ worker.pc = "Left" /\ runtime # "Cancelled" => ~running
PInv ==
    /\ hold # "None" => voice_channel_id = None
    /\ EndedIsEmpty
    /\ InHand => stage.driver = "Silent"
    /\ runtime # "Cancelled" /\ ToBePlayed => OnItsWay

(* Only a pause and a change of level say "Pause" and "SetVolume", and an  *)
(* actor that stops has nothing left to play.                              *)
LEMMA UninterruptedSays ==
    ASSUME running, NEW command, command.kind \notin Interrupting, Handle(command)
    PROVE  /\ emitted'.directive \notin {"Pause", "SetVolume"}
           /\ running' \/ current' = None
<1>a. ASSUME NEW left, NEW reason, NEW start \in Starting, Advance(left, reason, start)
      PROVE  emitted'.directive \in {"Stop"} \cup Starting /\ running'
  BY <1>a, DirectiveOf DEF Advance, Accept
<1>r. ASSUME NEW error, Refuse(error)
      PROVE  emitted'.directive = "None" /\ running'
  BY <1>r, DirectiveOf DEF Refuse, session
<1>n. ASSUME Accept(Transition("None")), UNCHANGED session
      PROVE  emitted'.directive = "None" /\ running'
  BY <1>n, DirectiveOf DEF Accept, session
<1>1. CASE command.kind = "Enqueue" /\ Enqueue(command.item, command.channel)
  <2>1. CASE /\ Add(<<command.item>>, command.channel)
             /\ Accept(IF StartsPlayback THEN Answered(current') ELSE Transition("None"))
    BY <2>1, DirectiveOf, TargetOf DEF Accept, Add
  <2>2. QED
    BY <1>1, <1>r, <2>1 DEF Enqueue
<1>2. CASE Skip
  BY <1>2, <1>a, <1>n DEF Skip, Starting
<1>3. ASSUME NEW item, NEW reason, TrackFinished(item, reason)
      PROVE  emitted'.directive \in {"None", "Stop"} \cup Starting /\ running'
  BY <1>3, <1>a, <1>n DEF TrackFinished, Starting
<1>4. CASE Stop \/ Shutdown
  <2>1. current' = None
    BY <1>4 DEF Stop, Shutdown, ClearSession
  <2>2. emitted' = Transition("Disconnect") \/ emitted' = Transition("StopAndDisconnect")
    BY <1>4 DEF Stop, Shutdown, StopDirective, Accept
  <2>3. emitted'.directive \in {"Disconnect", "StopAndDisconnect"}
    BY <2>2, DirectiveOf
  <2>4. QED
    BY <2>1, <2>3
<1>5. ASSUME NEW scope, ReleasePlayback(scope)
      PROVE  emitted'.directive \in {"None", "Resume"} /\ running'
  BY <1>5, <1>r, <1>n, DirectiveOf DEF ReleasePlayback, Accept
<1>6. CASE Park
  BY <1>6, <1>r, DirectiveOf DEF Park, Accept
<1>7. ASSUME NEW channel, Join(channel)
      PROVE  emitted'.directive \in {"None", "Join", "Play"} /\ running'
  <2>1. CASE \E error : Refuse(error)
    BY <1>r, <2>1
  <2>2. CASE /\ Accept(TransitionTo("Join", channel)) \/ Accept(Answered(current))
             /\ running' = running
    <3>1. emitted' = TransitionTo("Join", channel) \/ emitted' = Answered(current)
      BY <2>2 DEF Accept
    <3>2. QED
      BY <2>2, <3>1, DirectiveOf, TargetOf
  <2>3. QED
    BY <1>7, <2>1, <2>2 DEF Join
<1>8. ASSUME NEW mode, SetRepeat(mode)
      PROVE  emitted'.directive = "None" /\ running'
  BY <1>8, DirectiveOf DEF SetRepeat, Accept
<1>9. QED
  BY <1>1, <1>2, <1>3, <1>4, <1>5, <1>6, <1>7, <1>8, <1>n DEF Handle, Interrupting, Starting

(* A command that decides what becomes of the current track is passed on.  *)
LEMMA DecidedIsPassedOn ==
    ASSUME ToBePlayed, NEW command, Decided(command), Handle(command)
    PROVE  emitted'.directive # "None"
<1>1. CASE command.kind = "Park"
  <2>1. Park
    BY <1>1 DEF Handle, Outcome
  <2>2. QED
    BY <2>1, DirectiveOf DEF Park, Accept, ToBePlayed
<1>2. CASE command.kind \in Outcome /\ command.item = current
  <2>1. TrackFinished(current, command.kind)
    BY <1>2 DEF Handle, Outcome
  <2>2. QED
    BY <2>1, DirectiveOf DEF TrackFinished, Advance, Accept
<1>3. QED
  BY <1>1, <1>2 DEF Decided

(* The last of what is due. *)
LEMMA LastDue ==
    ASSUME NEW S, NEW due \in Seq(S)
    PROVE  /\ \A t \in S : Append(due, t) # <<>> /\ Append(due, t)[Len(Append(due, t))] = t
           /\ due # <<>> /\ Tail(due) # <<>> => Tail(due)[Len(Tail(due))] = due[Len(due)]
           /\ due # <<>> /\ Tail(due) = <<>> => due[1] = due[Len(due)]
<1>1. ASSUME NEW t \in S
      PROVE  Append(due, t) # <<>> /\ Append(due, t)[Len(Append(due, t))] = t
  <2>1. /\ Append(due, t) \in Seq(S) /\ Len(Append(due, t)) = Len(due) + 1
        /\ Append(due, t)[Len(due) + 1] = t /\ Len(due) \in Nat
    BY AppendProperties, LenProperties
  <2>2. QED
    BY <2>1, EmptySeq
<1>2. ASSUME due # <<>>
      PROVE  /\ Tail(due) \in Seq(S) /\ Len(Tail(due)) = Len(due) - 1
             /\ \A j \in 1..Len(Tail(due)) : Tail(due)[j] = due[j + 1]
             /\ Len(due) \in Nat \ {0}
  BY <1>2, HeadTailProperties, LenProperties, EmptySeq
<1>3. ASSUME due # <<>>, Tail(due) # <<>>
      PROVE  Tail(due)[Len(Tail(due))] = due[Len(due)]
  <2>1. Len(Tail(due)) \in Nat \ {0}
    BY <1>2, <1>3, LenProperties, EmptySeq
  <2>2. Len(Tail(due)) \in 1..Len(Tail(due)) /\ Len(Tail(due)) + 1 = Len(due)
    BY <1>2, <1>3, <2>1
  <2>3. QED
    BY <1>2, <1>3, <2>2
<1>4. ASSUME due # <<>>, Tail(due) = <<>>
      PROVE  due[1] = due[Len(due)]
  <2>1. Len(Tail(due)) = 0
    BY <1>4, EmptySeq
  <2>2. Len(due) = 1
    BY <1>2, <1>4, <2>1
  <2>3. QED
    BY <2>2
<1>5. QED
  BY <1>1, <1>3, <1>4

(* A step that says nothing leaves the current track on its way if it      *)
(* leaves it under way.                                                    *)
LEMMA StaysOnItsWay ==
    ASSUME PInv, Word' = Word, ToBePlayed /\ runtime' # "Cancelled" => Due' = Due,
           ~running' => ~running \/ serving = "Timer",
           serving' = "Timer" => serving = "Timer",
           runtime = "Cancelled" => runtime' = "Cancelled",
           worker'.pc = "Left" /\ runtime' # "Cancelled" => ~running',
           InHand' => stage'.driver = "Silent",
           runtime' # "Cancelled" /\ ToBePlayed /\ Due = <<>> /\ Underway => Underway'
    PROVE  PInv'
<1>1. UNCHANGED <<current, voice_channel_id, hold>>
  BY DEF Word
<1>2. EndedIsEmpty'
  BY <1>1 DEF PInv, EndedIsEmpty
<1>3. ASSUME runtime' # "Cancelled", ToBePlayed'
      PROVE  OnItsWay'
  <2>1. ToBePlayed /\ Due' = Due /\ OnItsWay
    BY <1>1, <1>3 DEF PInv, ToBePlayed
  <2>2. CASE Due = <<>>
    BY <1>3, <2>1, <2>2 DEF OnItsWay
  <2>3. CASE Due # <<>>
    BY <1>1, <2>1, <2>3 DEF OnItsWay, StartsCurrent
  <2>4. QED
    BY <2>2, <2>3
<1>4. QED
  BY <1>1, <1>2, <1>3 DEF PInv

(* What is on its way to the actor stays so, as the mailbox grows. *)
LEMMA DecidedStays ==
    ASSUME UNCHANGED current, mailbox \in Seq(MailboxCommand),
           \/ UNCHANGED mailbox
           \/ \E command : mailbox' = Append(mailbox, command)
    PROVE  (\E k \in 1..Len(mailbox) : Decided(mailbox[k]))
              => (\E k \in 1..Len(mailbox) : Decided(mailbox[k]))'
<1>1. CASE UNCHANGED mailbox
  BY <1>1 DEF Decided
<1>2. ASSUME NEW command, mailbox' = Append(mailbox, command)
      PROVE  /\ 1..Len(mailbox) \subseteq 1..Len(mailbox')
             /\ \A k \in 1..Len(mailbox) : mailbox'[k] = mailbox[k]
  <2> DEFINE S == MailboxCommand \cup {command}
  <2>1. mailbox \in Seq(S) /\ command \in S
    OBVIOUS
  <2> HIDE DEF S
  <2>2. Len(mailbox) \in Nat
    BY <2>1, LenProperties
  <2>3. QED
    BY <1>2, <2>1, <2>2, AppendProperties
<1>3. QED
  BY <1>1, <1>2 DEF Decided

(* ... and what is sent about the current track is on its way. *)
LEMMA DecidedIsSent ==
    ASSUME UNCHANGED current, mailbox \in Seq(MailboxCommand), NEW command \in MailboxCommand,
           mailbox' = Append(mailbox, command), Decided(command)
    PROVE  (\E k \in 1..Len(mailbox) : Decided(mailbox[k]))'
<1>1. Len(mailbox) \in Nat
  BY LenProperties
<1>2. Len(mailbox) + 1 \in 1..Len(mailbox') /\ mailbox'[Len(mailbox) + 1] = command
  BY <1>1, AppendProperties
<1>3. Decided(mailbox'[Len(mailbox) + 1])
  BY <1>2
<1>4. QED
  BY <1>2, <1>3 DEF Decided

LEMMA ActorKeepsPInv ==
    ASSUME Requests \cap Interrupting = {}, IInv, IInv', MInv, PInv, ServeCommand \/ ServeTimer
    PROVE  PInv'
<1>1. /\ UNCHANGED <<transitions, worker, stage, completions, runtime>>
      /\ emitted.directive = "None" /\ running
  BY DEF ServeCommand, ServeTimer, MInv, Listening
<1>2. InHand' = InHand /\ Sounding' = Sounding
  BY <1>1 DEF InHand, Sounding
<1>3. CASE ServeTimer
  <2>1. current' = None /\ hold' = "None" /\ running'
    BY <1>1, <1>3 DEF ServeTimer, IdleTimeout, ClearSession
  <2>2. QED
    BY <1>1, <1>2, <2>1 DEF PInv, EndedIsEmpty, ToBePlayed
<1>4. CASE ServeCommand
  <2> DEFINE command == Head(mailbox)
             t == Carried'
  <2>1. /\ command \in MailboxCommand /\ Addressed(command) /\ Handle(command)
        /\ mailbox \in Seq(MailboxCommand) /\ mailbox # <<>> /\ mailbox' = Tail(mailbox)
        /\ command = mailbox[1]
        /\ \A k \in 1..Len(Tail(mailbox)) :
              k + 1 \in 1..Len(mailbox) /\ Tail(mailbox)[k] = mailbox[k + 1]
        /\ serving' = command.sender
    BY <1>4, SessionAssumption, TakeOne DEF IInv, MailboxOK, ServeCommand
  <2> HIDE DEF command
  <2>2. /\ emitted'.directive \notin {"Pause", "SetVolume"}
        /\ running' \/ current' = None
    <3>1. command.kind \notin Interrupting
      BY <2>1 DEF MailboxCommand, Outcome, Interrupting
    <3>2. QED
      BY <1>1, <2>1, <3>1, UninterruptedSays
  <2>3. Countdown
    BY DEF IInv, ActorOK
  <2>4. Said(Word, Word', emitted'.directive, emitted'.target)
    BY <1>1, <2>1, <2>3, HandleIsNext, NextSays, UnchangedSays DEF Says
  <2>5. /\ Word.channel = voice_channel_id /\ Word.track = current /\ Word.hold = hold
        /\ Word'.channel = voice_channel_id' /\ Word'.track = current' /\ Word'.hold = hold'
    BY DEF Word
  <2>6. hold' # "None" => voice_channel_id' = None
    <3>1. Word.track = None => Word.hold = "None"
      BY <2>3, <2>5 DEF Countdown, NothingOutlivesItsTrack
    <3>2. Word.hold # "None" => Word.channel = None
      BY <2>5 DEF PInv
    <3>3. Word'.hold # "None" => Word'.channel = None
      BY <2>2, <2>4, <3>1, <3>2 DEF Said
    <3>4. QED
      BY <2>5, <3>3
  <2>7. EndedIsEmpty'
    <3>1. serving' # "Timer"
      BY <2>1 DEF MailboxCommand
    <3>2. worker.pc = "Left" /\ runtime # "Cancelled" => ~running
      BY DEF PInv, EndedIsEmpty
    <3>3. QED
      BY <1>1, <2>2, <3>1, <3>2 DEF EndedIsEmpty
  <2>8. ASSUME ToBePlayed', runtime # "Cancelled"
        PROVE  OnItsWay'
    <3>1. CASE emitted'.directive = "None"
      <4>1. Word' = Word /\ Due' = Due
        BY <1>1, <2>4, <3>1 DEF Said, GivingUp, Starting, Due, Sent
      <4>2. ToBePlayed /\ current' = current
        BY <2>5, <2>8, <4>1 DEF ToBePlayed
      <4>3. OnItsWay
        BY <2>8, <4>2 DEF PInv
      <4>4. CASE Due # <<>>
        BY <4>1, <4>2, <4>3, <4>4 DEF OnItsWay, StartsCurrent
      <4>5. CASE Due = <<>> /\ \E k \in 1..Len(mailbox) : Decided(mailbox[k])
        <5>1. PICK k \in 1..Len(mailbox) : Decided(mailbox[k])
          BY <4>5
        <5>2. k # 1
          BY <2>1, <3>1, <4>2, <5>1, DecidedIsPassedOn
        <5>3. k - 1 \in 1..Len(Tail(mailbox)) /\ Tail(mailbox)[k - 1] = mailbox[k]
          <6>1. Len(Tail(mailbox)) = Len(mailbox) - 1 /\ Len(mailbox) \in Nat
            BY <2>1, HeadTailProperties, LenProperties
          <6>2. k - 1 \in 1..Len(Tail(mailbox)) /\ (k - 1) + 1 = k
            BY <5>2, <6>1
          <6>3. QED
            BY <2>1, <6>2
        <5>4. \E j \in 1..Len(mailbox') : Decided(mailbox[k]) /\ mailbox'[j] = mailbox[k]
          BY <2>1, <5>1, <5>3
        <5>5. (\E j \in 1..Len(mailbox) : Decided(mailbox[j]))'
          BY <4>2, <5>4 DEF Decided
        <5>6. QED
          BY <4>1, <4>5, <5>5 DEF OnItsWay, Underway
      <4>6. CASE Due = <<>> /\ ~\E k \in 1..Len(mailbox) : Decided(mailbox[k])
        BY <1>1, <1>2, <4>1, <4>2, <4>3, <4>6 DEF OnItsWay, Underway
      <4>7. QED
        BY <4>4, <4>5, <4>6
    <3>2. CASE emitted'.directive # "None"
      <4>1. Due = Sent /\ Sent' = Sent /\ Due \in Seq(AimedTransition)
        BY <1>1, DueIsALine DEF Due, Sent
      <4>2. Due' = Append(Due, t)
        BY <3>2, <4>1 DEF Due
      <4>3. t \in AimedTransition
        <5>1. (emitted.directive # "None" /\ TypeOK /\ Aimed(emitted)
                  => Carried \in AimedTransition)'
          BY CarriedIsAimed, PTL
        <5>2. QED
          BY <3>2, <5>1 DEF IInv, ActorOK
      <4>4. /\ t.directive = emitted'.directive /\ t.target = emitted'.target
            /\ t.channel = voice_channel_id'
        BY DEF Carried
      <4> HIDE DEF t
      <4>5. Due' # <<>> /\ Due'[Len(Due')] = t
        BY <4>1, <4>2, <4>3, LastDue
      <4>6. Word'.track # None /\ Word'.channel # None
        BY <2>5, <2>8 DEF ToBePlayed
      <4>7. emitted'.directive \in Starting /\ Word'.track = emitted'.target
        <5>1. Word.hold # "None" => Word.channel = None
          BY <2>5 DEF PInv
        <5>2. QED
          BY <2>2, <2>4, <3>2, <4>6, <5>1 DEF Said
      <4>8. Starts(t) /\ t.target = current'
        BY <2>5, <4>4, <4>6, <4>7 DEF Starts
      <4>9. QED
        BY <4>5, <4>8 DEF OnItsWay, StartsCurrent
    <3>3. QED
      BY <3>1, <3>2
  <2>9. QED
    BY <1>1, <1>2, <2>6, <2>7, <2>8 DEF PInv
<1>5. QED
  BY <1>3, <1>4

(* Nobody is told anything by an answer: what was said is under way.       *)
LEMMA AnswerKeepsPInv ==
    ASSUME IInv, MInv, PInv, Answer
    PROVE  PInv'
<1>1. /\ UNCHANGED <<stage, mailbox, completions, current>> /\ Word' = Word
      /\ runtime = "Cancelled" => runtime' = "Cancelled"
      /\ serving' = "Nobody"
  BY DEF Answer, Word
<1>r. /\ ~running' => ~running \/ serving = "Timer"
      /\ ~running => ~running'
  BY DEF Answer, IInv, ActorOK, TypeOK
<1>2. \/ UNCHANGED worker
      \/ worker' = Resting /\ worker.pc = "Awaiting"
           /\ (worker.asks = "Snapshot" => current # worker.item)
      \/ /\ worker.pc = "Awaiting" /\ worker.asks = "Snapshot"
         /\ worker'.pc = "Connecting" /\ UNCHANGED <<worker.item>>
  BY DEF Answer, IInv, WorkerOK
<1>3. InHand' => InHand
  BY <1>2 DEF InHand, Resting
<1>4. worker'.pc = "Left" => worker.pc = "Left"
  BY <1>2 DEF Resting
<1>5. ToBePlayed /\ runtime' # "Cancelled" => Due' = Due
  <2>1. ASSUME ToBePlayed, runtime' # "Cancelled", WorkerGone
        PROVE  FALSE
    <3>1. worker.pc = "Left" /\ runtime # "Cancelled"
      BY <1>1, <2>1 DEF WorkerGone, MInv, Listening, Cancelled
    <3>2. QED
      BY <2>1, <3>1 DEF PInv, EndedIsEmpty, ToBePlayed
  <2>2. QED
    BY <2>1, AnsweringIsDue DEF MInv
<1>6. Underway => Underway'
  <2>1. CASE InHand /\ worker.item = current
    BY <1>1, <1>2, <2>1 DEF Underway, InHand
  <2>2. CASE worker.pc = "Asking"
    <3>1. UNCHANGED worker
      BY <1>2, <2>2
    <3>2. QED
      BY <1>1, <3>1 DEF Underway, InHand, Sounding, Decided
  <2>3. CASE Sounding /\ stage.track = current
    BY <1>1, <2>3 DEF Underway, Sounding
  <2>4. CASE \E outcome \in Outcome : completions[<<current, outcome>>] > 0
    BY <1>1, <2>4 DEF Underway
  <2>5. CASE \E k \in 1..Len(mailbox) : Decided(mailbox[k])
    BY <1>1, <2>5 DEF Underway, Decided
  <2>6. QED
    BY <2>1, <2>2, <2>3, <2>4, <2>5 DEF Underway
<1>7. worker'.pc = "Left" /\ runtime' # "Cancelled" => ~running'
  BY <1>1, <1>r, <1>4 DEF PInv, EndedIsEmpty
<1>8. InHand' => stage'.driver = "Silent"
  BY <1>1, <1>3 DEF PInv
<1>9. QED
  BY <1>1, <1>r, <1>5, <1>6, <1>7, <1>8, StaysOnItsWay

(* The worker turns to the last directive that was due: the current track. *)
LEMMA TakeKeepsPInv ==
    ASSUME IInv, MInv, PInv, TakeDeferred \/ TakeTransition
    PROVE  PInv'
<1> DEFINE t == Due[1]
<1>1. /\ Due # <<>> /\ Due' = Tail(Due) /\ Apply(t)
      /\ UNCHANGED <<vars, serving, runtime, mailbox>>
  BY FirstDueIsTaken DEF MInv, TakeDeferred, TakeTransition, WorkerAlone
<1>2. Due \in Seq(AimedTransition)
  BY DueIsALine
<1>3. UNCHANGED <<current, voice_channel_id, hold, running>>
  BY <1>1 DEF vars, session
<1>4. worker'.pc \in {"Receiving", "Preparing", "Joining"}
  BY <1>1, ApplyEmptiesHands
<1> HIDE DEF t
<1>5. \/ worker'.pc \in {"Receiving", "Joining"}
      \/ /\ worker'.pc = "Preparing" /\ worker'.item = t.target
         /\ stage'.driver = "Silent"
  <2>1. CASE Rest
    BY <2>1 DEF Rest, Resting
  <2>2. CASE t.directive = "Join"
    BY <1>1, <2>2 DEF Apply, Resting, Starting
  <2>3. CASE t.directive \in Starting /\ ~Rest
    <3>1. [Resting EXCEPT !.volume = t.volume]
             = [pc |-> "Receiving", asks |-> "Snapshot", item |-> None, channel |-> None,
                volume |-> t.volume, deferred |-> <<>>]
      BY DEF Resting
    <3>2. /\ StopStage(stage.channel)
          /\ worker' = [[Resting EXCEPT !.volume = t.volume]
                           EXCEPT !.pc = "Preparing", !.item = t.target, !.channel = t.channel]
      BY <1>1, <2>3 DEF Apply, Starting
    <3>3. QED
      BY <3>1, <3>2 DEF StopStage, Silence
  <2>4. QED
    BY <1>1, <2>1, <2>2, <2>3 DEF Apply
<1>6. InHand' => stage'.driver = "Silent"
  BY <1>5 DEF InHand
<1>7. ASSUME runtime' # "Cancelled", ToBePlayed'
      PROVE  OnItsWay'
  <2>1. StartsCurrent(Due[Len(Due)])
    BY <1>1, <1>3, <1>7 DEF PInv, ToBePlayed, OnItsWay
  <2>2. CASE Tail(Due) # <<>>
    <3>1. Due' # <<>> /\ Due'[Len(Due')] = Due[Len(Due)]
      BY <1>1, <1>2, <2>2, LastDue
    <3>2. QED
      BY <1>3, <2>1, <3>1 DEF OnItsWay, StartsCurrent
  <2>3. CASE Tail(Due) = <<>>
    <3>1. Starts(t) /\ t.target = current
      BY <1>1, <1>2, <2>1, <2>3, LastDue DEF StartsCurrent, t
    <3>2. worker'.pc = "Preparing"
      <4>1. [Resting EXCEPT !.volume = t.volume]
               = [pc |-> "Receiving", asks |-> "Snapshot", item |-> None, channel |-> None,
                  volume |-> t.volume, deferred |-> <<>>]
        BY DEF Resting
      <4>2. worker' = [[Resting EXCEPT !.volume = t.volume]
                          EXCEPT !.pc = "Preparing", !.item = t.target, !.channel = t.channel]
        BY <1>1, <3>1 DEF Starts, Apply, Starting
      <4>3. QED
        BY <4>1, <4>2
    <3>3. InHand' /\ worker'.item = current'
      BY <1>3, <1>5, <3>1, <3>2 DEF InHand
    <3>4. QED
      BY <1>1, <2>3, <3>3 DEF OnItsWay, Underway
  <2>4. QED
    BY <2>2, <2>3
<1>8. EndedIsEmpty'
  BY <1>1, <1>3, <1>4 DEF PInv, EndedIsEmpty
<1>9. QED
  BY <1>3, <1>6, <1>7, <1>8 DEF PInv

(* The worker's other steps: whatever it does not play it asks about.      *)
LEMMA WorkerKeepsPInv ==
    ASSUME IInv, MInv, PInv,
           Supersede \/ FinishPreparing \/ AskActor \/ AnswerLost \/ FinishJoining
           \/ FinishConnecting
    PROVE  PInv'
<1>1. UNCHANGED <<vars, serving, runtime, completions>>
      /\ worker.pc \notin {"Left", "Aborted", "Receiving"}
  BY DEF Supersede, FinishPreparing, AskActor, AnswerLost, FinishJoining, FinishConnecting,
         WorkerAlone, At
<1>w. /\ Rest => worker'.pc = "Receiving" /\ worker'.deferred = <<>>
      /\ \A what : Ask(what) =>
            /\ worker'.pc = "Asking" /\ worker'.asks = what
            /\ UNCHANGED <<worker.item, worker.volume, worker.deferred>>
      /\ \A pc : Proceed(pc) =>
            /\ worker'.pc = pc
            /\ UNCHANGED <<worker.asks, worker.item, worker.volume, worker.deferred>>
  BY HandsTurn DEF IInv
<1>2. UNCHANGED <<current, running>> /\ Word' = Word
  BY <1>1 DEF vars, session, Word
<1>3. worker'.pc # "Left"
  BY <1>w DEF Supersede, Resting, FinishPreparing, AskActor, AnswerLost, FinishJoining,
              FinishConnecting
<1>4. Due' = Due
  <2>1. CASE Supersede
    BY <2>1, SupersedingIsDue DEF MInv
  <2>2. CASE ~Supersede
    <3>1. worker.deferred = <<>>
      BY <1>1 DEF MInv, Listening
    <3>2. worker'.deferred = <<>> /\ UNCHANGED transitions
      BY <1>w, <2>2, <3>1 DEF FinishPreparing, AskActor, AnswerLost, FinishJoining,
                              FinishConnecting
    <3>3. QED
      BY <1>1, <3>1, <3>2, NothingMoved DEF vars, session
  <2>3. QED
    BY <2>1, <2>2
<1>5. InHand' => InHand /\ UNCHANGED stage
  BY <1>w DEF InHand, Supersede, Resting, FinishPreparing, AskActor, AnswerLost, FinishJoining,
              FinishConnecting, At
<1>6. ASSUME ToBePlayed, Due = <<>>, Underway, runtime # "Cancelled"
      PROVE  Underway'
  <2>1. running
    BY <1>6 DEF PInv, EndedIsEmpty, ToBePlayed
  <2>2. ~Supersede /\ ~AnswerLost
    <3>1. ASSUME Supersede
          PROVE  Due # <<>>
      <4>1. transitions \in Seq(AimedTransition) /\ transitions # <<>>
            /\ worker.deferred = <<>> /\ Sent \in Seq(AimedTransition)
        BY <3>1, DueIsALine DEF IInv, TransitionsOK, Supersede, At, MInv, Listening
      <4>2. Sent = transitions
        BY <4>1, ConcatEmptySeq DEF Sent
      <4>3. emitted.directive # "None" => Carried \in AimedTransition
        BY CarriedIsAimed DEF IInv, ActorOK
      <4>4. QED
        BY <4>1, <4>2, <4>3, LastDue DEF Due
    <3>2. QED
      BY <1>6, <2>1, <3>1 DEF AnswerLost, ActorStopped
  <2>3. (\E k \in 1..Len(mailbox) : Decided(mailbox[k]))
           => (\E k \in 1..Len(mailbox) : Decided(mailbox[k]))'
    <3>1. CASE UNCHANGED mailbox
      BY <1>2, <3>1, DecidedStays DEF IInv, MailboxOK
    <3>2. CASE AskActor /\ mailbox' # mailbox
      <4> DEFINE command == Request(worker.asks,
                               IF worker.asks = "Failed" THEN worker.item ELSE None,
                               None, "Worker")
      <4>1. mailbox' = Append(mailbox, command)
        BY <3>2 DEF AskActor, Send
      <4>2. command \in MailboxCommand
        BY DEF IInv, WorkerOK, Request, MailboxCommand, Outcome
      <4> HIDE DEF command
      <4>3. QED
        BY <1>2, <4>1, <4>2, DecidedStays DEF IInv, MailboxOK
    <3>3. QED
      BY <2>2, <3>1, <3>2 DEF FinishPreparing, FinishJoining, FinishConnecting
  <2>4. CASE \E k \in 1..Len(mailbox) : Decided(mailbox[k])
    BY <2>3, <2>4 DEF Underway
  <2>5. CASE \E outcome \in Outcome : completions[<<current, outcome>>] > 0
    BY <1>1, <1>2, <2>5 DEF Underway
  <2>6. CASE InHand /\ worker.item = current
    <3>1. CASE FinishPreparing
      BY <1>2, <1>w, <2>6, <3>1 DEF FinishPreparing, Underway, InHand
    <3>2. CASE AskActor
      <4>1. worker.asks = "Snapshot" /\ Proceed("Awaiting")
        BY <2>1, <2>6, <3>2 DEF AskActor, InHand, At, ActorStopped
      <4>2. QED
        BY <1>2, <1>w, <2>6, <4>1 DEF Underway, InHand
    <3>3. CASE FinishJoining
      BY <2>6, <3>3 DEF FinishJoining, InHand, At
    <3>4. CASE FinishConnecting
      BY <1>2, <1>w, <2>6, <3>4 DEF FinishConnecting, Underway, Sounding
    <3>5. QED
      BY <2>2, <3>1, <3>2, <3>3, <3>4
  <2>7. CASE \/ worker.pc = "Asking" /\ worker.asks = "Failed" /\ worker.item = current
             \/ worker.pc = "Asking" /\ worker.asks = "Park"
    <3> DEFINE command == Request(worker.asks,
                             IF worker.asks = "Failed" THEN worker.item ELSE None,
                             None, "Worker")
    <3>1. AskActor
      BY <2>2, <2>7 DEF FinishPreparing, FinishJoining, FinishConnecting, At
    <3>2. mailbox' = Append(mailbox, command)
      BY <2>1, <3>1 DEF AskActor, Send, ActorStopped
    <3>3. command \in MailboxCommand
      BY DEF IInv, WorkerOK, Request, MailboxCommand, Outcome
    <3>4. Decided(command)
      BY <2>7 DEF Decided, Request, Outcome
    <3> HIDE DEF command
    <3>5. (\E k \in 1..Len(mailbox) : Decided(mailbox[k]))'
      BY <1>2, <3>2, <3>3, <3>4, DecidedIsSent DEF IInv, MailboxOK
    <3>6. QED
      BY <3>5 DEF Underway
  <2>8. CASE Sounding /\ stage.track = current
    <3>1. ~InHand
      BY <2>8 DEF PInv, Sounding
    <3>2. CASE UNCHANGED stage
      BY <1>2, <2>8, <3>2 DEF Underway, Sounding
    <3>3. CASE FinishJoining
      <4>1. CASE stage' = [stage EXCEPT !.channel = worker.channel]
        BY <1>2, <2>8, <4>1 DEF Underway, Sounding, IInv, StageOK
      <4>2. CASE Ask("Park")
        BY <1>w, <4>2 DEF Underway
      <4>3. QED
        BY <3>3, <4>1, <4>2 DEF FinishJoining
    <3>4. QED
      BY <2>2, <3>1, <3>2, <3>3 DEF FinishPreparing, AskActor, FinishConnecting, InHand, At
  <2>9. \/ InHand /\ worker.item = current
        \/ \/ worker.pc = "Asking" /\ worker.asks = "Failed" /\ worker.item = current
           \/ worker.pc = "Asking" /\ worker.asks = "Park"
        \/ Sounding /\ stage.track = current
        \/ \E outcome \in Outcome : completions[<<current, outcome>>] > 0
        \/ \E k \in 1..Len(mailbox) : Decided(mailbox[k])
    BY <1>6 DEF Underway
  <2>10. QED
    BY <2>4, <2>5, <2>6, <2>7, <2>8, <2>9
<1>7. InHand' => stage'.driver = "Silent"
  BY <1>5 DEF PInv
<1>8. QED
  BY <1>1, <1>2, <1>3, <1>4, <1>6, <1>7, StaysOnItsWay

LEMMA OthersKeepPInv ==
    ASSUME IInv, MInv, PInv,
           Leave \/ Driver \/ Reporters \/ Clients \/ Runtime \/ UNCHANGED sessionVars
    PROVE  PInv'
<1>1. /\ UNCHANGED <<vars, serving, transitions>>
      /\ runtime = "Cancelled" => runtime' = "Cancelled"
  BY DEF Leave, Driver, DriverEnds, Reporters, ReportCompletion, Clients, ClientRequest, Runtime,
         SignalReceived, ShutdownRequest, CancelUnasked, AbortWorker, WorkerAlone, Cancelled,
         sessionVars, plumbing
<1>2. UNCHANGED <<current, running>> /\ Word' = Word
  BY <1>1 DEF vars, session, Word
<1>3. CASE Leave \/ AbortWorker
  <2>1. worker'.pc \in {"Left", "Aborted"} /\ worker'.deferred = worker.deferred
        /\ UNCHANGED runtime
    BY <1>3 DEF Leave, AbortWorker, Proceed, WorkerAlone, IInv, WorkerOK
  <2>2. runtime # "Cancelled" => ~running /\ ~running'
    BY <1>2, <1>3 DEF Leave, AbortWorker, Cancelled, ActorStopped
  <2>3. ToBePlayed => runtime = "Cancelled"
    BY <2>2 DEF PInv, EndedIsEmpty, ToBePlayed
  <2>4. ~InHand'
    BY <2>1 DEF InHand
  <2>5. QED
    BY <1>1, <1>2, <2>1, <2>2, <2>3, <2>4, StaysOnItsWay
<1>4. CASE ~Leave /\ ~AbortWorker
  <2>1. UNCHANGED worker
    BY <1>4 DEF Driver, DriverEnds, Reporters, ReportCompletion, Clients, ClientRequest, Runtime,
                SignalReceived, ShutdownRequest, CancelUnasked, sessionVars, plumbing
  <2>2. Due' = Due
    BY <1>1, <2>1, NothingMoved DEF vars, session
  <2>3. InHand' = InHand
    BY <2>1 DEF InHand
  <2>4. CASE Driver
    <3>1. PICK outcome \in Outcome : DriverEnds(outcome)
      BY <2>4 DEF Driver
    <3>2. /\ stage.driver = "Playing" /\ stage.track \in Items /\ UNCHANGED <<mailbox, runtime>>
          /\ completions \in [Items \X Outcome -> 0..MaxCompletions]
          /\ completions' = [completions EXCEPT ![<<stage.track, outcome>>] = @ + 1]
      BY <3>1 DEF DriverEnds, Reported, IInv, StageOK, CompletionsOK
    <3>3. ~InHand
      BY <3>2 DEF PInv
    <3>4. ASSUME Underway, ToBePlayed
          PROVE  Underway'
      <4>1. current \in Items /\ MaxCompletions \in Nat
        BY <3>4, SessionAssumption DEF ToBePlayed, IInv, ActorOK, TypeOK
      <4>2. CASE Sounding /\ stage.track = current
        <5>1. completions'[<<current, outcome>>] > 0
          BY <3>2, <4>1, <4>2
        <5>2. QED
          BY <1>2, <5>1 DEF Underway
      <4>3. CASE \E o \in Outcome : completions[<<current, o>>] > 0
        <5>1. PICK o \in Outcome : completions[<<current, o>>] > 0
          BY <4>3
        <5>2. completions'[<<current, o>>] > 0
          BY <3>2, <4>1, <5>1
        <5>3. QED
          BY <1>2, <5>2 DEF Underway
      <4>4. CASE ~(Sounding /\ stage.track = current)
                 /\ ~\E o \in Outcome : completions[<<current, o>>] > 0
        BY <1>2, <2>1, <2>3, <3>2, <3>4, <4>4 DEF Underway, Decided
      <4>5. QED
        BY <4>2, <4>3, <4>4
    <3>5. QED
      BY <1>1, <1>2, <2>1, <2>2, <2>3, <3>2, <3>3, <3>4, StaysOnItsWay DEF PInv, EndedIsEmpty
  <2>5. CASE ~Driver
    <3>1. UNCHANGED stage
      BY <1>4, <2>5 DEF Reporters, ReportCompletion, Clients, ClientRequest, Runtime,
                        SignalReceived, ShutdownRequest, CancelUnasked, sessionVars, plumbing
    <3>2. ASSUME Underway, ToBePlayed
          PROVE  Underway'
      <4>1. running /\ mailbox \in Seq(MailboxCommand) /\ current \in Items
        BY <3>2 DEF PInv, EndedIsEmpty, ToBePlayed, IInv, MailboxOK, ActorOK, TypeOK
      <4>2. CASE Reporters
        <5>1. PICK item \in Items, outcome \in Outcome : ReportCompletion(item, outcome)
          BY <4>2 DEF Reporters
        <5> DEFINE command == Request(outcome, item, None, "Completion")
        <5>2. /\ mailbox' = Append(mailbox, command)
              /\ completions' = [completions EXCEPT ![<<item, outcome>>] = @ - 1]
          BY <4>1, <5>1 DEF ReportCompletion, Send
        <5>3. /\ command.kind = outcome /\ command.item = item
              /\ command \in MailboxCommand
          BY DEF Request, MailboxCommand
        <5> HIDE DEF command
        <5>4. CASE item = current
          <6>1. Decided(command)
            BY <5>3, <5>4 DEF Decided
          <6>2. (\E k \in 1..Len(mailbox) : Decided(mailbox[k]))'
            BY <1>2, <4>1, <5>2, <5>3, <6>1, DecidedIsSent
          <6>3. QED
            BY <6>2 DEF Underway
        <5>5. CASE item # current
          <6>1. \A o \in Outcome : completions'[<<current, o>>] = completions[<<current, o>>]
            BY <4>1, <5>2, <5>5 DEF IInv, CompletionsOK
          <6>2. (\E k \in 1..Len(mailbox) : Decided(mailbox[k]))
                   => (\E k \in 1..Len(mailbox) : Decided(mailbox[k]))'
            BY <1>2, <4>1, <5>2, <5>3, DecidedStays
          <6>3. Sounding' = Sounding
            BY <3>1 DEF Sounding
          <6>4. QED
            BY <1>2, <2>1, <2>3, <3>1, <3>2, <6>1, <6>2, <6>3 DEF Underway
        <5>6. QED
          BY <5>4, <5>5
      <4>3. CASE ~Reporters
        <5>1. UNCHANGED completions
          BY <1>4, <2>5, <4>3 DEF Clients, ClientRequest, Runtime, SignalReceived,
                                  ShutdownRequest, CancelUnasked, sessionVars, plumbing
        <5>2. UNCHANGED mailbox \/ \E command : mailbox' = Append(mailbox, command)
          BY <1>4, <2>5, <4>3 DEF Clients, ClientRequest, Runtime, SignalReceived,
                                  ShutdownRequest, CancelUnasked, sessionVars, plumbing, Send
        <5>3. (\E k \in 1..Len(mailbox) : Decided(mailbox[k]))
                 => (\E k \in 1..Len(mailbox) : Decided(mailbox[k]))'
          BY <1>2, <4>1, <5>2, DecidedStays
        <5>4. Sounding' = Sounding
          BY <3>1 DEF Sounding
        <5>5. QED
          BY <1>2, <2>1, <2>3, <3>1, <3>2, <5>1, <5>3, <5>4 DEF Underway
      <4>4. QED
        BY <4>2, <4>3
    <3>3. worker'.pc = "Left" /\ runtime' # "Cancelled" => ~running'
      BY <1>1, <1>2, <2>1 DEF PInv, EndedIsEmpty
    <3>4. InHand' => stage'.driver = "Silent"
      BY <2>3, <3>1 DEF PInv
    <3>5. QED
      BY <1>1, <1>2, <2>2, <3>2, <3>3, <3>4, StaysOnItsWay
  <2>6. QED
    BY <2>4, <2>5
<1>5. QED
  BY <1>3, <1>4

LEMMA InitPInv == SessionInit => PInv
BY DEF SessionInit, Init, Resting, PInv, EndedIsEmpty, InHand, ToBePlayed

LEMMA PInvAlways ==
    ASSUME Requests \cap Interrupting = {}
    PROVE  SessionSpec => []PInv
<1>1. IInv /\ IInv' /\ MInv /\ PInv /\ [SessionNext]_sessionVars => PInv'
  BY ActorKeepsPInv, AnswerKeepsPInv, TakeKeepsPInv, WorkerKeepsPInv, OthersKeepPInv
     DEF SessionNext, Actor, Worker
<1>2. QED
  BY <1>1, InitPInv, IInvAlways, MInvAlways, PTL DEF SessionSpec

(* Once everything has been said and done, the room hears the track the    *)
(* session says is playing (playback_worker in src/src/discord.rs),        *)
(* whatever was prepared, superseded, failed or parked on the way, as long *)
(* as nobody holds the playback or changes its level: what supersedes a    *)
(* preparation then starts another, and a start that is lost is asked      *)
(* about.  With a pause or a change of level the run superseded_start      *)
(* shows a start that nobody makes up for.                                 *)
THEOREM PlayingCorrect ==
    ASSUME Requests \cap Interrupting = {}
    PROVE  SessionSpec => []PlayingIsHeard
<1>1. IInv /\ MInv /\ PInv => PlayingIsHeard
  <2> SUFFICES ASSUME IInv, MInv, PInv, Quiet, current # None, voice_channel_id # None
               PROVE  Sounding /\ stage.track = current
    BY DEF PlayingIsHeard
  <2>1. /\ emitted.directive = "None" /\ runtime = "Serving"
        /\ mailbox = <<>> /\ transitions = <<>> /\ worker = Resting
        /\ \A report \in DOMAIN completions : completions[report] = 0
    BY DEF Quiet, MInv, Listening
  <2>2. Due = <<>>
    BY <2>1, ConcatEmptySeq DEF Due, Sent, Resting
  <2>3. Underway
    BY <2>1, <2>2 DEF PInv, ToBePlayed, OnItsWay
  <2>4. ~InHand /\ worker.pc = "Receiving"
    BY <2>1 DEF InHand, Resting
  <2>5. \A outcome \in Outcome : ~(completions[<<current, outcome>>] > 0)
    BY <2>1 DEF IInv, CompletionsOK, ActorOK, TypeOK
  <2>6. ~\E k \in 1..Len(mailbox) : Decided(mailbox[k])
    BY <2>1, EmptySeq
  <2>7. QED
    BY <2>3, <2>4, <2>5, <2>6 DEF Underway
<1>2. QED
  BY <1>1, IInvAlways, MInvAlways, PInvAlways, PTL

=============================================================================
