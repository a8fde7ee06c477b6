--------------------------- MODULE PlaybackSession ---------------------------
(***************************************************************************)
(* One guild's session as it runs: the actor (GuildPlayer) behind its      *)
(* bounded mailbox, the bounded channel of transitions it sends, the       *)
(* playback worker that applies them to the voice gateway, the completions *)
(* the driver reports, the requests of the Discord handlers, and the       *)
(* runtime's shutdown.                                                     *)
(*                                                                         *)
(* Everything that waits in the code waits here.  The actor waits for room *)
(* in the transition channel before it answers; whoever asks it something  *)
(* waits for room in the mailbox and then for the answer; the worker takes *)
(* no transition while it waits for either.                                *)
(***************************************************************************)
EXTENDS GuildPlayer

CONSTANTS
    MailboxCapacity,   \* playback.actor_mailbox_capacity, of both channels
    Requests,          \* the kinds of command the Discord handlers send
    MaxRequests,       \* bound: how many of them are sent
    MaxCompletions,    \* bound: completions of a kind in flight at once
    StopReports,       \* whether stopping a track may report that it ended
    FaultyVoice        \* which gateway operations may fail

(* What a Discord handler asks of the actor that the worker hears of. *)
RequestKinds == {"Enqueue", "Skip", "Stop", "Pause", "Abandon", "Resume", "Return", "Park",
                 "Join", "SetVolume", "Repeat"}

ASSUME SessionAssumption ==
    /\ MailboxCapacity \in Nat \ {0}
    /\ Requests \subseteq RequestKinds
    /\ MaxRequests \in Nat
    /\ MaxCompletions \in Nat \ {0}
    /\ StopReports \in BOOLEAN
    /\ FaultyVoice \subseteq {"Prepare", "Join", "Play", "Driver"}

VARIABLES
    mailbox,       \* commands sent and not yet taken by the actor
    serving,       \* who sent the command the actor is answering
    transitions,   \* transitions sent and not yet taken by the worker
    worker,        \* where the playback worker is, and what it has in hand
    stage,         \* the gateway: its channel, its active handle, the driver
    completions,   \* completion tasks spawned and not yet sent
    runtime,       \* how far BotRuntime::shutdown has got
    requests       \* how many requests are still to come

plumbing == <<mailbox, serving, transitions, worker, stage, completions, runtime, requests>>
sessionVars == <<vars, plumbing>>

Outcome == {"Finished", "Failed"}
Request(kind, item, channel, sender) ==
    [kind |-> kind, item |-> item, channel |-> channel, sender |-> sender]

(* A worker with nothing in hand. *)
Resting == [pc |-> "Receiving", asks |-> "Snapshot", item |-> None, channel |-> None,
            volume |-> StartingVolume, deferred |-> <<>>]

(* Whatever still names an item keeps its id from being new. *)
InFlight ==
    {mailbox[k].item : k \in DOMAIN mailbox}
    \cup {transitions[k].target : k \in DOMAIN transitions}
    \cup {worker.deferred[k].target : k \in DOMAIN worker.deferred}
    \cup {worker.item, stage.track, emitted.target}
    \cup {item \in Items : \E outcome \in Outcome : completions[<<item, outcome>>] > 0}
NewItems == Fresh \ InFlight

-----------------------------------------------------------------------------
(* Mutant: nobody waits for room. *)
SendUnbounded(command) ==
    /\ running
    /\ mailbox' = Append(mailbox, command)

(* GuildPlayerHandle::request: a command enters the mailbox when there is  *)
(* room, and only while the actor has not stopped.                         *)
Send(command) ==
    /\ running
    /\ Len(mailbox) < MailboxCapacity
    /\ mailbox' = Append(mailbox, command)

ItemsFor(kind) == IF kind = "Enqueue" THEN NewItems ELSE {None}
ChannelsFor(kind) == IF kind \in {"Enqueue", "Join"} THEN VoiceChannels ELSE {None}

ClientRequest(kind) ==
    /\ requests > 0
    /\ \E item \in ItemsFor(kind) : \E channel \in ChannelsFor(kind) :
          Send(Request(kind, item, channel, "Client"))
    /\ requests' = requests - 1
    /\ UNCHANGED <<vars, serving, transitions, worker, stage, completions, runtime>>

(* A completion task: ended() reports to the actor, which may be gone. *)
ReportCompletion(item, outcome) ==
    /\ completions[<<item, outcome>>] > 0
    /\ completions' = [completions EXCEPT ![<<item, outcome>>] = @ - 1]
    /\ \/ Send(Request(outcome, item, None, "Completion"))
       \/ ~running /\ UNCHANGED mailbox
    /\ UNCHANGED <<vars, serving, transitions, worker, stage, runtime, requests>>

-----------------------------------------------------------------------------
(* The actor. *)
Idle == serving = "Nobody"

Handle(command) ==
    \/ command.kind = "Enqueue" /\ Enqueue(command.item, command.channel)
    \/ command.kind = "Skip" /\ Skip
    \/ command.kind = "Stop" /\ Stop
    \/ command.kind = "Pause" /\ HoldPlayback("Requested")
    \/ command.kind = "Abandon" /\ HoldPlayback("Abandoned")
    \/ command.kind = "Resume" /\ ReleasePlayback("Anything")
    \/ command.kind = "Return" /\ ReleasePlayback("OnlyAbandoned")
    \/ command.kind = "Park" /\ Park
    \/ command.kind = "Join" /\ Join(command.channel)
    \/ command.kind = "SetVolume" /\ \E percent \in 1..MaxVolume : SetVolume(percent)
    \/ command.kind = "Repeat" /\ \E mode \in {"Single", "All"} : SetRepeat(mode)
    \/ command.kind = "Snapshot" /\ Accept(Transition("None")) /\ UNCHANGED session
    \/ command.kind \in Outcome /\ TrackFinished(command.item, command.kind)
    \/ command.kind = "Shutdown" /\ Shutdown

ServeCommand ==
    /\ running /\ Idle /\ mailbox # <<>>
    /\ Handle(Head(mailbox))
    /\ serving' = Head(mailbox).sender
    /\ mailbox' = Tail(mailbox)
    /\ UNCHANGED <<transitions, worker, stage, completions, runtime, requests>>

ServeTimer ==
    /\ running /\ Idle
    /\ IdleTimeout
    /\ serving' = "Timer"
    /\ UNCHANGED <<mailbox, transitions, worker, stage, completions, runtime, requests>>

WorkerGone == worker.pc \in {"Left", "Aborted"}

(* The snapshot a transition carries, as far as the worker reads it. *)
Carried == [directive |-> emitted.directive, target |-> emitted.target,
            channel |-> voice_channel_id, volume |-> volume_percent]

CarriedTransition ==
    [directive: PlaybackDirective \ {"None"}, target: Items \cup VoiceChannels \cup {None},
     channel: VoiceChannels \cup {None}, volume: 1..MaxVolume]

(* emit and the reply after it.  A directive waits for room; nobody is     *)
(* listening once the worker has gone, and a timer that finds that out     *)
(* ends the actor.  An answer to a worker aborted meanwhile is dropped.    *)
Answer ==
    /\ ~Idle
    /\ \/ /\ emitted.directive = "None"
          /\ UNCHANGED <<transitions, running>>
       \/ /\ emitted.directive # "None" /\ ~WorkerGone
          /\ Len(transitions) < MailboxCapacity
          /\ transitions' = Append(transitions, Carried)
          /\ UNCHANGED running
       \/ /\ emitted.directive # "None" /\ WorkerGone
          /\ running' = (running /\ serving # "Timer")
          /\ UNCHANGED transitions
    /\ emitted' = Transition("None")
    /\ reply' = "Ok"
    /\ serving' = "Nobody"
    /\ worker' = IF serving # "Worker" \/ worker.pc # "Awaiting" THEN worker
                 ELSE IF worker.asks = "Snapshot" /\ current = worker.item
                      THEN [worker EXCEPT !.pc = "Connecting"]
                      ELSE Resting
    /\ runtime' = IF serving = "Runtime" THEN "Cancelled" ELSE runtime
    /\ UNCHANGED <<current, pending, voice_channel_id, text_channel_id, hold, votes, history,
                   repeat, shuffle, volume_percent, idle_deadline>>
    /\ UNCHANGED <<mailbox, stage, completions, requests>>

ActorStopped == ~running /\ Idle

-----------------------------------------------------------------------------
(* The gateway and the driver behind it. *)
Silence(channel) ==
    [channel |-> channel, track |-> None, driver |-> "Silent", volume |-> StartingVolume]

Sounding == stage.driver \in {"Playing", "Paused"}

Reported(item, outcome) ==
    completions' = [completions EXCEPT ![<<item, outcome>>] = @ + 1]

(* SongbirdGateway::stop takes the active handle and stops it. *)
StopStage(channel) ==
    /\ stage' = Silence(channel)
    /\ \/ UNCHANGED completions
       \/ /\ StopReports /\ Sounding
          /\ completions[<<stage.track, "Finished">>] < MaxCompletions
          /\ Reported(stage.track, "Finished")

(* The driver ends a track by itself, and a task is spawned to say so.  The *)
(* handle stays where it is.                                               *)
DriverEnds(outcome) ==
    /\ stage.driver = "Playing"
    /\ outcome = "Failed" => "Driver" \in FaultyVoice
    /\ completions[<<stage.track, outcome>>] < MaxCompletions
    /\ stage' = [stage EXCEPT !.driver = "Ended"]
    /\ Reported(stage.track, outcome)
    /\ UNCHANGED <<vars, mailbox, serving, transitions, worker, runtime, requests>>

-----------------------------------------------------------------------------
(* The playback worker. *)
At(pc) == worker.pc = pc
WorkerAlone == UNCHANGED <<vars, serving, runtime, requests>>

Rest == worker' = Resting
Proceed(pc) == worker' = [worker EXCEPT !.pc = pc]
Ask(what) == worker' = [worker EXCEPT !.pc = "Asking", !.asks = what]

Cancelled == runtime = "Cancelled"

(* What the worker does with a transition, its own wait for the network    *)
(* apart: a join is under way, or a preparation is.                        *)
Apply(transition) ==
    LET working == [Resting EXCEPT !.volume = transition.volume]
    IN  \/ /\ transition.directive = "Stop"
           /\ StopStage(stage.channel)
           /\ Rest
        \/ /\ transition.directive = "Join"
           /\ worker' = [working EXCEPT !.pc = "Joining", !.channel = transition.target]
           /\ UNCHANGED <<stage, completions>>
        \/ /\ transition.directive = "Pause"
           /\ stage' = [stage EXCEPT !.driver = IF @ = "Playing" THEN "Paused" ELSE @]
           /\ Rest
           /\ UNCHANGED completions
        \/ /\ transition.directive = "Resume"
           /\ stage' = [stage EXCEPT !.driver = IF @ = "Paused" THEN "Playing" ELSE @]
           /\ Rest
           /\ UNCHANGED completions
        \/ /\ transition.directive = "SetVolume"
           /\ stage' = [stage EXCEPT !.volume = IF stage.track = None THEN @
                                                ELSE transition.volume]
           /\ Rest
           /\ UNCHANGED completions
        \/ /\ transition.directive \in {"StopAndDisconnect", "Disconnect", "IdleDisconnect"}
           /\ StopStage(None)
           /\ Rest
        \/ /\ transition.directive = "IdleExpired"
           /\ Rest
           /\ UNCHANGED <<stage, completions>>
        \/ /\ transition.directive \in Starting
           /\ StopStage(stage.channel)
           /\ IF transition.channel = None THEN Rest
              ELSE worker' = [working EXCEPT !.pc = "Preparing", !.item = transition.target,
                                             !.channel = transition.channel]

(* A transition put aside comes first, and is taken even once cancelled.   *)
TakeDeferred ==
    /\ At("Receiving") /\ worker.deferred # <<>>
    /\ Apply(Head(worker.deferred))
    /\ UNCHANGED <<mailbox, transitions>>
    /\ WorkerAlone

TakeTransition ==
    /\ At("Receiving") /\ worker.deferred = <<>> /\ ~Cancelled
    /\ transitions # <<>>
    /\ Apply(Head(transitions))
    /\ transitions' = Tail(transitions)
    /\ UNCHANGED mailbox
    /\ WorkerAlone

(* Mutant: the transition that supersedes a preparation is lost. *)
SupersedeForgetting ==
    /\ At("Preparing") /\ ~Cancelled
    /\ transitions # <<>>
    /\ worker' = Resting
    /\ transitions' = Tail(transitions)
    /\ UNCHANGED <<mailbox, stage, completions>>
    /\ WorkerAlone

(* Whatever transition arrives first supersedes the preparation. *)
Supersede ==
    /\ At("Preparing") /\ ~Cancelled
    /\ transitions # <<>>
    /\ worker' = [Resting EXCEPT !.deferred = <<Head(transitions)>>]
    /\ transitions' = Tail(transitions)
    /\ UNCHANGED <<mailbox, stage, completions>>
    /\ WorkerAlone

(* Mutant: a track that cannot be prepared is dropped without a word. *)
FinishPreparingSilently ==
    /\ At("Preparing") /\ ~Cancelled /\ transitions = <<>> /\ ~ActorStopped
    /\ \/ Ask("Snapshot")
       \/ "Prepare" \in FaultyVoice /\ Rest
    /\ UNCHANGED <<mailbox, transitions, stage, completions>>
    /\ WorkerAlone

(* The select is biased: a preparation counts only with nothing to supersede it. *)
FinishPreparing ==
    /\ At("Preparing") /\ ~Cancelled /\ transitions = <<>> /\ ~ActorStopped
    /\ \/ Ask("Snapshot")
       \/ "Prepare" \in FaultyVoice /\ Ask("Failed")
    /\ UNCHANGED <<mailbox, transitions, stage, completions>>
    /\ WorkerAlone

(* Mutant: a question nobody is left to take is asked again. *)
AskActorForever ==
    /\ At("Asking")
    /\ Send(Request(worker.asks, IF worker.asks = "Failed" THEN worker.item ELSE None,
                    None, "Worker"))
    /\ Proceed("Awaiting")
    /\ UNCHANGED <<transitions, stage, completions>>
    /\ WorkerAlone

(* The worker's own questions: the snapshot that verifies a prepared track *)
(* is still the current one, the park of a channel it could not take, and  *)
(* the failure of a track it could not play.  A stopped actor answers      *)
(* nothing, and the worker goes on.                                        *)
AskActor ==
    /\ At("Asking")
    /\ \/ /\ Send(Request(worker.asks, IF worker.asks = "Failed" THEN worker.item ELSE None,
                          None, "Worker"))
          /\ Proceed("Awaiting")
       \/ /\ ActorStopped
          /\ Rest
          /\ UNCHANGED mailbox
    /\ UNCHANGED <<transitions, stage, completions>>
    /\ WorkerAlone

AnswerLost ==
    /\ At("Awaiting") /\ ActorStopped
    /\ Rest
    /\ UNCHANGED <<mailbox, transitions, stage, completions>>
    /\ WorkerAlone

(* The Join directive: the channel is taken, or given up and parked.  A     *)
(* join that fails leaves no voice session behind it.                      *)
FinishJoining ==
    /\ At("Joining")
    /\ \/ /\ stage' = [stage EXCEPT !.channel = worker.channel]
          /\ Rest
       \/ /\ "Join" \in FaultyVoice
          /\ stage' = Silence(None)
          /\ Ask("Park")
    /\ UNCHANGED <<mailbox, transitions, completions>>
    /\ WorkerAlone

(* voice.play, once the prepared track was verified. *)
FinishConnecting ==
    /\ At("Connecting")
    /\ \/ /\ stage' = [channel |-> worker.channel, track |-> worker.item,
                       driver |-> "Playing", volume |-> worker.volume]
          /\ Rest
       \/ /\ "Join" \in FaultyVoice
          /\ stage' = Silence(None)
          /\ Ask("Park")
       \/ /\ "Play" \in FaultyVoice
          /\ stage' = Silence(worker.channel)
          /\ Ask("Failed")
    /\ UNCHANGED <<mailbox, transitions, completions>>
    /\ WorkerAlone

(* Mutant: a preparation is not interrupted by the cancellation. *)
LeaveFromRest ==
    /\ At("Receiving") /\ worker.deferred = <<>>
    /\ Cancelled \/ (ActorStopped /\ transitions = <<>>)
    /\ StopStage(None)
    /\ Proceed("Left")
    /\ UNCHANGED <<mailbox, transitions>>
    /\ WorkerAlone

(* The worker leaves the channel and ends: cancelled, or with no actor     *)
(* left to hear from.                                                      *)
Leave ==
    /\ \/ At("Receiving") /\ worker.deferred = <<>>
       \/ At("Preparing")
    /\ Cancelled \/ (ActorStopped /\ transitions = <<>>)
    /\ StopStage(None)
    /\ Proceed("Left")
    /\ UNCHANGED <<mailbox, transitions>>
    /\ WorkerAlone

-----------------------------------------------------------------------------
(* BotRuntime::shutdown: stop the actor and wait for its answer, cancel,   *)
(* and give the tasks a while to end before they are aborted.  Until then  *)
(* nothing else stops the actor, so its answer comes if any answer does.   *)
SignalReceived ==
    /\ runtime = "Serving"
    /\ runtime' = "Signalled"
    /\ UNCHANGED <<vars, mailbox, serving, transitions, worker, stage, completions, requests>>

ShutdownRequest ==
    /\ runtime = "Signalled"
    /\ Send(Request("Shutdown", None, None, "Runtime"))
    /\ runtime' = "Stopping"
    /\ UNCHANGED <<vars, serving, transitions, worker, stage, completions, requests>>

(* A session a handler got in after the map was taken is asked nothing: it *)
(* is cancelled with the rest.                                             *)
CancelUnasked ==
    /\ runtime = "Serving"
    /\ runtime' = "Cancelled"
    /\ UNCHANGED <<vars, mailbox, serving, transitions, worker, stage, completions, requests>>

AbortWorker ==
    /\ Cancelled /\ ~WorkerGone
    /\ Proceed("Aborted")
    /\ UNCHANGED <<mailbox, transitions, stage, completions>>
    /\ WorkerAlone

-----------------------------------------------------------------------------
SessionInit ==
    /\ Init
    /\ mailbox = <<>>
    /\ serving = "Nobody"
    /\ transitions = <<>>
    /\ worker = Resting
    /\ stage = Silence(None)
    /\ completions = [report \in Items \X Outcome |-> 0]
    /\ runtime = "Serving"
    /\ requests = MaxRequests

Actor == ServeCommand \/ Answer
Worker ==
    TakeDeferred \/ TakeTransition \/ Supersede \/ FinishPreparing \/ AskActor \/ AnswerLost
    \/ FinishJoining \/ FinishConnecting \/ Leave
Driver == \E outcome \in Outcome : DriverEnds(outcome)
Reporters == \E item \in Items, outcome \in Outcome : ReportCompletion(item, outcome)
Clients == \E kind \in Requests : ClientRequest(kind)
Runtime == SignalReceived \/ ShutdownRequest \/ CancelUnasked \/ AbortWorker

SessionNext == Actor \/ ServeTimer \/ Worker \/ Driver \/ Reporters \/ Clients \/ Runtime

SessionSpec == SessionInit /\ [][SessionNext]_sessionVars

(* Tokio runs every task that can run and the driver plays its tracks to   *)
(* their end.  Nothing makes anybody send a request, stop the service, or  *)
(* leave a session silent until its countdown runs out.                    *)
Fairness ==
    /\ WF_sessionVars(ServeCommand) /\ WF_sessionVars(Answer)
    /\ WF_sessionVars(Worker)
    /\ WF_sessionVars(Driver)
    /\ \A item \in Items, outcome \in Outcome : WF_sessionVars(ReportCompletion(item, outcome))
    /\ WF_sessionVars(ShutdownRequest)

FairSessionSpec == SessionSpec /\ Fairness

-----------------------------------------------------------------------------
SessionTypeOK ==
    /\ TypeOK
    /\ mailbox \in Seq([kind: Requests \cup Outcome \cup {"Snapshot", "Park", "Shutdown"},
                        item: Items \cup {None}, channel: VoiceChannels \cup {None},
                        sender: {"Client", "Completion", "Worker", "Runtime"}])
    /\ Len(mailbox) <= MailboxCapacity
    /\ serving \in {"Nobody", "Timer", "Client", "Completion", "Worker", "Runtime"}
    /\ transitions \in Seq(CarriedTransition) /\ Len(transitions) <= MailboxCapacity
    /\ worker \in [pc: {"Receiving", "Preparing", "Asking", "Awaiting", "Joining", "Connecting",
                        "Left", "Aborted"},
                   asks: {"Snapshot", "Failed", "Park"},
                   item: Items \cup {None}, channel: VoiceChannels \cup {None},
                   volume: 1..MaxVolume, deferred: Seq(CarriedTransition)]
    /\ stage \in [channel: VoiceChannels \cup {None}, track: Items \cup {None},
                  driver: {"Silent", "Playing", "Paused", "Ended"}, volume: 1..MaxVolume]
    /\ completions \in [Items \X Outcome -> 0..MaxCompletions]
    /\ runtime \in {"Serving", "Signalled", "Stopping", "Cancelled"}
    /\ requests \in 0..MaxRequests

(* Transitions sent, or waiting to be, that the worker has yet to apply. *)
Pipeline ==
    {worker.deferred[k].directive : k \in DOMAIN worker.deferred}
    \cup {transitions[k].directive : k \in DOMAIN transitions}
    \cup {emitted.directive}
Leaving == {"StopAndDisconnect", "Disconnect", "IdleDisconnect"}
Silencing == Leaving \cup Starting \cup {"Stop"}
Coming(directives) == directives \cap Pipeline # {}

(* Nothing is left for the worker, the actor or a completion to do. *)
Quiet ==
    /\ running /\ Idle /\ runtime = "Serving"
    /\ mailbox = <<>> /\ transitions = <<>>
    /\ worker = Resting
    /\ \A report \in DOMAIN completions : completions[report] = 0

(* Whatever the room hears against the session's word is about to stop: a  *)
(* track that is not the current one, anything at all after the session    *)
(* gave its channel up, a track that plays while it is held or is paused   *)
(* while it is not, a level that was changed.  The directive that mends it *)
(* has been sent.                                                          *)
WrongAudioIsBeingMended ==
    runtime # "Cancelled" =>
        /\ voice_channel_id = None /\ stage.channel # None => Coming(Leaving)
        /\ Sounding /\ stage.track # current => Coming(Silencing)
        /\ stage.driver = "Playing" /\ hold # "None" => Coming(Silencing \cup {"Pause"})
        /\ stage.driver = "Paused" /\ hold = "None" => Coming(Silencing \cup {"Resume"})
        /\ Sounding /\ stage.volume # volume_percent => Coming(Silencing \cup {"SetVolume"})

(* Once everything has been said and done, the room hears what the session *)
(* says is playing.                                                        *)
PlayingIsHeard ==
    Quiet /\ current # None /\ voice_channel_id # None /\ hold = "None"
        => Sounding /\ stage.track = current

(* ... and the session is in the channel it says it is in. *)
ChannelIsHeld == Quiet => stage.channel = voice_channel_id

(* A completion ends the performance it reports, never one still going. *)
CompletionsEndTheirOwn ==
    [][ServeCommand /\ Head(mailbox).kind = "Finished" /\ current = Head(mailbox).item
          => ~(Sounding /\ stage.track = current)]_sessionVars

(* A queue without a channel is one /leave parked: held, and let go when   *)
(* the countdown runs out.                                                 *)
ParkedQueueIsCountedDown ==
    voice_channel_id = None /\ current # None => hold # "None" /\ idle_deadline

(* A track that becomes current is heard, or something else becomes of it. *)
Awaited(item) ==
    /\ running /\ runtime = "Serving"
    /\ current = item /\ voice_channel_id # None /\ hold = "None"
TracksGetStarted == \A item \in Items : Awaited(item) ~> (stage.track = item \/ ~Awaited(item))

(* Shutting a session down ends its actor and its worker. *)
ShutdownEnds == (runtime = "Signalled") ~> (ActorStopped /\ WorkerGone)

(* A cancelled worker leaves, wherever the cancellation finds it. *)
CancellationEnds == Cancelled ~> WorkerGone

=============================================================================
