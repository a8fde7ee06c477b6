--------------------------- MODULE DirectiveReplay ---------------------------
(***************************************************************************)
(* The guild actor with a worker that keeps up: every directive is applied *)
(* to the voice gateway as soon as it is sent, and nothing fails.  What is *)
(* left to get right is the actor's own half of the contract: the stream   *)
(* of directives, with the snapshots it carries, is all the worker ever    *)
(* learns, so it has to be enough to make the room hear what the session   *)
(* says it hears.                                                          *)
(***************************************************************************)
EXTENDS GuildPlayer

VARIABLE stage   \* what the gateway is doing in the guild

replay == <<vars, stage>>

Quiet(channel) == [channel |-> channel, track |-> None, paused |-> FALSE, volume |-> None]

(* Pausing, resuming and the level are things done to the active track,    *)
(* and nothing at all with none (SongbirdGateway::adjust).                 *)
Adjusted(with) == IF stage.track = None THEN stage ELSE with

(* The gateway after the worker has applied a directive.  `snapshot' is    *)
(* the voice channel and the level the transition carries.                 *)
Apply(transition, snapshot) ==
    CASE transition.directive = "Stop" -> Quiet(stage.channel)
      [] transition.directive = "Join" -> [stage EXCEPT !.channel = transition.target]
      [] transition.directive = "Pause" -> Adjusted([stage EXCEPT !.paused = TRUE])
      [] transition.directive = "Resume" -> Adjusted([stage EXCEPT !.paused = FALSE])
      [] transition.directive = "SetVolume" ->
            Adjusted([stage EXCEPT !.volume = snapshot.volume_percent])
      [] transition.directive \in {"StopAndDisconnect", "Disconnect", "IdleDisconnect"} ->
            Quiet(None)
      [] transition.directive \in {"None", "IdleExpired"} -> stage
      [] transition.directive \in {"Play", "Replace"} ->
            IF snapshot.voice_channel_id = None THEN Quiet(stage.channel)
            ELSE [channel |-> snapshot.voice_channel_id, track |-> transition.target,
                  paused |-> FALSE, volume |-> snapshot.volume_percent]

Snapshot == [voice_channel_id |-> voice_channel_id, volume_percent |-> volume_percent]

ReplayInit == Init /\ stage = Quiet(None)
ReplayNext == Next /\ stage' = Apply(emitted', Snapshot')
ReplaySpec == ReplayInit /\ [][ReplayNext]_replay
FairReplaySpec == ReplaySpec /\ TimerFires

(* The room hears what the session says: the worker is in the session's    *)
(* channel; while there is one, what it plays is the current track, paused *)
(* exactly when the session is held, at the session's level.  A session    *)
(* without a channel plays nothing.                                        *)
RoomHearsTheSession ==
    /\ stage.channel = voice_channel_id
    /\ stage.track = IF voice_channel_id = None THEN None ELSE current
    /\ stage.track # None =>
          /\ stage.paused = (hold # "None")
          /\ stage.volume = volume_percent

(* Nothing is started twice over: a track that is heard is started again   *)
(* only by its own end, under a repeat mode that owes it the next turn, or *)
(* by a skip, when /repeat all brings it round at once.  No request that   *)
(* queues, joins or resumes starts it again, whatever mode is on.          *)
NoNeedlessRestart ==
    [][emitted'.directive \in Starting /\ stage.track # None /\ stage.track = emitted'.target
          => \/ Skipping /\ ComesRoundAtOnce
             \/ TrackFinished(stage.track, "Finished") /\ (repeat = "Single" \/ ComesRoundAtOnce)
      ]_replay

=============================================================================
