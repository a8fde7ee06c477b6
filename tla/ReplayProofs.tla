----------------------------- MODULE ReplayProofs -----------------------------
(***************************************************************************)
(* Theorems about DirectiveReplay: the directives the actor sends are      *)
(* enough to make a worker that keeps up play what the session says.       *)
(***************************************************************************)
EXTENDS DirectiveReplay, GuildPlayerProofs

(* The actor is GuildPlayer's, whatever listens to it. *)
LEMMA ReplayIsGuildPlayer == ReplaySpec => Spec
<1>1. ReplayInit => Init
  BY DEF ReplayInit
<1>2. [ReplayNext]_replay => [Next]_vars
  BY DEF ReplayNext, replay
<1>3. QED
  BY <1>1, <1>2, PTL DEF ReplaySpec, Spec

LEMMA ActorInReplay == ReplaySpec => [](TypeOK /\ QueueIsSound /\ Countdown)
<1>1. NothingOutlivesItsTrack /\ SilentChannelIsCountedDown /\ PlayingIsNotCountedDown
         => Countdown
  BY DEF Countdown
<1>2. QED
  BY <1>1, ReplayIsGuildPlayer, TypeCorrect, QueueCorrect, CountdownCorrect, PTL

(* What the gateway plays, told by the session's word alone. *)
Hears(heard, word) ==
    /\ heard.channel = word.channel
    /\ heard.track = IF word.channel = None THEN None ELSE word.track
    /\ heard.track # None =>
          /\ heard.paused = (word.hold # "None")
          /\ heard.volume = word.volume

LEMMA RoomHearsTheWord == RoomHearsTheSession <=> Hears(stage, Word)
BY DEF RoomHearsTheSession, Hears, Word

StageOK == stage \in [channel: VoiceChannels \cup {None}, track: Items \cup {None},
                      paused: BOOLEAN, volume: (1..MaxVolume) \cup {None}]

(* The steps that leave the word alone leave the gateway alone. *)
LEMMA DirectiveIsHeard ==
    ASSUME StageOK, Hears(stage, Word), TypeOK, TypeOK', Says,
           stage' = Apply(emitted', Snapshot')
    PROVE  Hears(stage, Word)'
<1> DEFINE directive == emitted'.directive
<1>w. /\ Word = [channel |-> voice_channel_id, track |-> current, hold |-> hold,
                 volume |-> volume_percent]
      /\ Word' = [channel |-> voice_channel_id', track |-> current', hold |-> hold',
                  volume |-> volume_percent']
  BY DEF Word
<1>s. /\ Snapshot'.voice_channel_id = voice_channel_id'
      /\ Snapshot'.volume_percent = volume_percent'
  BY DEF Snapshot
<1>n. current \in Items \cup {None} /\ current' \in Items \cup {None}
  BY DEF TypeOK
<1>1. CASE directive = "None"
  BY <1>1 DEF Says, Said, Starting, GivingUp, Hears, Apply
<1>2. CASE directive \in GivingUp
  BY <1>2, <1>w DEF Says, Said, Starting, GivingUp, Hears, Apply, Quiet
<1>3. CASE directive = "IdleExpired"
  BY <1>3, <1>w DEF Says, Said, Starting, GivingUp, Hears, Apply
<1>4. CASE directive = "Stop"
  BY <1>4, <1>w DEF Says, Said, Starting, GivingUp, Hears, Apply, Quiet
<1>5. CASE directive \in Starting
  BY <1>5, <1>w, <1>s DEF Says, Said, Starting, GivingUp, Hears, Apply, Quiet
<1>6. CASE directive = "Join"
  BY <1>6, <1>w DEF Says, Said, Starting, GivingUp, Hears, Apply, StageOK
<1>7. CASE directive = "Pause"
  BY <1>7, <1>w DEF Says, Said, Starting, GivingUp, Hears, Apply, Adjusted, StageOK
<1>8. CASE directive = "Resume"
  BY <1>8, <1>w DEF Says, Said, Starting, GivingUp, Hears, Apply, Adjusted, StageOK
<1>9. CASE directive = "SetVolume"
  BY <1>9, <1>w, <1>s DEF Says, Said, Starting, GivingUp, Hears, Apply, Adjusted, StageOK
<1>10. QED
  BY <1>1, <1>2, <1>3, <1>4, <1>5, <1>6, <1>7, <1>8, <1>9 DEF Says, Said

LEMMA StageKept ==
    ASSUME StageOK, TypeOK', Says, stage' = Apply(emitted', Snapshot')
    PROVE  StageOK'
<1> DEFINE directive == emitted'.directive
<1>w. Word'.channel = voice_channel_id' /\ Word'.track = current'
  BY DEF Word
<1>t. /\ voice_channel_id' \in VoiceChannels \cup {None} /\ current' \in Items \cup {None}
      /\ volume_percent' \in 1..MaxVolume
  BY DEF TypeOK
<1>s. /\ Snapshot'.voice_channel_id = voice_channel_id'
      /\ Snapshot'.volume_percent = volume_percent'
  BY DEF Snapshot
<1>1. CASE directive \in {"None", "IdleExpired"}
  BY <1>1 DEF Starting, Apply, StageOK
<1>2. CASE directive \in GivingUp \cup {"Stop"}
  BY <1>2 DEF Starting, GivingUp, Apply, Quiet, StageOK
<1>3. CASE directive \in Starting
  <2>1. emitted'.target = current'
    BY <1>3, <1>w DEF Says, Said, Starting, GivingUp
  <2>2. CASE voice_channel_id' = None
    BY <1>3, <1>s, <2>2 DEF Apply, Starting, Quiet, StageOK
  <2>3. CASE voice_channel_id' # None
    BY <1>3, <1>s, <1>t, <2>1, <2>3 DEF Apply, Starting, StageOK
  <2>4. QED
    BY <2>2, <2>3
<1>4. CASE directive = "Join"
  <2>1. emitted'.target \in VoiceChannels \cup {None}
    BY <1>4, <1>w, <1>t DEF Says, Said, Starting, GivingUp
  <2>2. QED
    BY <1>4, <2>1 DEF Apply, StageOK
<1>5. CASE directive \in {"Pause", "Resume", "SetVolume"}
  BY <1>5, <1>s, <1>t DEF Apply, Adjusted, StageOK
<1>6. QED
  BY <1>1, <1>2, <1>3, <1>4, <1>5 DEF Says, Said

RInv == StageOK /\ RoomHearsTheSession

LEMMA InitRInv == ReplayInit => RInv
<1> SUFFICES ASSUME ReplayInit
             PROVE  RInv
  OBVIOUS
<1>1. StageOK
  BY DEF ReplayInit, StageOK, Quiet
<1>2. stage.channel = None /\ stage.track = None
  BY DEF ReplayInit, Quiet
<1>3. RoomHearsTheSession
  BY <1>2 DEF ReplayInit, Init, RoomHearsTheSession
<1>4. QED
  BY <1>1, <1>3 DEF RInv

LEMMA ReplayStep ==
    ASSUME RInv, TypeOK, TypeOK', Countdown, [ReplayNext]_replay
    PROVE  RInv'
<1>1. CASE ReplayNext
  <2>1. Says
    BY <1>1, NextSays DEF ReplayNext
  <2>2. StageOK'
    BY <1>1, <2>1, StageKept DEF ReplayNext, RInv
  <2>3. Hears(stage, Word)'
    BY <1>1, <2>1, DirectiveIsHeard, RoomHearsTheWord DEF ReplayNext, RInv
  <2>4. RoomHearsTheSession'
    BY <2>3 DEF RoomHearsTheSession, Hears, Word
  <2>5. QED
    BY <2>2, <2>4 DEF RInv
<1>2. CASE UNCHANGED replay
  BY <1>2 DEF replay, vars, session, RInv, StageOK, RoomHearsTheSession
<1>3. QED
  BY <1>1, <1>2

(* The room hears what the session says, whatever it is asked and whatever *)
(* ends, fails or runs out: its channel, its track, held or not, its level. *)
THEOREM RoomHearsCorrect == ReplaySpec => []RoomHearsTheSession
<1>1. ReplayInit => RInv
  BY InitRInv
<1>2. RInv /\ TypeOK /\ TypeOK' /\ Countdown /\ [ReplayNext]_replay => RInv'
  BY ReplayStep
<1>3. RInv => RoomHearsTheSession
  BY DEF RInv
<1>4. QED
  BY <1>1, <1>2, <1>3, ActorInReplay, PTL DEF ReplaySpec

-----------------------------------------------------------------------------
(* A track that is heard is started again only by its own end, under a     *)
(* repeat mode that owes it the next turn, or by a skip, when /repeat all  *)
(* brings it round at once.                                                *)
THEOREM NoNeedlessRestartCorrect == ReplaySpec => NoNeedlessRestart
<1>1. /\ TypeOK /\ QueueIsSound /\ Countdown /\ TypeOK'
      /\ RoomHearsTheSession /\ [ReplayNext]_replay
      => [emitted'.directive \in Starting /\ stage.track # None
             /\ stage.track = emitted'.target
          => \/ Skipping /\ ComesRoundAtOnce
             \/ /\ TrackFinished(stage.track, "Finished")
                /\ repeat = "Single" \/ ComesRoundAtOnce]_replay
  <2> SUFFICES ASSUME TypeOK, QueueIsSound, Countdown, TypeOK', RoomHearsTheSession,
                      ReplayNext, emitted'.directive \in Starting, stage.track # None,
                      stage.track = emitted'.target
               PROVE  \/ Skipping /\ ComesRoundAtOnce
                      \/ /\ TrackFinished(stage.track, "Finished")
                         /\ repeat = "Single" \/ ComesRoundAtOnce
    OBVIOUS
  <2>1. voice_channel_id # None /\ stage.track = current
    BY DEF RoomHearsTheSession
  <2>2. emitted'.target = current'
    <3>1. Says
      BY NextSays DEF ReplayNext
    <3>2. QED
      BY <3>1 DEF Says, Said, Starting, GivingUp, Word
  <2>3. CASE PlaysOn
    BY <2>1, <2>3 DEF PlaysOn
  <2>4. CASE TrackLeaves
    <3>1. PICK reason \in Departure, start \in Starting : MovesOff(reason, start)
      BY <2>4 DEF TrackLeaves
    <3>2. PlaysAgain(reason) \/ ComesRoundAtOnce
      BY <2>1, <2>2, <3>1, FollowsItself
    <3>3. reason # "Failed"
      BY <2>1, <2>2, <3>1, FollowsItself
    <3>4. CASE reason = "Skipped"
      BY <3>1, <3>2, <3>4 DEF MovesOff, PlaysAgain
    <3>5. CASE reason = "Finished"
      BY <2>1, <3>1, <3>2, <3>5 DEF MovesOff, PlaysAgain
    <3>6. QED
      BY <3>3, <3>4, <3>5 DEF Departure
  <2>5. CASE SessionEnds
    BY <2>5 DEF SessionEnds, Ending, Starting
  <2>6. QED
    BY <2>3, <2>4, <2>5, NextMoves DEF ReplayNext
<1>2. QED
  BY <1>1, ActorInReplay, RoomHearsCorrect, PTL DEF ReplaySpec, NoNeedlessRestart

=============================================================================
