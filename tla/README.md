# Verification of auxide

TLA+ models of auxide (a Discord bot that plays queued tracks into voice
channels), the TLC runs that check them on small instances, and proofs about
them that TLAPS checks for every value of the constants.

- [The system](#the-system) · [What makes it hard](#what-makes-it-hard)
- [The modules](#the-modules) · [The runs](#the-runs) · [Fairness](#fairness)
- [What is proved](#what-is-proved) · [What the runs found](#what-the-runs-found)
- [Limits](#limits) · [Plan](#plan)

Paths below are relative to the repository; line numbers of every definition
are in `PROJECT.json` under `map`.

## The system

One process serves many guilds. Each guild has a session of two tasks, joined
by two bounded channels.

```
 Discord ──interactions──▶ handlers ───request──▶ mailbox ──▶ ACTOR (GuildPlayer)
    │                       ▲  │ └────answer──────────────────── │ ▲
    │        pending searches  │ searches                         │ │
    │                          ▼                                  │ │
    │            RESOLVER (yt-dlp, permits) ◀── typing            │ │
    │                          ▲                                  │ │ snapshot, failed, park
    └─voice states─▶ voice state handler ──hold/release──▶ mailbox│ │
                       reads cache   │                transitions ▼ │
                         ▲           │ resolve              WORKER (playback_worker)
                         │           └──────── AUDIO PIPELINE ◀── prepare ┤
                         └──── Discord's cache ◀──────────── join/leave ──┤
                                                                          ▼
 actor ◀── completion task ◀── end of track ◀─────────────── VOICE GATEWAY (Songbird)

 run_with ──▶ the map of sessions, cancellation ──▶ every task;  LISTENER (health, metrics)
```

| Part | Source | State | Operations | What makes it correct |
|---|---|---|---|---|
| Guild player actor | `src/player.rs` | current track, queue, voice and text channel, hold, votes, history, repeat, shuffle, level, idle deadline | one command at a time off its mailbox; its idle timer | no track is lost or duplicated; the queue is bounded; a silent channel is counted down and a playing one is not; votes and holds belong to one performance |
| Playback worker | `src/discord.rs` `playback_worker`, `start_track`, `fail_track`, `give_up_the_channel` | the transition in hand, one deferred | applies each transition to the gateway; prepares, verifies and plays tracks; parks a session whose channel it cannot take | what the room hears becomes what the session says; it ends when it is cancelled |
| Voice gateway | `src/voice.rs` | active track handle, Songbird's call | join, play, pause, resume, set_volume, stop, leave; reports the end of a track from a task of its own | the end of a track is reported once and about the right track |
| Command handlers | `src/discord.rs` | authorization (the voice channel at that time) | defer, authorize, prepare, send the actor one request, answer or refuse | a command is carried out for somebody in the room; a skip has the room's agreement; the channel is told what happened, and only that |
| Search picker | `src/discord.rs` | pending searches | bounded, expiring, taken by the first press | a search is used once, by who asked |
| Voice state handler | `src/discord.rs` | none | reads who is in the channel, then holds or releases | an empty room is held, a return is noticed, nobody's pause is lifted |
| Runtime | `src/discord.rs` `run_with`, `BotRuntime` | map of sessions, tasks, cancellation | starts, creates sessions up to `max_guilds`, shuts everything down | one player for a server; no task is lost; the exit comes |
| Resolver | `src/source/mod.rs`, `src/source/youtube.rs` | permits | search, inspect, playlist, resolve, each a run of yt-dlp | permits come back; what can be played of an answer is used |
| Bounded processes | `src/process.rs` | child, readers of its pipes | run with a deadline and an output bound; killed when dropped | no process outlives its call |
| Suggestions | `src/suggest.rs` | cache, the permit for one background search | answers a keystroke, warms the cache | typing takes one place in the resolver at most |
| Audio pipeline | `src/audio.rs` | URL, position, length, attempts, refreshes, cancellation | range requests, retries, fresh URLs, resumption | bytes come in order, once, to the end; an abandoned reading ends |
| Observability | `src/observability.rs` | readiness, connections | accepts, answers, hangs up; counts interactions | a connection that says nothing keeps nobody out for good |
| Configuration, entry points, test doubles | `src/config.rs`, `src/main.rs`, `src/spike.rs`, `src/fake_discord.rs`, `src/gateway_tests.rs` | - | parsing and wiring | - |

## What makes it hard

`PROJECT.json` lists each hazard at its line. They come in seven kinds.

- *Two queues and an answer.* The actor waits for room in the transition
  channel before it answers; the worker, who makes that room, waits for
  answers. Everything the worker learns is older than what the actor knows.
- *Preparation takes seconds.* A transition that arrives meanwhile supersedes
  it; what it supersedes must be started by something else, and what it had
  begun (a process, a permit, a blocking read) must be ended.
- *Completions travel on their own.* They can arrive after a skip, a stop, a
  departure, or another performance of the same track.
- *Modes combine.* Repeat, shuffle, skip, vote, hold, park and the countdown are
  all touched by each other's commands, and tests try a few combinations.
- *Handlers act on what they read.* Between reading (the requester's channel,
  the listeners, a snapshot, a pending search) and acting, everybody moves.
- *The outside is slow or silent.* Requests are cut short, URLs go stale,
  processes hang and leave others behind, connections say nothing.
- *Every call to Discord may fail* and leaves a message as it was.

## The modules

```
 Jukebox ◀─implements─ GuildPlayer ◀─extends─ DirectiveReplay   (worker that keeps up)
                                   ◀─extends─ PlaybackSession   (the real pipeline)
                                   ◀─extends─ Room              (people and handlers)

 ByteStream ◀─implements─ ChunkedStream                         (audio)
 Resolver   ◀─extends─ Suggestions                              (yt-dlp and typing)
 Observability ◀─extends─ Runtime                               (the process)
 Interactions                                                   (handlers, picker)

 GuildPlayerProofs ◀─ SessionProofs ──▶ PlaybackSession
                   ◀─ ReplayProofs  ──▶ DirectiveReplay
                   ◀─ RoomProofs    ──▶ Room
 ChunkedStreamProofs, InteractionsProofs, RuntimeProofs, SuggestionsProofs
                                    ──▶ the module each is named after
```

**`Jukebox`** is what the queue promises, without holds, votes, channels or
modes: a track plays, others wait, a track stops and another may start, nothing
that waits is started twice, and the whole stays within its capacity.

**`GuildPlayer`** is the actor: every variable of `GuildPlayer` in
`src/player.rs`, one action per command with the code's order of checks and
mutations, and the idle timer. `Refuse(error)` is an `Err` return, which changes
nothing; `Accept` and the answering forms are the `PlayerTransition`s, kept in
`emitted` so that action properties can speak about them. `Next` is `Command`
(any request in any state), `Expire` (the timer) and `AfterStopped`.
Abstractions: a queue item is an id with a requester and a text channel; an id
is new when nothing in the session names it; the deadline is a Boolean, running
or not; a level is a number; shuffle's random choice is `\E`.

**`DirectiveReplay`** is the contract between actor and worker: a stage driven
by nothing but the transitions, in order, with nothing failing.

**`PlaybackSession`** is the pipeline as it runs. The mailbox and the channel of
transitions are bounded sequences; `Send` and the actor's `Answer` wait for
room. The worker's `pc` is its await points: `Receiving`, `Preparing` (where
`Supersede` competes with `FinishPreparing`), `Asking` and `Awaiting` (a request
to the actor), `Joining`, `Connecting`, `Left`, `Aborted`. The stage is the
gateway: its channel, its active handle, the driver's state. Preparing, joining,
playing and the driver fail when `FaultyVoice` says they may. `runtime` is
`BotRuntime::shutdown` as one session sees it; `CancelUnasked` is the session a
handler created after the map was taken. Any request may come at any time: that
includes everything the handlers' checks let through.

**`Room`** is people and handlers. `presence` and `seat` are Discord's cache;
`route` is where the worker has been sent and the cache does not say yet. A
command is three or four steps: `Authorize` (captures the voice channel),
`Check` (`require_same_voice`), `Count` (`/skip` only), `Perform` (one request,
an action of `GuildPlayer`). A voice state update is `Dispatched`, then `Look`
reads the cache, then `HoldRoom` or `ReleaseRoom`. `Overlap` says which kinds of
step may run between the steps of another handler of that kind: a command while
another runs, a person moving while their own command runs, a voice state update
while another is handled. The code allows all three; the empty set is used to
show that an overlap, and nothing else, causes what a run finds. Handlers of
different kinds interleave whatever `Overlap` says.

**`Interactions`** is what becomes of an interaction: `Defer`, `Authorize`,
`Prepare`, then what its kind needs, then `Answer`, or `Withdraw` and `Refuse`;
for a press of a picker's button `Choose`, `Enqueue`, `Respond`, `Announce`.
Each await is a step, and each call to Discord may fail. `publicly` and
`privately` are what the channel and the requester have in front of them;
`searches` is the map of pending searches, pruned by age (`SearchAges` is the
clock) and bounded. Six kinds stand for the commands, by what they queue and
whom they answer. The session is a channel and a length that move on by
themselves (`SessionMovesOn`): what is done to it is `Room`'s and `GuildPlayer`'s.

**`ByteStream`** is what a decoder is promised: bytes in order, none missing,
none twice, nothing after the end. **`ChunkedStream`** is the reader of
`src/audio.rs`: a request for a range (`Pull`), everything HTTP may answer
(`Served`, `ServedNothing`, `ServedWhole`, `Exhausted`, `Refused`, `Lost`), the
attempts on one URL, the adapter's resumption with a fresh one (`Resume`,
`Refresh`), and the cancellation token. `prepare`, `probe` and `reach` are three
owners of one stream. Bytes carry the encoding and the offset they come from: a
fresh URL may serve another encoding.

**`Resolver`** is `SourceResolver` over `CommandSpec::run`: a call waits for a
permit (`TakePermit`, first come first served), runs a process that ends, is
killed at its deadline or goes with a dropped call, joins the readers of its
pipes, and judges what was printed (`Judge`, with the functions it is made of).
A process may leave a descendant that holds its pipes. **`Suggestions`** adds
`src/suggest.rs`: the cache, its age and bound, and the background tasks that
search with a permit which is tried for and never waited for. Playback and a
command that expands a playlist call the same resolver.

**`Observability`** is the listener: its accept loop, which joins finished
connections first; its bound; the deadline of each connection; its end.
**`Runtime`** is `run_with` from the token to the exit, stage by stage, and
`BotRuntime::session` and `shutdown` over several servers: the map with its lock
(`making` is the request that holds it across an await), the tasks, and the
drain. The listener and the gauges run beside it. A player's answer to
`Shutdown` is one step here, which need not come; why it may not is in
`PlaybackSession`.

The MC modules hold the values TLC needs and nothing else.

## The runs

Every bound is a constant of the model.

| Run | Question | Bounds |
|---|---|---|
| `guild_player` | Does any sequence of commands break the session's consistency or lose a track? Does the actor implement `Jukebox`? | 4 items of 2 people, 2 voice channels, 3 tracks, batches of 2, history of 2, all modes |
| `directive_replay` | Are the directives enough to keep the room right, with no restart that was not asked for? Does a silent session end? | 3 items, 2 tracks, 2 levels, no symmetry (it has a liveness property) |
| `playback_session` | With failures, queues and interleavings, is whatever is heard wrongly being mended? | 4 requests of 11 kinds, channels of 2, one completion of a kind in flight |
| `playback_session_liveness` | Do tracks get started, do shutdown and cancellation end? | 3 requests of 5 kinds, channels of 6 (never full) |
| `room` | Is the room right when handlers of a kind take turns? | every command, 3 of them, 3 moves, 2 people, 2 channels, `Overlap = {}` |
| `interactions` | Is a picker used once, are the newest searches there, is the channel told the truth, is everything counted once? | 3 interactions of 6 kinds or presses, 2 people, 2 text channels, 1 track, pickers of 1, 2 searches, a queue of 2 |
| `chunked_stream` | Does the decoder get the track, in order and whole, at a bounded cost? Do abandoned readings end? | 2 encodings of 4 and 5 bytes, ranges of 2, 3 attempts, 3 fresh URLs, progress of 2 |
| `suggestions` | Do calls end, processes stay accounted for, lists answer what can be played, and does typing take one place at most? | 4 callers, 1 permit, 4 outputs (one of them illegible, one too long), 3 queries, 1 remembered, descendants |
| `runtime` | One player for a server, no task lost, an exit that comes once the players answer, a listener that answers? | 2 servers and `max_guilds` 1, 2 requests, 2 probes of which one is slow, 1 connection |
| `superseded_start`, `shutdown_deadlock`, `lingering_reader` | see [What the runs found](#what-the-runs-found) | the smallest that show it |

Why they are enough. The actor's commands look at the head, the place next to
the end, or one chosen place of the queue, so three places and a fourth item
that does not fit reach every branch; two channels tell "this" from "another".
In the pipeline the longest chain a property needs is: something plays,
something else is in the worker's hand, one transition is deferred and one is in
the channel - four requests and channels of two reach it. In the room, a return
that overtakes a departure takes three moves; a command that follows the session
to another channel takes three commands. A search and two presses of its
buttons, or three searches for two places, take three interactions. Encodings of
four and five bytes in ranges of two end on a range's edge and inside one, and
the budget of fresh URLs is spent, reset by progress, and spent again. One
permit for four callers makes everybody wait; one connection for two probes is
a full listener.

Depth: `guild_player`, `directive_replay`, `chunked_stream` and `suggestions`
visit every reachable state with no bound on the number of steps, `runtime` with
none but on the requests that ask for a player. `playback_session`, the room and
`interactions` bound the number of requests.
`CHECK_DEADLOCK FALSE` is said where those bounds end a behaviour, where
shutdown does, and in `runtime`, where the process exits; the others check
deadlock.

What each property says is in a comment above it. The ones to read first:

- `NoTrackVanishes`, `FirstInLineIsNext`, `RepeatAllNeverRunsDry`: what becomes
  of a track under every mix of modes.
- `SilentChannelIsCountedDown`, `PlayingIsNotCountedDown`, `SilenceEnds`: the
  countdown runs exactly when it should, and then ends the session.
- `VotesDieWithThePerformance`, `NothingOutlivesItsTrack`: nothing is inherited.
- `RoomHearsTheSession`, `NoNeedlessRestart`: the directives suffice.
- `WrongAudioIsBeingMended`: a property of the two queues, the worker's hand and
  the stage together: for each way of being wrong, the directive that mends it
  has been sent.
- `EmptyRoomIsHeld`, `ReturnIsNoticed`, `RoomOnlyPauses`,
  `CommandsComeFromTheRoom`: the room.
- `ChoicesQueueOnce`, `TheRoomIsToldTheTruth`: concurrent presses, failing calls.
- `StreamIsOrdered`, `EndsWhole`: whatever the origin answers, the track is
  heard in order and to its end.
- `CallsEndOncePipesClose`, `ShutdownFinishes`, `ProbesAreAnswered`: who waits
  for whom, and until when.

Every property of a passing run has a mutant: a plausible slip in a mapped
definition under which the run finds the property violated.

## Fairness

- `TimerFires` (actor, used by `FairReplaySpec`): `WF(Expire)`. Tokio's timer
  fires and the actor's `select` polls it. `SilenceEnds` excepts behaviours that
  restart the countdown for ever.
- `FairSessionSpec`: weak fairness of the actor's two steps, of the worker, of
  the driver (a track plays to its end), of each completion task and of the
  shutdown request. All are tasks Tokio runs when they can. There is none on
  clients, on the signal, on the countdown, or on the abort after
  `SHUTDOWN_TIMEOUT`.
- `ChunkedStream`: of `Reply` (every request has `CHUNK_TIMEOUT`), `Resume` (every
  pause ends) and `CutOff` (a cancelled stream is woken, or goes with the adapter
  it fills). There is none on resolving: nothing bounds how long it takes in the
  middle of a track. `AbandonedReadsEnd` holds all the same, because the
  cancellation reaches the wait for it.
- `Resolver`: of each call's own steps (a permit that is free is given to the
  first in line, a deadline passes, ended readers are joined) and of the end of a
  killed process. There is none on processes that were not killed, and none on
  descendants: `CallsEndOncePipesClose` assumes that they let go, and
  `lingering_reader` shows that it has to.
- `Suggestions`: of the background tasks that have been spawned. Nobody has to type.
- `Interactions`: of each handler, whose calls are answered one way or the other.
  Discord's are, by serenity's and reqwest's own timeouts. That the resolver and
  the player answer is assumed: `lingering_reader` and `shutdown_deadlock` show
  that either may not, and then `EveryInteractionIsCountedOnce` says nothing of
  the interactions that wait for it.
- `Runtime`: of `run_with`'s stages, of stopping once the client has ended, of a
  request that holds the map's lock, of the listener and its connections'
  deadlines. There is none on `Tell`: shutdown waits for each player's answer with
  no timeout, and `shutdown_deadlock` shows a player that never answers. So
  `ShutdownFinishes` has the answers as its hypothesis (`PlayersAnswer`). No worker
  has to end, no client of the listener has to do anything, and no signal has to
  come.
- `Room` states no fairness and checks no liveness. "Eventually noticed" is
  stated at `Settled` states, where nothing is left to happen.

## What is proved

Everything for every value of the constants: any items, people, channels,
capacities, batch sizes, lengths, budgets, numbers of requests. Assumed: the
named assumption of each module about its constants (`ConstantsAssumption`,
`RoomAssumption`, `SessionAssumption`, `StreamAssumption`,
`InteractionsAssumption`, `ResolverAssumption`, `SuggestionsAssumption`,
`ObservabilityAssumption`, `RuntimeAssumption`), which TLC evaluates on the runs.
A theorem that holds only under a condition says so (`ASSUME ... PROVE`), and the
table with it. Each inductive invariant was checked by TLC on the run of its
module before it was proved.

| Theorem | Statement |
|---|---|
| *`GuildPlayerProofs`* | |
| `TypeCorrect` | `Spec => []TypeOK` |
| `CountdownCorrect` | `Spec => []` of `NothingOutlivesItsTrack`, `SilentChannelIsCountedDown` and `PlayingIsNotCountedDown` |
| `QueueCorrect` | `Spec => []QueueIsSound` |
| `VotesCorrect` | `Spec => VotesDieWithThePerformance` |
| `HistoryCorrect` | `Spec => []HistoryIsSound` |
| `NoTrackVanishesCorrect` | `Spec => NoTrackVanishes` |
| `RepeatAllCorrect` | `Spec => RepeatAllNeverRunsDry` |
| `FirstInLineCorrect` | `Spec => FirstInLineIsNext` |
| `PromiseCorrect` | `Spec => KeepsThePromise`: the actor implements `Jukebox` |
| *`ReplayProofs`* | |
| `RoomHearsCorrect` | `ReplaySpec => []RoomHearsTheSession` |
| `NoNeedlessRestartCorrect` | `ReplaySpec => NoNeedlessRestart` |
| *`SessionProofs`* | |
| `SessionTypeCorrect` | `SessionSpec => []SessionTypeOK` |
| `QueueInSession` | `SessionSpec => []QueueIsSound` |
| `CountdownInSession` | `SessionSpec => []` of the countdown's three invariants |
| `SessionKeepsThePromise` | `SessionSpec => KeepsThePromise`: the pipeline implements `Jukebox` |
| `WrongAudioCorrect` | `SessionSpec => []WrongAudioIsBeingMended` |
| `PlayingCorrect` | `SessionSpec => []PlayingIsHeard`, where nobody pauses or changes the level |
| *`RoomProofs`* | |
| `RoomImplementsActor` | `RoomSpec => Spec` |
| `RoomOnlyPausesCorrect` | `RoomSpec => RoomOnlyPauses`, whatever overlaps |
| `CommandsInTurnCorrect` | `RoomSpec => CommandsComeFromTheRoom`, where commands take turns and nobody moves during their own |
| `RoomInTurnCorrect` | `RoomSpec => []` of `EmptyRoomIsHeld` and `ReturnIsNoticed`, where handlers of a kind take turns (`Overlap = {}`) |
| `RoomTypeCorrect` | `RoomSpec => []RoomTypeOK`, whatever overlaps |
| *`ChunkedStreamProofs`* | |
| `StreamTypeCorrect` | `Spec => []StreamTypeOK` |
| `EndsWholeAlways` | `Spec => []EndsWhole` |
| `RequestsBounded` | `Spec => []RequestsPerByteAreBounded` |
| `ImplementsByteStream` | `Spec => StreamIsOrdered`: the reader implements `ByteStream` |
| *`InteractionsProofs`* | |
| `ChoicesCorrect` | `Spec => []ChoicesQueueOnce` |
| `RoomIsToldCorrect` | `Spec => []TheRoomIsToldTheTruth` |
| `SearchesCorrect` | `Spec => []NewestSearchesAreHeld` |
| *`RuntimeProofs`* | |
| `PlayersCorrect` | `Spec => []OnePlayerPerGuild` |
| *`SuggestionsProofs`* | |
| `ChildrenCorrect` | `Spec => []NoChildOutlivesItsCall` |
| `TypingCorrect` | `Spec => []TypingHoldsOneSearch` |
| `PlayableCorrect` | `Spec => ListsAnswerWhatIsPlayable`, for lists of any length |

### The actor: `GuildPlayerProofs`

*Types.* `TypeOK` is inductive. It is split into the session's fields and the
answer (`FieldsOK`, `AnswerOK`), so that each command is first shown to keep the
fields, and the answer's type follows from the fields' once (`TransitionType`).

*Countdown.* None of the three is inductive alone. `Countdown` is their
conjunction: `/pause` may start a countdown only because it holds a track that
exists, a return may stop one only because what was held is now playing. With
`TypeOK` it is inductive; `AdvanceCountdown` carries the argument for every way
a track can leave, and every command that only edits the queue leaves alone
what it speaks about (`CountdownUndisturbed`).

*Queue.* That a session holds no track twice needs facts about cutting a run out
of a sequence (`PlacesOfACut`, `CutProperties`: every element left comes from a
place of its own outside the run), about appending and permuting, and that a new
item is not in the session. That its length stays bounded needs
`NothingOutlivesItsTrack`: a repeat mode puts the left track back only where one
was taken.

*Votes.* A step that emits `Play` or `Replace` is one of the few that end in
`Advance`, `Add` or a return, each of which clears the votes; all others emit
something else (`StartsNothing`).

*Departures.* To the track that plays, every step is one of three: it plays on
(`PlaysOn`), it is moved off by `Advance` (`TrackLeaves`), or the session ends
(`SessionEnds`). The four theorems are then about `Advance` alone: where
`Filed` and `Requeued` put what left, and which place `NextPositions` takes.

*The promise.* A step simulation. To `Jukebox` an actor's step takes tracks in
(`Admit`), takes back what waits (`Withdraw`), moves on (`MoveOn`), empties
everything (`Empty`) or changes nothing. That `Admit` stays within the capacity
is where the sequence meets the set: a queue's range has no more members than the
queue has places (`HeldIsBounded`, by counting along the surjection from places
to tracks). It rests on `TypeOK` and `QueueIsSound`, before and after the step.

*The word.* What a listener has to know of a session is its `Word`: channel,
track, hold and level. `Says` lists, for each directive, what the word may have
become in the step that emits it, and that a step with no directive leaves the
word as it was. `NextSays` shows it of every step of the actor. This is the
contract between actor and worker, and both modules below rest on it.

### The directives: `ReplayProofs`

The gateway of a worker that keeps up hears the word (`Hears`), one case for each
directive: what `Apply` does to it is what `Says` says of the word
(`DirectiveIsHeard`). A needless restart would be a `Replace` or a `Play` of the
track that is heard. Whatever starts after a track was moved off comes from the
queue, where `QueueIsSound` says the track is only when a repeat mode put it back;
so a track that follows itself has ended under `/repeat single`, or nothing took
its place in the rotation (`FollowsItself`). Whatever starts without a track
being moved off starts where nothing is heard.

### The pipeline: `SessionProofs`

`SessionSpec` is not simply an environment of `Spec`: the actor computes an
answer in one step and gets rid of it in another, which may have to wait. So the
invariant `IInv` carries the actor's own invariants (`ActorOK`) and what the
queues around it hold. `MailboxOK`: every command waiting is addressed (what it
adds is new to the session, and to every other command waiting), and there is
room for each. `TransitionsOK`: every transition that starts something names a
track. `WorkerOK`, `StageOK`: a worker that prepares, asks or plays has a track
in hand, and what sounds is a track. With it every step of the pipeline is, to
the actor, a step of its own, an answer leaving, or nothing
(`SessionStepIsActors`), and the theorems about the queue, the countdown and the
promise carry over to a pipeline in which anything fails and everything is late.

*Wrong audio.* What is heard lags behind the word by what is `Due`: the
directive the worker deferred, those in the channel, and the one the actor has
computed and not yet got rid of. `WrongAudioIsBeingMended` is not inductive: it
speaks of the stage alone, and a step that applies the next directive makes a
stage of which nothing was said. So `MInv` says the same of every performance
there will be. Each directive in line that starts something is mended by what
comes after it in line (`DueAt`): what follows will stop it, or bring it to the
current track, held or not, at the current level (`Mends`); so is the track in
the worker's hand, and so is what sounds (`Mended`). `LineGrows`: a directive the
actor adds keeps the line in order, whatever it changes in the word, which is
`NextSays` again. `LineShortens` and `HeadIsHeard`: when the worker applies the
head, what was said of the head is now true of the stage. Superseding a
preparation is safe because the directive that supersedes is the next in line.

*Playing.* With nothing due the worker has the current track in hand, or it
sounds, or its end, its failure or the loss of its channel is on its way to the
actor (`Underway`); otherwise the last directive due starts it (`OnItsWay`). The
hypothesis is that no request pauses, holds or changes the level, and it is as
weak as the code allows: such a directive supersedes a preparation and starts
nothing, which is what `superseded_start` shows. Without them, what supersedes a
preparation is another start, or a departure (`UninterruptedSays`). The run
`playback_session_liveness` satisfies the hypothesis.

### The room: `RoomProofs`

*The room is an environment of the actor.* Every step of `Room` is a request
`GuildPlayer` allows, or nothing to it (`RoomStep`). That needs `HandlersOK`: a
handler under way holds a voice channel, and the number of votes it works out is
between one and everybody (`VotesNeededBounds`). So every theorem about `Spec`
holds in the room too.

*Commands.* `InTurn`: one handler at a time is under way, its requester is still
where it was authorized, and the session, once checked, is in that channel or in
none. Each conjunct fails as soon as the overlap it excludes is allowed.

*Emptying and filling.* The two properties speak about `Settled` states, so the
invariant says what keeps them true on the way there. `Noticing`: the way the
worker has been sent ends in the session's channel (`WayOK`); what a voice state
handler read is still so when it acts (`ReadOK`, the part that overlapping
handlers break); a session that plays to nobody, or is held although somebody is
there, either has moves of Auxide still to come or a voice state update that is
not handled yet (`EmptyNoticed`, `FullNoticed`). A command cannot create either
situation silently: its requester is in the channel it leads to
(`RequesterIsThere`), and only the room itself holds a session as abandoned
(`OnlyTheRoomAbandons`). `NothingOutlivesItsTrack` is carried over from the actor.

*Settling.* That the number of voice state handlers is bounded is not a matter of
types: tracks end and start without end, and each start sends the worker
somewhere. But Auxide's place wakes a handler only when it changes. `Turns`
counts the places where the worker's way goes elsewhere; `Settling` says that
the turns ahead, the handlers that wait, one for a session in a channel, the
moves left, and two for each command left or under way never add up to more than
they did at first. A start or an end where the session is adds no turn
(`WayTurns`), a seat that is taken turns a turn into a handler (`SeatTurns`), a
command spends its two on a turn and on the departure that can follow it.

### The stream: `ChunkedStreamProofs`

The stream has passed exactly the bytes before its position (`PassedUpToHere`),
so that whatever is asked for next continues them; what it believes about its
end is true of the URL in hand (`EndIsKnown`), which is why a short body is not
an end; an input is not cancelled under its preparation or its user (`Custody`),
which is why a cancelled end is not heard as one; and what the current byte has
cost is bounded by the URLs it has been asked on (`CostsAreBounded`). Steps that
pass bytes are `Deliver`, steps that close are `Close`, all others stutter.

### Interactions: `InteractionsProofs`

A press claims its search when it takes it from the map and finds it fit
(`Claims`). A claimed search is no longer in the map (`ClaimOK`), and no search
that has been stored comes back to it, so there is one claim at most
(`OneClaim`); a track is queued by the press that claims. What the channel sees
follows from how far the handler is (`WayOK`, `SeenOK`), whichever of its calls
failed.

*Searches.* A search that is not held has been taken by its requester, is past
its time, or as many newer ones exist as the map holds (`Spent`), and each of the
three lasts (`SpentStays`). That the one which makes way for a new one is spent
needs an oldest among those held: stamps are numbers and no two searches share
one (`StampsOK`), and a set of numbers has a least member (`LeastNumber`, by the
well-founded order). Then the map without
it, and the new search, are all newer.

### The process: `RuntimeProofs`

Until the map is taken, a player is in it for the server it was made for, or is
being made under its lock (`MapIsRight`), and the map's size bounds the players
(`CountIsRight`). Tasks are kept from the moment their player is in the map
until they are waited for, and what has been collected for that is not
collected over (`TasksAreKept`).

### Resolver and suggestions: `SuggestionsProofs`

Every step of the resolver is a step of one call, which takes a permit when it
begins to hold one and returns it when it ceases to (`CallChanges`), so permits
and holders keep adding up (`ChangesKeepTheCount`); the callers need not be finite
in number. A process runs only under a call that waits for it (`ChildrenOK`):
both ways out of waiting kill it or follow its end. At most one background task
is searching, none while the permit is free, and one that is not searching has
no call under way (`OneSearch`): the permit goes back when the answer is there.

*Playable tracks.* The loop of `playable_metadata` is a function of how many
entries it has seen (`Playables`). That the recursion defines one
(`KeepingIsDefined`), and that what it has kept of the first `n` entries is
exactly what can be played of them, in order (`PlayablesCorrect`), is shown by
induction: if it failed for some number it would fail for a least one, and never
does for 0 or for the next (`NothingFails`). The mark of a correct list is a map
from its places to the entries' (`AreThePlayable`), increasing and onto those that
can be played; `OneMoreIsPlayable` and `NoMoreIsPlayable` extend it by one entry.
`JudgeCorrect` carries this to what a search and a playlist answer, output that
cannot be read whole included, and a call
whose process has ended is answered by that and by nothing else
(`EndedCallsAreJudged`).

### Only model-checked

- liveness and `ENABLED`, which are out of the prover's reach: `SilenceEnds`,
  `TracksGetStarted`, `ShutdownEnds`, `CancellationEnds`, `AbandonedReadsEnd`,
  `CallsEndOncePipesClose`, `EveryInteractionIsCountedOnce`, `ShutdownFinishes`,
  `ProbesAreAnswered`;
- `PlayingIsHeard` with pauses and changes of level, `EmptyRoomIsHeld`,
  `ReturnIsNoticed` and `CommandsComeFromTheRoom` where handlers overlap: the code
  violates them, see below.

The library's induction theorems take an operator as a parameter and cannot be
instantiated with the installed provers. The one recursive function these proofs
reason about, `Playables`, is handled through the least number for which a claim
fails, itself from the well-founded order on the naturals. No module proved about
declares a `RECURSIVE` operator.

## What the runs found

Each is a run of its own with one property that the code violates; `PROJECT.json`
quotes the line it contradicts.

| Run | What happens |
|---|---|
| `superseded_start` | `/volume`, or a pause and its resume, during a preparation discards the track being prepared. It stays current, is never started, and nothing counts down. |
| `shutdown_deadlock` | A full transition channel and a worker that waits for an answer block each other; shutdown waits for both. |
| `lingering_reader` | A call whose process was killed at its deadline goes on waiting, with its permit, for a descendant that holds the process's output open. |

The passing runs are the other half: `playback_session_liveness` shows that
without adjustments during a preparation, and with channels that never fill,
tracks are started and shutdown ends; `runtime` that the process exits once the
players answer; `room` that the room is right when handlers take turns;
`suggestions` that calls end once pipes close.

Seven more properties are stated in the modules and are violated by what the code
does. Their configurations are beside the modules, and
`tlc -config X.cfg M` shows the trace:

| Configuration, module | Property | What happens |
|---|---|---|
| `UnheldChannel.cfg`, `MCPlaybackSession` | `ChannelIsHeld` | Skipping the only track while it is prepared leaves the session in a channel the gateway never joined. |
| `ParkedQueue.cfg`, `MCPlaybackSession` | `ParkedQueueIsCountedDown` | A completion that arrives after `/leave` advances the parked queue and takes away its hold and its countdown. |
| `StaleCompletion.cfg`, `MCPlaybackSession` | `CompletionsEndTheirOwn` | A late completion of one performance of a track ends a later performance of the same track. |
| `OvertakenReturn.cfg`, `MCRoom` | `ReturnIsNoticed` | The return's handler overtakes the departure's (`"Events"` in `Overlap`); the room stays paused with somebody in it. |
| `SkipReplayed.cfg`, `MCGuildPlayer` | `SkipsMoveOn` | Under `/repeat all` with shuffle, a skip queues the skipped track and may draw it again while others wait. `advance` says "Asking to move on has to move on" (`src/player.rs:1307`). |
| `TypingDelay.cfg`, `MCSuggestions` | `TypingDelaysNoTrack` | A search for what somebody typed holds one of the permits tracks are resolved with (two by default, as here): a track first in line waits for it. Typing "must never be the reason a track waits to start" (`src/suggest.rs:55-56`), and "a burst of typing never leaves a track waiting behind it" (`docs/operator-guide.md:325-326`). What the code keeps is `TypingHoldsOneSearch`. |
| `WakeReply.cfg`, `MCRoom` | `AnsweredStartIsNamed` | `/play` into a parked session starts the kept track, unannounced, and replies "Now playing" with the queued one. |

Behaviours that the models show or allow and that no property forbids:

- with `"Commands"` in `Overlap`, a session that moves between a command's
  `Check` and its `Perform` is commanded by somebody in another channel
  (`CommandsComeFromTheRoom` with `/join` and `/leave` between the two steps);
- the vote of somebody who has left the channel still counts (`vote_skip`,
  `src/player.rs:1124-1136`) towards a number worked out from who is there;
- until Auxide's own join reaches the cache, `listener_count`
  (`src/discord.rs:2270-2272`) answers one, so one person of several skips
  somebody else's track alone;
- a selection takes its search from the map before it looks at it
  (`dispatch_component`, `src/discord.rs:1905-1919`): a requester who has moved is
  told to "return to the voice channel where the search was requested", and by
  then the search is used up and the buttons are gone. A selection into a full
  queue uses it up as well;
- one line that is no entry fails a whole search or playlist, and so does output
  over its limit, whatever else was printed (`Legible`; `run_yt_dlp`,
  `src/source/youtube.rs:191-199`);
- an answer without a byte ends a track silently, wherever it is
  (`ServedNothing`; `EndsWhole` excepts it);
- a fresh URL may serve another encoding, whose bytes continue the old one's at
  the same offset (`resume_at` compares the source's identity);
- a resolution in the middle of a track has no deadline, and its token is never
  cancelled once playback holds the stream;
- the comment above `chunk` (`src/audio.rs:490-496`) says that a refusal is waited
  out; `chunk` returns it at once, and only lost requests are tried again;
- a suggestion's permit comes back before its result is stored, so the same query
  may be searched twice in a row;
- one error of `accept` ends the listener (`AcceptFails`): nobody notices until
  the exit, whose result it then decides, whatever the client ended with;
- a shard's event can set the readiness gauges again after shutdown cleared them
  (`GatewayChanges` after `Stop`);
- a session created after the map was taken is never told to stop and leaves the
  number of players wrong until the exit (`Register` after `Take`).

## Limits

- Songbird, serenity, Tokio, reqwest and yt-dlp are external and modelled from
  their use. In particular each event handler is a task of its own, and Tokio's
  bounded channels and semaphores are first-in first-out.
- Time is abstracted: a countdown runs or does not, a deadline may pass at any
  moment, a search is older than another or than its time.
- `Room`'s worker neither fails nor is superseded (that is `PlaybackSession`'s),
  a request is one step, and its people only move themselves: an administrator
  who drags Auxide, and other bots, are left out. Every way to queue is `/play`
  here; what leads to it is `Interactions`'.
- `PlaybackSession` leaves out commands that emit nothing to the worker and
  playlists; they are `GuildPlayer`'s.
- `ChunkedStream`'s origin does not lie about lengths or offsets. HLS inputs,
  decoding and the advisory length probe are left out.
- `Resolver` keeps what decides an answer: whether the output fits, what its
  entries are, the exit. Argument lists, JSON and redaction are left out.
- `Interactions` has one server; a channel determines its server.
- Announcements of the worker, formatting, paging, the metrics' text,
  `register_commands` and role checks (the constant `Authorized`) are left out.

Not modelled: configuration (a check at start, with no state; its bounds are the
constants' assumptions), entry points (`main.rs`, `spike.rs`: command line and
wiring), test doubles (compiled for tests only).

## Plan

What is left, in order of what is most worth having.

1. The complement of `superseded_start`: with pauses and changes of level, which
   of them lose a start. `PInv` has to say what a superseded preparation leaves.
2. What a stale completion can do, as an invariant of the pipeline: `Decided` and
   `CompletionsOK` name where completions come from.
3. An administrator who drags Auxide, and a worker that fails, in `Room`.
4. The composition of `Interactions` with `Room`, so that a selection's channel
   is checked against the session that moves.
