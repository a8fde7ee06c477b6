------------------------------- MODULE Runtime -------------------------------
(***************************************************************************)
(* The life of the process (run_with in src/src/discord.rs) and of the     *)
(* players it holds, one for each server (BotRuntime::session, shutdown).  *)
(*                                                                         *)
(* A player is made by the first request of a server, under the lock of    *)
(* the map of sessions.  At the end the map is taken, its players are told *)
(* to stop, everything is cancelled and every task is waited for, each for *)
(* a bounded time; requests go on arriving meanwhile.                      *)
(***************************************************************************)
EXTENDS Observability

CONSTANTS
    Guilds,
    Requests,      \* bound: the requests that ask for a session
    MaxGuilds,     \* discord.max_guilds
    AllowAll       \* discord.allow_all_guilds

ASSUME RuntimeAssumption ==
    /\ MaxGuilds \in Nat \ {0} /\ AllowAll \in BOOLEAN
    /\ None \notin Requests \cup Guilds

VARIABLES
    stage,       \* how far run_with is
    result,      \* what it returns
    ended_first, \* whether the client ended before a signal came
    client,      \* the task of the Discord client
    making,      \* the request that makes a player, with the map locked
    guild,       \* which server each request is about, once it has asked
    sessions,    \* the map: the player of each server, named by its request
    actor,       \* the actor task of each player
    worker,      \* the worker task of each player
    tasks,       \* BotRuntime.tasks: the players whose tasks are held
    leaving,     \* what shutdown has taken: players still to be told...
    draining,    \* ... and then tasks still to be waited for
    cancelled    \* BotRuntime.cancellation

main == <<stage, result, ended_first, client, leaving, draining, cancelled>>
map == <<making, guild, sessions, tasks>>
work == <<actor, worker>>
vars == <<listener, gauges, closing, main, map, work>>

Init ==
    /\ ObservabilityInit
    /\ stage = "Starting" /\ result = None /\ ended_first = FALSE /\ client = "None"
    /\ making = {}
    /\ guild = [r \in Requests |-> None] /\ sessions = [g \in Guilds |-> None]
    /\ actor = [r \in Requests |-> "None"] /\ worker = [r \in Requests |-> "None"]
    /\ tasks = {} /\ leaving = {} /\ draining = {} /\ cancelled = FALSE

-----------------------------------------------------------------------------
(* run_with: starting.                                                     *)
(* It returns, and everything that still runs ends with the process.       *)
Exit(how) ==
    /\ stage' = "Exited" /\ result' = how
    /\ IF server = "Running" THEN Close("Ended") ELSE UNCHANGED listener
    /\ UNCHANGED <<ended_first, client, leaving, draining, cancelled>>

(* The token is read and the application identified; one that anybody      *)
(* could install does not serve every server.                              *)
Identify ==
    /\ stage = "Starting"
    /\ \E known, public \in BOOLEAN :
          IF known /\ ~(AllowAll /\ public)
          THEN stage' = "Identified" /\ UNCHANGED <<listener, result, ended_first, client,
                                                    leaving, draining, cancelled>>
          ELSE Exit("Error")
    /\ UNCHANGED <<gauges, closing, map, work>>

Listen ==
    /\ stage = "Identified"
    /\ \/ /\ Bind /\ stage' = "Listening"
          /\ UNCHANGED <<result, ended_first, client, leaving, draining, cancelled>>
       \/ Exit("Error")
    /\ UNCHANGED <<gauges, closing, map, work>>

(* The client is built, and its task spawned. *)
Start ==
    /\ stage = "Listening"
    /\ \/ /\ stage' = "Serving" /\ client' = "Running"
          /\ UNCHANGED <<listener, result, ended_first, leaving, draining, cancelled>>
       \/ Exit("Error")
    /\ UNCHANGED <<gauges, closing, map, work>>

(* ready, shard_stage_update: at any time while there is a gateway. *)
GatewayChanges ==
    /\ client = "Running" /\ stage # "Exited"
    /\ connected' \in BOOLEAN /\ ready' = connected' /\ connected' # connected
    /\ UNCHANGED <<listener, players, closing, main, map, work>>

ClientEnds ==
    /\ client = "Running" /\ stage # "Exited"
    /\ client' = "Ended"
    /\ UNCHANGED <<listener, gauges, closing, stage, result, ended_first, leaving, draining,
                   cancelled, map, work>>

-----------------------------------------------------------------------------
(* BotRuntime::session.                                                    *)
Held == {g \in Guilds : sessions[g] # None}

InService == stage \notin {"Starting", "Identified", "Listening", "Exited"}

(* The server's player, if it has one; a refusal, if as many are served as *)
(* may be; or else a new player and its worker.                            *)
AskFor(r, g) ==
    /\ InService /\ guild[r] = None
    /\ guild' = [guild EXCEPT ![r] = g]
    /\ IF sessions[g] # None \/ Cardinality(Held) >= MaxGuilds
       THEN UNCHANGED <<making, work>>
       ELSE /\ making' = making \cup {r}
            /\ actor' = [actor EXCEPT ![r] = "Running"]
            /\ worker' = [worker EXCEPT ![r] = "Running"]
    /\ UNCHANGED <<listener, gauges, closing, main, sessions, tasks>>

(* Mutant: the map is unlocked while a player is being made. *)
RequestUnlocked(r) == \E g \in Guilds : AskFor(r, g)

(* The map stays locked while a player is being made. *)
Request(r) == making = {} /\ \E g \in Guilds : AskFor(r, g)

(* The tasks are kept for the shutdown, and the player put in the map. *)
Register(r) ==
    /\ InService /\ r \in making
    /\ making' = making \ {r}
    /\ tasks' = tasks \cup {r}
    /\ sessions' = [sessions EXCEPT ![guild[r]] = r]
    /\ players' = Cardinality({g \in Guilds : sessions'[g] # None})
    /\ UNCHANGED <<listener, ready, connected, closing, main, guild, work>>

(* A worker ends with its actor or when it is cancelled, if the voice      *)
(* gateway lets it.                                                        *)
WorkerEnds(r) ==
    /\ stage # "Exited" /\ worker[r] = "Running"
    /\ cancelled \/ actor[r] = "Ended"
    /\ worker' = [worker EXCEPT ![r] = "Ended"]
    /\ UNCHANGED <<listener, gauges, closing, main, map, actor>>

-----------------------------------------------------------------------------
(* run_with: the client ended, or a signal came.                           *)
Stop ==
    /\ stage = "Serving"
    /\ \E first \in {FALSE, client = "Ended"} : ended_first' = first
    /\ ready' = FALSE /\ connected' = FALSE
    /\ stage' = "Stopping"
    /\ UNCHANGED <<listener, players, closing, result, client, leaving, draining, cancelled,
                   map, work>>

(* shutdown: the map is taken, and not held while its players are told. *)
Take ==
    /\ stage = "Stopping" /\ making = {}
    /\ leaving' = {sessions[g] : g \in Held}
    /\ sessions' = [g \in Guilds |-> None]
    /\ stage' = "Telling"
    /\ UNCHANGED <<listener, gauges, closing, result, ended_first, client, draining,
                   cancelled, making, guild, tasks, work>>

(* A player is told to stop, and answers once it has.  The next waits for  *)
(* that answer, without a deadline: room in the player's mailbox may never *)
(* come, nor the player to the request (PlaybackSession).                  *)
Tell ==
    /\ stage = "Telling"
    /\ \E r \in leaving :
          /\ leaving' = leaving \ {r}
          /\ actor' = [actor EXCEPT ![r] = "Ended"]
    /\ UNCHANGED <<listener, gauges, closing, stage, result, ended_first, client, draining,
                   cancelled, map, worker>>

Cancel ==
    /\ stage = "Telling" /\ leaving = {}
    /\ cancelled' = TRUE
    /\ stage' = "Cancelled"
    /\ UNCHANGED <<listener, gauges, closing, result, ended_first, client, leaving,
                   draining, map, work>>

(* The tasks are taken in their turn: those registered until now. *)
Collect ==
    /\ stage = "Cancelled"
    /\ draining' = tasks /\ tasks' = {}
    /\ stage' = "Draining"
    /\ UNCHANGED <<listener, gauges, closing, result, ended_first, client, leaving,
                   cancelled, making, guild, sessions, work>>

(* Mutant: every task is waited for as long as it takes. *)
DrainPatiently ==
    /\ stage = "Draining"
    /\ \E r \in draining :
          /\ actor[r] = "Ended" /\ worker[r] = "Ended"
          /\ draining' = draining \ {r}
    /\ UNCHANGED <<listener, gauges, closing, stage, result, ended_first, client, leaving,
                   cancelled, map, work>>

(* A task that has not ended within SHUTDOWN_TIMEOUT is aborted. *)
Drain ==
    /\ stage = "Draining"
    /\ \E r \in draining :
          /\ draining' = draining \ {r}
          /\ actor' = [actor EXCEPT ![r] = "Ended"]
          /\ worker' = [worker EXCEPT ![r] = "Ended"]
    /\ UNCHANGED <<listener, gauges, closing, stage, result, ended_first, client, leaving,
                   cancelled, map>>

Drained ==
    /\ stage = "Draining" /\ draining = {}
    /\ players' = 0
    /\ stage' = "Closing"
    /\ UNCHANGED <<listener, ready, connected, closing, result, ended_first, client,
                   leaving, draining, cancelled, map, work>>

(* The shards are shut down and the server cancelled; a client that is     *)
(* still there after a while is aborted.                                   *)
CloseShards ==
    /\ stage = "Closing"
    /\ closing' = TRUE
    /\ stage' = "Awaiting"
    /\ UNCHANGED <<listener, gauges, result, ended_first, client, leaving, draining,
                   cancelled, map, work>>

AwaitClient ==
    /\ stage = "Awaiting"
    /\ client' = "Ended"
    /\ stage' = "Waiting"
    /\ UNCHANGED <<listener, gauges, closing, result, ended_first, leaving, draining,
                   cancelled, map, work>>

(* wait_observability: a server that failed, or does not stop in time, is  *)
(* what run_with returns; or else what the client ended with.              *)
AwaitServer ==
    /\ stage = "Waiting"
    /\ \/ server = "Ended" /\ Exit(IF ended_first THEN "Error" ELSE "Ok")
       \/ server \in {"Failed", "Running"} /\ Exit("Error")
    /\ UNCHANGED <<gauges, closing, map, work>>

-----------------------------------------------------------------------------
(* What run_with does of its own, or waits for with a deadline. *)
Proceed ==
    \/ Identify \/ Listen \/ Start \/ Take \/ Cancel \/ Collect \/ Drain
    \/ Drained \/ CloseShards \/ AwaitClient \/ AwaitServer

RunWith == Proceed \/ Tell

(* The listener's own steps, while there is a process. *)
Runs(step) == stage # "Exited" /\ step /\ UNCHANGED <<gauges, closing, main, map, work>>

Next ==
    \/ RunWith \/ Stop \/ GatewayChanges \/ ClientEnds
    \/ \E r \in Requests : Request(r) \/ Register(r) \/ WorkerEnds(r)
    \/ Runs(ListenerStep)

(* run_with runs, and stops when its client has ended; a request that      *)
(* holds the lock goes on; the server and its connections run.  No player  *)
(* has to answer, no worker to end, nor any client of the listener to do   *)
(* anything.                                                               *)
Fairness ==
    /\ WF_vars(Proceed) /\ WF_vars(Stop /\ client = "Ended")
    /\ \A r \in Requests : WF_vars(Register(r))
    /\ WF_vars(Runs(ServerStep)) /\ \A p \in Probes : WF_vars(Runs(Serve(p)))

Spec == Init /\ [][Next]_vars /\ Fairness

-----------------------------------------------------------------------------
(* Until the map is taken a server has one player at most and max_guilds   *)
(* bounds them all, whoever asks at the same time; and no task of a player *)
(* is lost track of: it is waited for, kept for that, or about to be kept. *)
Live == {r \in Requests : actor[r] = "Running" \/ worker[r] = "Running"}
OnePlayerPerGuild ==
    /\ stage \in {"Serving", "Stopping"} =>
          /\ \A r, q \in Live : guild[r] = guild[q] => r = q
          /\ Cardinality(Live) <= MaxGuilds
    /\ stage # "Exited" => Live \subseteq tasks \cup draining \cup making

(* Once the process is asked to stop, or its client has ended, it returns, *)
(* if every player that is told to stop answers: whatever its workers and  *)
(* the clients of its listener do, and however many requests still arrive. *)
(* That a player may never answer is ShutdownEnds' (PlaybackSession).      *)
PlayersAnswer == []<>(leaving = {})
ShutdownFinishes ==
    PlayersAnswer => (stage = "Stopping" \/ client = "Ended" ~> stage = "Exited")

=============================================================================
