---------------------------- MODULE Observability ----------------------------
(***************************************************************************)
(* The health and metrics listener (src/src/observability.rs).             *)
(*                                                                         *)
(* One task accepts connections while it serves fewer than a bound, joins  *)
(* those that have ended first, and stops when it is cancelled.  Each      *)
(* connection is a task that has a deadline for everything it does.  An    *)
(* error of accept ends the server, and every connection with it.          *)
(***************************************************************************)
EXTENDS Integers, Sequences, SequencesExt, FiniteSets

CONSTANTS
    None,             \* Option::None
    Probes,           \* the clients of the listener
    Slow,             \* those that may never finish a request, or read a reply
    MaxConnections    \* MAX_CONNECTIONS

ASSUME ObservabilityAssumption ==
    Slow \subseteq Probes /\ MaxConnections \in Nat \ {0}

VARIABLES
    server,      \* the server task, and the listener with it
    backlog,     \* connections waiting to be accepted
    probe,       \* where each client's connection is
    ready,       \* ObservabilityState.ready
    connected,   \* ObservabilityState.discord_connected
    players,     \* ObservabilityState.guild_players
    closing      \* the cancellation token the server was given

listener == <<server, backlog, probe>>
gauges == <<ready, connected, players>>

InSet == {p \in Probes : probe[p] \in {"Serving", "Finished"}}
Finished == {p \in Probes : probe[p] = "Finished"}

ObservabilityInit ==
    /\ server = "None" /\ backlog = <<>> /\ probe = [p \in Probes |-> "Away"]
    /\ ready = FALSE /\ connected = FALSE /\ players = 0 /\ closing = FALSE

-----------------------------------------------------------------------------
(* The kernel takes a connection whether or not anybody accepts it, while  *)
(* there is a listener.                                                    *)
Connect(p) ==
    /\ server = "Running" /\ probe[p] = "Away"
    /\ probe' = [probe EXCEPT ![p] = "Waiting"]
    /\ backlog' = Append(backlog, p)
    /\ UNCHANGED server

(* start_observability: the listener is bound, and its task spawned. *)
Bind == server = "None" /\ server' = "Running" /\ UNCHANGED <<backlog, probe>>

(* join_next comes before accept. *)
JoinNext(p) ==
    /\ server = "Running" /\ ~closing /\ p \in Finished
    /\ probe' = [probe EXCEPT ![p] = "Gone"]
    /\ UNCHANGED <<server, backlog>>

MayAccept ==
    server = "Running" /\ ~closing /\ Finished = {} /\ Cardinality(InSet) < MaxConnections

Accept ==
    /\ MayAccept /\ backlog # <<>>
    /\ probe' = [probe EXCEPT ![Head(backlog)] = "Serving"]
    /\ backlog' = Tail(backlog)
    /\ UNCHANGED server

(* The task returns: its listener closes, and its connections end. *)
Close(how) ==
    /\ server' = how
    /\ probe' = [p \in Probes |-> IF probe[p] \in {"Away", "Gone"} THEN probe[p] ELSE "Gone"]
    /\ backlog' = <<>>

AcceptFails == MayAccept /\ Close("Failed")
Cancelled == server = "Running" /\ closing /\ Close("Ended")

(* Mutant: a connection has no deadline, and ends when its client likes. *)
ServeWithoutDeadline(p) ==
    /\ server = "Running" /\ probe[p] = "Serving" /\ p \notin Slow
    /\ probe' = [probe EXCEPT ![p] = "Finished"]
    /\ UNCHANGED <<server, backlog>>

(* serve_connection: a request is answered (what it asks for decides with  *)
(* what), or REQUEST_TIMEOUT passes.                                       *)
Serve(p) ==
    /\ server = "Running" /\ probe[p] = "Serving"
    /\ probe' = [probe EXCEPT ![p] = "Finished"]
    /\ UNCHANGED <<server, backlog>>

(* A client that has its answer may come back. *)
Return(p) ==
    /\ probe[p] = "Gone"
    /\ probe' = [probe EXCEPT ![p] = "Away"]
    /\ UNCHANGED <<server, backlog>>

ServerStep == Accept \/ Cancelled \/ \E p \in Probes : JoinNext(p)
ListenerStep ==
    \/ ServerStep \/ AcceptFails
    \/ \E p \in Probes : Connect(p) \/ Serve(p) \/ Return(p)

-----------------------------------------------------------------------------
(* A client that connects is answered or hung up on, however many others   *)
(* hold connections open and say nothing.                                  *)
ProbesAreAnswered == \A p \in Probes : probe[p] = "Waiting" ~> probe[p] = "Gone"

=============================================================================
