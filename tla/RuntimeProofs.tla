---------------------------- MODULE RuntimeProofs ----------------------------
(***************************************************************************)
(* Theorems about Runtime, for any servers, requests and max_guilds.       *)
(***************************************************************************)
EXTENDS Runtime, FiniteSetTheorems, TLAPS

Phase == {"None", "Running", "Ended"}

(* What the map of sessions, its lock and the tasks are made of. *)
PlayersTypeOK ==
    /\ making \subseteq Requests /\ tasks \subseteq Requests
    /\ leaving \subseteq Requests /\ draining \subseteq Requests
    /\ guild \in [Requests -> Guilds \cup {None}]
    /\ sessions \in [Guilds -> Requests \cup {None}]
    /\ actor \in [Requests -> Phase] /\ worker \in [Requests -> Phase]

(* The stages in which the map has not been taken yet. *)
Before == {"Starting", "Identified", "Listening", "Serving", "Stopping"}

(* The players that the map knows of, or is about to. *)
Known == making \cup {sessions[g] : g \in Held}

(* A player is kept for the server it was made for, and one is made at a   *)
(* time, for a server that has none.                                       *)
MapIsRight ==
    /\ \A g \in Held : guild[sessions[g]] = g
    /\ \A r \in making : guild[r] \in Guilds \ Held
    /\ \A r, q \in making : r = q
    /\ Live \subseteq Known

(* The player that is being made is counted before the map holds it. *)
CountIsRight ==
    /\ IsFiniteSet(Held) /\ IsFiniteSet(Known)
    /\ Cardinality(Known) = Cardinality(Held) + (IF making = {} THEN 0 ELSE 1)
    /\ Cardinality(Known) <= MaxGuilds

(* The stages in which the tasks have not been collected yet. *)
Early == Before \cup {"Telling", "Cancelled"}

(* What is collected must not be collected over. *)
TasksAreKept ==
    /\ stage # "Exited" => Live \subseteq tasks \cup draining \cup making
    /\ stage \in Early => draining = {}

IInv ==
    /\ PlayersTypeOK
    /\ stage \in Before => MapIsRight /\ CountIsRight
    /\ TasksAreKept

-----------------------------------------------------------------------------
LEMMA InitIInv ==
    ASSUME Init
    PROVE  IInv
<1>1. None \notin Requests /\ MaxGuilds \in Nat \ {0}
  BY RuntimeAssumption
<1>2. PlayersTypeOK
  BY DEF Init, PlayersTypeOK, Phase
<1>3. Held = {} /\ Live = {} /\ making = {}
  BY DEF Init, Held, Live
<1>4. Known = {}
  BY <1>3 DEF Known
<1>5. IsFiniteSet({}) /\ Cardinality({}) = 0
  BY FS_EmptySet
<1>6. MapIsRight
  BY <1>3 DEF MapIsRight
<1>7. CountIsRight
  BY <1>1, <1>3, <1>4, <1>5 DEF CountIsRight
<1>8. QED
  BY <1>2, <1>3, <1>6, <1>7 DEF IInv, TasksAreKept, Init

(* The last conjuncts of OnePlayerPerGuild follow from what the map knows. *)
LEMMA IInvImplies ==
    ASSUME IInv
    PROVE  OnePlayerPerGuild
<1>1. SUFFICES ASSUME stage \in {"Serving", "Stopping"}
               PROVE  /\ \A r, q \in Live : guild[r] = guild[q] => r = q
                      /\ Cardinality(Live) <= MaxGuilds
  BY DEF IInv, TasksAreKept, OnePlayerPerGuild
<1>2. PlayersTypeOK /\ MapIsRight /\ CountIsRight
  BY <1>1 DEF IInv, Before
<1>3. ASSUME NEW r \in Live, NEW q \in Live, guild[r] = guild[q]
      PROVE  r = q
  <2>1. r \in Known /\ q \in Known
    BY <1>2 DEF MapIsRight
  <2>2. \A p \in Known : \/ p \in making /\ guild[p] \notin Held
                         \/ guild[p] \in Held /\ p = sessions[guild[p]]
    <3> SUFFICES ASSUME NEW p \in Known
                 PROVE  \/ p \in making /\ guild[p] \notin Held
                        \/ guild[p] \in Held /\ p = sessions[guild[p]]
      OBVIOUS
    <3>1. CASE p \in making
      BY <1>2, <3>1 DEF MapIsRight
    <3>2. CASE p \notin making
      <4>1. PICK g \in Held : p = sessions[g]
        BY <3>2 DEF Known
      <4>2. guild[p] = g
        BY <1>2, <4>1 DEF MapIsRight
      <4>3. QED
        BY <4>1, <4>2
    <3>3. QED
      BY <3>1, <3>2
  <2>3. QED
    BY <1>2, <1>3, <2>1, <2>2 DEF MapIsRight
<1>4. Cardinality(Live) <= Cardinality(Known)
  BY <1>2, FS_Subset DEF MapIsRight, CountIsRight
<1>5. Cardinality(Live) \in Nat /\ Cardinality(Known) \in Nat /\ MaxGuilds \in Nat
  BY <1>2, FS_Subset, FS_CardinalityType, RuntimeAssumption DEF MapIsRight, CountIsRight
<1>6. Cardinality(Live) <= MaxGuilds
  BY <1>2, <1>4, <1>5 DEF CountIsRight
<1>7. QED
  BY <1>3, <1>6

-----------------------------------------------------------------------------
(* A step that leaves the map and its players alone, other than by ending  *)
(* some of them, changes nothing in what is said of them.                  *)
LEMMA PlayersUndisturbed ==
    ASSUME IInv, UNCHANGED map,
           actor' \in [Requests -> Phase], worker' \in [Requests -> Phase],
           draining' = draining, leaving' \subseteq Requests,
           \A r \in Requests : /\ actor'[r] = "Running" => actor[r] = "Running"
                               /\ worker'[r] = "Running" => worker[r] = "Running",
           stage' \in Before => stage \in Before,
           stage' \in Early => stage \in Early,
           stage' # "Exited" => stage # "Exited"
    PROVE  IInv'
<1>1. PlayersTypeOK'
  BY DEF IInv, PlayersTypeOK, map
<1>2. Live' \subseteq Live
  BY DEF Live
<1>3. Held' = Held /\ Known' = Known /\ making' = making
  BY DEF Held, Known, map
<1>4. ASSUME stage' \in Before
      PROVE  MapIsRight' /\ CountIsRight'
  BY <1>2, <1>3, <1>4 DEF IInv, MapIsRight, CountIsRight, map
<1>5. TasksAreKept'
  BY <1>2 DEF IInv, TasksAreKept, map
<1>6. QED
  BY <1>1, <1>4, <1>5 DEF IInv

(* Most steps do not even end a player. *)
LEMMA RestUndisturbed ==
    ASSUME IInv, UNCHANGED <<map, work, leaving, draining>>,
           stage' \in Before => stage \in Before,
           stage' \in Early => stage \in Early,
           stage' # "Exited" => stage # "Exited"
    PROVE  IInv'
<1>1. /\ actor' = actor /\ worker' = worker
      /\ actor \in [Requests -> Phase] /\ worker \in [Requests -> Phase]
      /\ leaving' \subseteq Requests
  BY DEF work, IInv, PlayersTypeOK
<1>2. QED
  BY <1>1, PlayersUndisturbed

(* A request that makes a player makes it for a server that has none, with *)
(* nobody else at it and with room for one more.                           *)
LEMMA RequestKeepsIInv ==
    ASSUME IInv, NEW r \in Requests, Request(r)
    PROVE  IInv'
<1>1. PICK g \in Guilds : AskFor(r, g)
  BY DEF Request
<1>2. making = {} /\ guild[r] = None /\ InService /\ None \notin Requests \cup Guilds
  BY <1>1, RuntimeAssumption DEF Request, AskFor
<1>t. PlayersTypeOK
  BY DEF IInv
<1>3. /\ stage' = stage /\ sessions' = sessions /\ tasks' = tasks
      /\ leaving' = leaving /\ draining' = draining
      /\ guild' = [guild EXCEPT ![r] = g]
  BY <1>1 DEF AskFor, main
<1>4. Held' = Held
  BY <1>3 DEF Held
<1>5. \A h \in Held : sessions[h] \in Requests
  BY <1>t DEF Held, PlayersTypeOK
<1>6. CASE sessions[g] # None \/ Cardinality(Held) >= MaxGuilds
  <2>1. making' = making /\ actor' = actor /\ worker' = worker
    BY <1>1, <1>6 DEF AskFor, work
  <2>2. PlayersTypeOK'
    BY <1>t, <1>3, <2>1 DEF PlayersTypeOK
  <2>3. Live' = Live /\ Known' = Known
    BY <1>3, <1>4, <2>1 DEF Live, Known
  <2>4. ASSUME stage \in Before
        PROVE  MapIsRight' /\ CountIsRight'
    <3>1. MapIsRight /\ CountIsRight
      BY <2>4 DEF IInv
    <3>2. \A h \in Held : sessions[h] # r
      BY <1>2, <3>1 DEF MapIsRight, Held
    <3>3. \A h \in Held : guild'[sessions[h]] = h
      BY <1>3, <1>5, <1>t, <3>1, <3>2 DEF MapIsRight, PlayersTypeOK
    <3>4. QED
      BY <1>2, <1>3, <1>4, <2>1, <2>3, <3>1, <3>3 DEF MapIsRight, CountIsRight
  <2>5. TasksAreKept'
    BY <1>3, <2>1, <2>3 DEF IInv, TasksAreKept
  <2>6. QED
    BY <1>3, <2>2, <2>4, <2>5 DEF IInv
<1>7. CASE ~(sessions[g] # None \/ Cardinality(Held) >= MaxGuilds)
  <2>1. /\ making' = {r}
        /\ actor' = [actor EXCEPT ![r] = "Running"]
        /\ worker' = [worker EXCEPT ![r] = "Running"]
    BY <1>1, <1>2, <1>7 DEF AskFor
  <2>2. PlayersTypeOK'
    BY <1>t, <1>3, <2>1 DEF PlayersTypeOK, Phase
  <2>3. Live' \subseteq Live \cup {r}
    BY <1>t, <2>1 DEF Live, PlayersTypeOK
  <2>4. Known' = Known \cup {r}
    BY <1>2, <1>3, <1>4, <2>1 DEF Known
  <2>5. ASSUME stage \in Before
        PROVE  MapIsRight' /\ CountIsRight'
    <3>1. MapIsRight /\ CountIsRight
      BY <2>5 DEF IInv
    <3>2. \A h \in Held : sessions[h] # r
      BY <1>2, <3>1 DEF MapIsRight, Held
    <3>3. \A h \in Held : guild'[sessions[h]] = h
      BY <1>3, <1>5, <1>t, <3>1, <3>2 DEF MapIsRight, PlayersTypeOK
    <3>4. guild'[r] = g /\ g \notin Held
      BY <1>3, <1>7, <1>t DEF PlayersTypeOK, Held
    <3>5. MapIsRight'
      BY <1>3, <1>4, <2>1, <2>3, <2>4, <3>1, <3>3, <3>4 DEF MapIsRight
    <3>6. r \notin Known
      BY <1>2, <3>2 DEF Known
    <3>7. /\ IsFiniteSet(Known \cup {r})
          /\ Cardinality(Known \cup {r}) = Cardinality(Known) + 1
      BY <3>1, <3>6, FS_AddElement DEF CountIsRight
    <3>8. /\ Cardinality(Held) \in Nat /\ MaxGuilds \in Nat
          /\ Cardinality(Known) = Cardinality(Held)
      BY <1>2, <3>1, FS_CardinalityType, RuntimeAssumption DEF CountIsRight
    <3>9. Cardinality(Held) < MaxGuilds
      BY <1>7, <3>8
    <3>10. Cardinality(Known \cup {r}) = Cardinality(Held) + 1
           /\ Cardinality(Known \cup {r}) <= MaxGuilds
      BY <3>7, <3>8, <3>9
    <3>11. CountIsRight'
      BY <1>4, <2>1, <2>4, <3>1, <3>7, <3>10 DEF CountIsRight
    <3>12. QED
      BY <3>5, <3>11
  <2>6. TasksAreKept'
    BY <1>2, <1>3, <2>1, <2>3 DEF IInv, TasksAreKept
  <2>7. QED
    BY <1>3, <2>2, <2>5, <2>6 DEF IInv
<1>8. QED
  BY <1>6, <1>7

(* A player goes from being made into the map. *)
LEMMA RegisterKeepsIInv ==
    ASSUME IInv, NEW r \in Requests, Register(r)
    PROVE  IInv'
<1>t. PlayersTypeOK /\ None \notin Requests \cup Guilds
  BY RuntimeAssumption DEF IInv
<1>1. /\ r \in making /\ making' = making \ {r} /\ tasks' = tasks \cup {r}
      /\ sessions' = [sessions EXCEPT ![guild[r]] = r]
      /\ stage' = stage /\ guild' = guild /\ actor' = actor /\ worker' = worker
      /\ leaving' = leaving /\ draining' = draining
  BY DEF Register, main, work
<1>2. PlayersTypeOK'
  BY <1>t, <1>1 DEF PlayersTypeOK
<1>3. Live' = Live
  BY <1>1 DEF Live
<1>4. TasksAreKept'
  BY <1>1, <1>3 DEF IInv, TasksAreKept
<1>5. ASSUME stage \in Before
      PROVE  MapIsRight' /\ CountIsRight'
  <2>1. MapIsRight /\ CountIsRight
    BY <1>5 DEF IInv
  <2>2. making = {r} /\ making' = {} /\ guild[r] \in Guilds /\ guild[r] \notin Held
    BY <1>1, <2>1 DEF MapIsRight
  <2>3. /\ sessions'[guild[r]] = r
        /\ \A h \in Guilds \ {guild[r]} : sessions'[h] = sessions[h]
    BY <1>t, <1>1, <2>2 DEF PlayersTypeOK
  <2>4. Held' = Held \cup {guild[r]}
    BY <1>t, <2>2, <2>3 DEF Held
  <2>5. Known' = Known
    BY <2>2, <2>3, <2>4 DEF Known, Held
  <2>6. \A h \in Held' : guild'[sessions'[h]] = h
    BY <1>1, <2>1, <2>2, <2>3, <2>4 DEF MapIsRight, Held
  <2>7. MapIsRight'
    BY <1>3, <2>1, <2>2, <2>5, <2>6 DEF MapIsRight
  <2>8. /\ IsFiniteSet(Held \cup {guild[r]})
        /\ Cardinality(Held \cup {guild[r]}) = Cardinality(Held) + 1
    BY <2>1, <2>2, FS_AddElement DEF CountIsRight
  <2>9. Cardinality(Held \cup {guild[r]}) \in Nat
    BY <2>8, FS_CardinalityType
  <2>10. Cardinality(Known) = Cardinality(Held \cup {guild[r]}) + 0
    BY <2>1, <2>2, <2>8, <2>9 DEF CountIsRight
  <2>11. CountIsRight'
    BY <2>1, <2>2, <2>4, <2>5, <2>8, <2>10 DEF CountIsRight
  <2>12. QED
    BY <2>7, <2>11
<1>6. QED
  BY <1>1, <1>2, <1>4, <1>5 DEF IInv

(* The shutdown: the map is taken, and then what it took runs out. *)
LEMMA ShutdownKeepsIInv ==
    ASSUME IInv, Take \/ Tell \/ Cancel \/ Collect \/ Drain \/ Drained
    PROVE  IInv'
<1>t. PlayersTypeOK
  BY DEF IInv
<1>1. CASE Take
  <2>1. PlayersTypeOK'
    BY <1>t, <1>1 DEF Take, PlayersTypeOK, Held, work
  <2>2. QED
    BY <1>1, <2>1 DEF Take, IInv, TasksAreKept, Live, Before, Early, work
<1>2. CASE Tell
  <2>1. PICK r \in leaving : /\ leaving' = leaving \ {r}
                             /\ actor' = [actor EXCEPT ![r] = "Ended"]
    BY <1>2 DEF Tell
  <2>2. /\ UNCHANGED map /\ worker' = worker /\ draining' = draining
        /\ stage' = stage /\ stage = "Telling"
    BY <1>2 DEF Tell
  <2>3. /\ actor' \in [Requests -> Phase] /\ worker' \in [Requests -> Phase]
        /\ leaving' \subseteq Requests
        /\ \A q \in Requests : actor'[q] = "Running" => actor[q] = "Running"
    BY <1>t, <2>1, <2>2 DEF PlayersTypeOK, Phase
  <2>4. QED
    BY <2>2, <2>3, PlayersUndisturbed DEF Before, Early
<1>3. CASE Cancel
  BY <1>3, RestUndisturbed DEF Cancel, Before, Early
<1>4. CASE Collect
  <2>1. PlayersTypeOK'
    BY <1>t, <1>4 DEF Collect, PlayersTypeOK, work
  <2>2. QED
    <3>1. /\ stage = "Cancelled" /\ stage' = "Draining" /\ draining' = tasks
          /\ making' = making /\ draining = {}
      BY <1>4 DEF Collect, IInv, TasksAreKept, Early
    <3>2. Live' = Live
      BY <1>4 DEF Collect, Live, work
    <3>3. TasksAreKept'
      BY <3>1, <3>2 DEF IInv, TasksAreKept, Early, Before
    <3>4. QED
      BY <2>1, <3>1, <3>3 DEF IInv, Before
<1>5. CASE Drain
  <2>1. PICK r \in draining : /\ draining' = draining \ {r}
                              /\ actor' = [actor EXCEPT ![r] = "Ended"]
                              /\ worker' = [worker EXCEPT ![r] = "Ended"]
    BY <1>5 DEF Drain
  <2>2. /\ UNCHANGED map /\ leaving' = leaving /\ stage' = stage /\ stage = "Draining"
    BY <1>5 DEF Drain
  <2>3. PlayersTypeOK'
    BY <1>t, <2>1, <2>2 DEF PlayersTypeOK, Phase, map
  <2>4. Live' \subseteq Live \ {r}
    BY <1>t, <2>1 DEF PlayersTypeOK, Live
  <2>5. TasksAreKept'
    BY <2>1, <2>2, <2>4 DEF IInv, TasksAreKept, map, Early, Before
  <2>6. QED
    BY <2>2, <2>3, <2>5 DEF IInv, Before
<1>6. CASE Drained
  BY <1>6, RestUndisturbed DEF Drained, Before, Early
<1>7. QED
  BY <1>1, <1>2, <1>3, <1>4, <1>5, <1>6

LEMMA WorkerEndsKeepsIInv ==
    ASSUME IInv, NEW r \in Requests, WorkerEnds(r)
    PROVE  IInv'
<1>1. /\ UNCHANGED map /\ actor' = actor /\ worker' = [worker EXCEPT ![r] = "Ended"]
      /\ leaving' = leaving /\ draining' = draining /\ stage' = stage
  BY DEF WorkerEnds, main
<1>2. /\ actor' \in [Requests -> Phase] /\ worker' \in [Requests -> Phase]
      /\ leaving' \subseteq Requests
      /\ \A q \in Requests : worker'[q] = "Running" => worker[q] = "Running"
  BY <1>1 DEF IInv, PlayersTypeOK, Phase
<1>3. QED
  BY <1>1, <1>2, PlayersUndisturbed

(* Starting, exiting and everything around the players. *)
LEMMA SurroundingsKeepIInv ==
    ASSUME IInv,
           \/ Identify \/ Listen \/ Start \/ Stop \/ GatewayChanges \/ ClientEnds
           \/ CloseShards \/ AwaitClient \/ AwaitServer \/ Runs(ListenerStep)
    PROVE  IInv'
<1>1. UNCHANGED <<map, work, leaving, draining>>
  BY DEF Identify, Listen, Start, Stop, GatewayChanges, ClientEnds, CloseShards, AwaitClient,
         AwaitServer, Runs, Exit, main
<1>2. /\ stage' \in Before => stage \in Before
      /\ stage' \in Early => stage \in Early
      /\ stage' # "Exited" => stage # "Exited"
  BY DEF Identify, Listen, Start, Stop, GatewayChanges, ClientEnds, CloseShards, AwaitClient,
         AwaitServer, Runs, Exit, main, Before, Early
<1>3. QED
  BY <1>1, <1>2, RestUndisturbed

LEMMA StutterKeepsIInv ==
    ASSUME IInv, UNCHANGED vars
    PROVE  IInv'
BY RestUndisturbed DEF vars, main, map, work

LEMMA NextKeepsIInv ==
    ASSUME IInv, [Next]_vars
    PROVE  IInv'
<1>1. CASE RunWith
  BY <1>1, ShutdownKeepsIInv, SurroundingsKeepIInv DEF RunWith, Proceed
<1>2. CASE Stop \/ GatewayChanges \/ ClientEnds \/ Runs(ListenerStep)
  BY <1>2, SurroundingsKeepIInv
<1>3. CASE \E r \in Requests : Request(r) \/ Register(r) \/ WorkerEnds(r)
  BY <1>3, RequestKeepsIInv, RegisterKeepsIInv, WorkerEndsKeepsIInv
<1>4. CASE UNCHANGED vars
  BY <1>4, StutterKeepsIInv
<1>5. QED
  BY <1>1, <1>2, <1>3, <1>4 DEF Next

(* Until the map is taken a server has one player at most and max_guilds   *)
(* bounds them all, and no task is lost track of: BotRuntime::session and  *)
(* shutdown, for any servers and however many requests arrive at once.     *)
THEOREM PlayersCorrect == Spec => []OnePlayerPerGuild
<1>1. Init => IInv
  BY InitIInv
<1>2. IInv /\ [Next]_vars => IInv'
  BY NextKeepsIInv
<1>3. IInv => OnePlayerPerGuild
  BY IInvImplies
<1>4. QED
  BY <1>1, <1>2, <1>3, PTL DEF Spec

=============================================================================
