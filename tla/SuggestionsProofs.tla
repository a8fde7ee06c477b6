-------------------------- MODULE SuggestionsProofs --------------------------
(***************************************************************************)
(* Theorems about the resolver and the suggestions that share it, for any  *)
(* callers, permits, outputs and queries.  The callers need not be finite  *)
(* in number: only those that hold a permit are counted.                   *)
(***************************************************************************)
EXTENDS Suggestions, FiniteSetTheorems, SequenceTheorems, NaturalsInduction, TLAPS

Phases == {"Idle", "Queued", "Waiting", "Killing", "Answered", "Dropped"}
Printed == Outputs \cup {Quiet}
Answers ==
    {Failure, Nothing} \cup {Judge(Operation[caller], output) : caller \in Callers, output \in Printed}

CallRecord ==
    [pc : Phases, child : {"None", "Running", "Killed", "Gone"}, held : BOOLEAN,
     output : Printed, answer : Answers]

TaskRecord == [pc : {"None", "Searching", "Storing"}, key : Queries \cup {<<>>}]

TypeOK ==
    /\ calls \in [Callers -> CallRecord]
    /\ permits \in 0..Permits
    /\ warming \in BOOLEAN
    /\ tasks \in [Warmers -> TaskRecord]

(* Who has a permit, and how many are left. *)
Holders == {caller \in Callers : calls[caller].pc \in Holding}
PermitsOK == IsFiniteSet(Holders) /\ permits = Permits - Cardinality(Holders)

(* A process belongs to a call that waits for it. *)
ChildrenOK == \A caller \in Callers : Child(caller, "Running") => At(caller, "Waiting")

(* One task at most is searching, none when a search may begin, and a task *)
(* asks for nothing while it is not searching.                             *)
Searching(warmer) == tasks[warmer].pc = "Searching"
OneSearch ==
    /\ \A one, other \in Warmers : Searching(one) /\ Searching(other) => one = other
    /\ warming => \A warmer \in Warmers : ~Searching(warmer)
    /\ \A warmer \in Warmers :
          /\ tasks[warmer].pc = "None" => At(warmer, "Idle")
          /\ tasks[warmer].pc = "Storing" => At(warmer, "Answered")

IInv == TypeOK /\ PermitsOK /\ ChildrenOK /\ OneSearch

-----------------------------------------------------------------------------
LEMMA InitIInv ==
    ASSUME Init
    PROVE  IInv
<1>1. Holders = {} /\ IsFiniteSet({}) /\ Cardinality({}) = 0
  BY FS_EmptySet DEF Init, ResolverInit, NoCall, Holders, Holding
<1>2. TypeOK
  BY ResolverAssumption
     DEF Init, ResolverInit, NoCall, NoTask, TypeOK, CallRecord, TaskRecord, Phases, Printed,
         Answers
<1>3. PermitsOK
  BY <1>1, ResolverAssumption DEF Init, ResolverInit, PermitsOK
<1>4. ChildrenOK /\ OneSearch
  BY SuggestionsAssumption
     DEF Init, ResolverInit, NoCall, NoTask, ChildrenOK, OneSearch, Searching, Child, At
<1>5. QED
  BY <1>2, <1>3, <1>4 DEF IInv

-----------------------------------------------------------------------------
(* A step of the resolver is a step of one call, which takes a permit      *)
(* when it begins to hold one and gives it back when it ceases to.         *)
Held(caller) == IF calls[caller].pc \in Holding THEN 1 ELSE 0
CallChanges(caller) ==
    /\ calls' \in [Callers -> CallRecord]
    /\ \A other \in Callers \ {caller} : calls'[other] = calls[other]
    /\ permits' = permits + Held(caller) - Held(caller)'
    /\ Held(caller)' > Held(caller) => permits > 0
    /\ Child(caller, "Running")' => At(caller, "Waiting")'

LEMMA ChangesKeepTheCount ==
    ASSUME TypeOK, PermitsOK, ChildrenOK, NEW caller \in Callers, CallChanges(caller)
    PROVE  permits' \in 0..Permits /\ PermitsOK' /\ ChildrenOK'
<1>1. permits \in 0..Permits /\ Permits \in Nat /\ Cardinality(Holders) \in Nat
  BY ResolverAssumption, FS_CardinalityType DEF TypeOK, PermitsOK
<1>2. ChildrenOK'
  BY DEF ChildrenOK, CallChanges, Child, At
<1>3. IsFiniteSet(Holders') /\ Cardinality(Holders') = Cardinality(Holders) + Held(caller)' - Held(caller)
  <2>1. CASE Held(caller)' = 1 /\ Held(caller) = 0
    <3>1. Holders' = Holders \cup {caller} /\ caller \notin Holders
      BY <2>1 DEF Holders, Held, CallChanges
    <3>2. QED
      BY <1>1, <2>1, <3>1, FS_AddElement DEF PermitsOK
  <2>2. CASE Held(caller)' = 0 /\ Held(caller) = 1
    <3>1. Holders' = Holders \ {caller} /\ caller \in Holders
      BY <2>2 DEF Holders, Held, CallChanges
    <3>2. QED
      BY <1>1, <2>2, <3>1, FS_RemoveElement DEF PermitsOK
  <2>3. CASE Held(caller)' = Held(caller)
    <3>1. Holders' = Holders
      BY <2>3 DEF Holders, Held, CallChanges
    <3>2. QED
      BY <1>1, <2>3, <3>1 DEF PermitsOK, Held
  <2>4. QED
    BY <2>1, <2>2, <2>3 DEF Held
<1>4. permits' = Permits - Cardinality(Holders') /\ Cardinality(Holders') \in Nat
  <2>1. Cardinality(Holders') \in Nat
    BY <1>3, FS_CardinalityType
  <2>2. QED
    BY <1>1, <1>3, <2>1 DEF CallChanges, PermitsOK, Held
<1>5. permits' >= 0
  BY <1>1 DEF CallChanges, Held
<1>6. QED
  BY <1>1, <1>2, <1>3, <1>4, <1>5 DEF PermitsOK

(* An answer is one of those that a call may get. *)
LEMMA AnswersAreRecords ==
    ASSUME NEW answer \in Answers
    PROVE  Answered(answer) \in CallRecord /\ Answered(answer).pc = "Answered"
              /\ Answered(answer).child = "None"
BY DEF Answered, NoCall, CallRecord, Phases, Printed

LEMMA ReturnChanges ==
    ASSUME TypeOK, ChildrenOK, NEW caller \in Callers, NEW answer \in Answers,
           calls[caller].pc \in Holding, Return(caller, answer)
    PROVE  CallChanges(caller)
<1>1. calls' = [calls EXCEPT ![caller] = Answered(answer)] /\ permits' = permits + 1
  BY DEF Return
<1>2. calls' \in [Callers -> CallRecord] /\ calls'[caller] = Answered(answer)
  BY <1>1, AnswersAreRecords DEF TypeOK
<1>3. Held(caller) = 1 /\ Held(caller)' = 0
  BY <1>2, AnswersAreRecords DEF Held, Holding
<1>4. permits \in Int
  BY ResolverAssumption DEF TypeOK
<1>5. QED
  BY <1>1, <1>2, <1>3, <1>4, AnswersAreRecords DEF CallChanges, Child, TypeOK

(* A call that only moves on within its permit, or without one. *)
LEMMA MovingChanges ==
    ASSUME TypeOK, NEW caller \in Callers, NEW record \in CallRecord,
           calls' = [calls EXCEPT ![caller] = record], permits' = permits,
           calls[caller].pc \in Holding <=> record.pc \in Holding,
           record.child = "Running" => record.pc = "Waiting"
    PROVE  CallChanges(caller)
<1>1. permits \in Int
  BY ResolverAssumption DEF TypeOK
<1>2. Held(caller)' = Held(caller)
  BY DEF TypeOK, Held
<1>3. QED
  BY <1>1, <1>2 DEF TypeOK, CallChanges, Child, At, Held

LEMMA AskingChanges ==
    ASSUME TypeOK, ChildrenOK, NEW caller \in Callers,
           Ask(caller) \/ Decline(caller) \/ Leave(caller)
    PROVE  /\ CallChanges(caller)
           /\ calls[caller].pc \in {"Idle", "Answered", "Dropped"}
           /\ Ask(caller) \/ Decline(caller) => At(caller, "Idle")
           /\ Leave(caller) => At(caller, "Idle")'
<1>1. CASE Ask(caller)
  <2> DEFINE record == [calls[caller] EXCEPT !.pc = "Queued"]
  <2>1. /\ At(caller, "Idle") /\ calls' = [calls EXCEPT ![caller] = record]
        /\ permits' = permits
    BY <1>1 DEF Ask, Move
  <2>2. record \in CallRecord /\ record.pc = "Queued" /\ record.child # "Running"
    BY <2>1 DEF TypeOK, CallRecord, Phases, ChildrenOK, Child, At
  <2>3. CallChanges(caller)
    BY <2>1, <2>2, MovingChanges DEF At, Holding
  <2>4. QED
    BY <2>1, <2>3 DEF At, Leave
<1>2. CASE Decline(caller)
  <2>1. PICK answer \in {Failure, Nothing} : calls' = [calls EXCEPT ![caller] = Answered(answer)]
    BY <1>2 DEF Decline
  <2>2. At(caller, "Idle") /\ permits' = permits
    BY <1>2 DEF Decline
  <2>3. CallChanges(caller)
    <3>1. answer \in Answers
      BY DEF Answers
    <3>2. QED
      BY <2>1, <2>2, <3>1, AnswersAreRecords, MovingChanges DEF At, Holding
  <2>4. QED
    BY <2>2, <2>3 DEF At, Leave
<1>3. CASE Leave(caller)
  <2>1. /\ calls' = [calls EXCEPT ![caller] = NoCall] /\ permits' = permits
        /\ calls[caller].pc \in {"Answered", "Dropped"}
    BY <1>3 DEF Leave
  <2>2. NoCall \in CallRecord /\ NoCall.pc = "Idle" /\ NoCall.child = "None"
    BY DEF NoCall, CallRecord, Phases, Printed, Answers
  <2>3. CallChanges(caller)
    BY <2>1, <2>2, MovingChanges DEF Holding
  <2>4. calls'[caller].pc = "Idle"
    BY <2>1, <2>2 DEF TypeOK
  <2>5. QED
    BY <2>1, <2>3, <2>4 DEF At, Ask, Decline
<1>4. QED
  BY <1>1, <1>2, <1>3

(* What the resolver does with a call never moves one that is idle or has  *)
(* its answer.                                                             *)
Settled == {"Idle", "Answered"}
LEMMA StepsChange ==
    ASSUME TypeOK, ChildrenOK, NEW caller \in Callers, CallStep(caller)
    PROVE  /\ CallChanges(caller)
           /\ calls[caller].pc \in Settled => calls'[caller].pc = calls[caller].pc
<1>t. calls \in [Callers -> CallRecord] /\ calls[caller] \in CallRecord /\ permits \in Int
  BY ResolverAssumption DEF TypeOK
<1>1. CASE TakePermit(caller)
  <2>1. At(caller, "Queued") /\ permits > 0 /\ Begin(caller)
    BY <1>1 DEF TakePermit
  <2>2. CASE calls' = [calls EXCEPT ![caller] = Answered(Failure)] /\ UNCHANGED permits
    <3>1. Failure \in Answers
      BY DEF Answers
    <3>2. CallChanges(caller)
      BY <2>1, <2>2, <3>1, AnswersAreRecords, MovingChanges DEF At, Holding
    <3>3. QED
      BY <2>1, <3>2 DEF At, Settled
  <2>3. CASE /\ calls' = [calls EXCEPT ![caller].pc = "Waiting", ![caller].child = "Running"]
             /\ permits' = permits - 1
    <3>1. /\ calls' \in [Callers -> CallRecord] /\ calls'[caller].pc = "Waiting"
          /\ \A other \in Callers \ {caller} : calls'[other] = calls[other]
      BY <1>t, <2>3 DEF CallRecord, Phases
    <3>2. Held(caller) = 0 /\ Held(caller)' = 1
      BY <2>1, <3>1 DEF Held, Holding, At
    <3>3. QED
      BY <1>t, <2>1, <2>3, <3>1, <3>2 DEF CallChanges, At, Child, Settled
  <2>4. QED
    BY <2>1, <2>2, <2>3 DEF Begin
<1>2. CASE DeadlinePasses(caller)
  <2> DEFINE record == [calls[caller] EXCEPT !.pc = "Killing", !.child = "Killed"]
  <2>1. /\ At(caller, "Waiting") /\ permits' = permits
        /\ calls' = [calls EXCEPT ![caller] = record]
    BY <1>t, <1>2 DEF DeadlinePasses
  <2>2. record \in CallRecord /\ record.pc = "Killing" /\ record.child = "Killed"
    BY <1>t DEF CallRecord, Phases
  <2>3. CallChanges(caller)
    BY <2>1, <2>2, MovingChanges DEF At, Holding
  <2>4. QED
    BY <2>1, <2>3 DEF At, Settled
<1>3. CASE Join(caller) \/ GiveUp(caller)
  <2>1. /\ calls[caller].pc \in Holding
        /\ \E answer \in Answers : Return(caller, answer)
    BY <1>t, <1>3 DEF Join, GiveUp, At, Holding, Answers, CallRecord
  <2>2. CallChanges(caller)
    BY <2>1, ReturnChanges
  <2>3. QED
    BY <2>1, <2>2 DEF Holding, Settled
<1>4. CASE ChildEnds(caller)
  <2>1. PICK output \in Outputs, held \in {FALSE, Lingering} :
           calls' = [calls EXCEPT ![caller].child = "Gone", ![caller].held = held,
                                  ![caller].output = IF At(caller, "Waiting") THEN output ELSE Quiet]
    BY <1>4 DEF ChildEnds
  <2> DEFINE printed == IF At(caller, "Waiting") THEN output ELSE Quiet
             record == [calls[caller] EXCEPT !.child = "Gone", !.held = held, !.output = printed]
  <2>2. printed \in Printed /\ held \in BOOLEAN
    BY ResolverAssumption DEF Printed
  <2> HIDE DEF printed
  <2>3. calls' = [calls EXCEPT ![caller] = record] /\ permits' = permits
    BY <1>4, <2>1 DEF ChildEnds, printed
  <2>4. record \in CallRecord /\ record.pc = calls[caller].pc /\ record.child = "Gone"
    BY <1>t, <2>2 DEF CallRecord
  <2>5. CallChanges(caller)
    BY <2>3, <2>4, MovingChanges
  <2>6. QED
    BY <1>t, <2>3, <2>4, <2>5
<1>5. CASE DescendantEnds(caller)
  <2> DEFINE record == [calls[caller] EXCEPT !.held = FALSE]
  <2>1. calls' = [calls EXCEPT ![caller] = record] /\ permits' = permits
    BY <1>t, <1>5 DEF DescendantEnds
  <2>2. /\ record \in CallRecord /\ record.pc = calls[caller].pc
        /\ record.child = calls[caller].child
    BY <1>t DEF CallRecord
  <2>3. CallChanges(caller)
    BY <2>1, <2>2, MovingChanges DEF ChildrenOK, Child, At
  <2>4. QED
    BY <1>t, <2>1, <2>2, <2>3
<1>6. CASE Drop(caller)
  <2>1. /\ calls[caller].pc \in Holding \cup {"Queued"}
        /\ calls' = [calls EXCEPT ![caller].pc = "Dropped",
                         ![caller].child = IF @ = "Running" THEN "Killed" ELSE @]
        /\ permits' = permits + IF At(caller, "Queued") THEN 0 ELSE 1
    BY <1>6 DEF Drop
  <2>2. /\ calls' \in [Callers -> CallRecord] /\ calls'[caller].pc = "Dropped"
        /\ calls'[caller].child # "Running"
        /\ \A other \in Callers \ {caller} : calls'[other] = calls[other]
    BY <1>t, <2>1 DEF CallRecord, Phases
  <2>3. Held(caller)' = 0 /\ Held(caller) = IF At(caller, "Queued") THEN 0 ELSE 1
    BY <2>1, <2>2 DEF Held, Holding, At
  <2>4. QED
    BY <1>t, <2>1, <2>2, <2>3 DEF CallChanges, Child, Settled, Holding
<1>7. QED
  BY <1>1, <1>2, <1>3, <1>4, <1>5, <1>6 DEF CallStep, Call

-----------------------------------------------------------------------------
(* The permit for a background search.                                     *)
LEMMA TypingKeepsIInv ==
    ASSUME IInv, NEW query \in Queries, Type(query)
    PROVE  IInv'
<1>1. calls' = calls /\ permits' = permits
  BY DEF Type, resolver
<1>2. PermitsOK' /\ ChildrenOK'
  BY <1>1 DEF IInv, PermitsOK, ChildrenOK, Holders, Child, At
<1>3. CASE UNCHANGED <<warming, tasks>>
  BY <1>1, <1>2, <1>3 DEF IInv, TypeOK, OneSearch, Searching, At
<1>4. CASE ~UNCHANGED <<warming, tasks>>
  <2>1. /\ warming /\ warming' = FALSE
        /\ \E warmer \in Warmers :
              /\ tasks[warmer].pc = "None" /\ At(warmer, "Idle")
              /\ tasks' = [tasks EXCEPT ![warmer] = [pc |-> "Searching", key |-> query]]
    BY <1>4 DEF Type, Warm
  <2>2. PICK warmer \in Warmers :
           /\ tasks[warmer].pc = "None" /\ At(warmer, "Idle")
           /\ tasks' = [tasks EXCEPT ![warmer] = [pc |-> "Searching", key |-> query]]
    BY <2>1
  <2>3. /\ tasks' \in [Warmers -> TaskRecord] /\ tasks'[warmer].pc = "Searching"
        /\ \A other \in Warmers \ {warmer} : tasks'[other] = tasks[other]
    BY <2>2 DEF IInv, TypeOK, TaskRecord
  <2>4. TypeOK'
    BY <1>1, <2>1, <2>3 DEF IInv, TypeOK
  <2>5. OneSearch'
    BY <1>1, <2>1, <2>3 DEF IInv, OneSearch, Searching, At
  <2>6. QED
    BY <1>2, <2>4, <2>5 DEF IInv
<1>5. QED
  BY <1>3, <1>4

(* A call of somebody else, or the resolver at work on a call: no task     *)
(* that waits for nothing is moved.                                        *)
LEMMA CallsKeepIInv ==
    ASSUME IInv, NEW caller \in Callers, CallChanges(caller), UNCHANGED memory,
           caller \in Warmers /\ ~Searching(caller) =>
               calls'[caller].pc = calls[caller].pc
    PROVE  IInv'
<1>1. warming' = warming /\ tasks' = tasks
  BY DEF memory
<1>2. permits' \in 0..Permits /\ PermitsOK' /\ ChildrenOK'
  BY ChangesKeepTheCount DEF IInv
<1>3. TypeOK'
  BY <1>1, <1>2 DEF IInv, TypeOK, CallChanges
<1>4. OneSearch'
  <2>1. ASSUME NEW warmer \in Warmers, ~Searching(warmer)
        PROVE  calls'[warmer].pc = calls[warmer].pc
    BY <2>1, SuggestionsAssumption DEF CallChanges
  <2>2. QED
    BY <1>1, <2>1 DEF IInv, OneSearch, Searching, At
<1>5. QED
  BY <1>2, <1>3, <1>4 DEF IInv

LEMMA WarmersKeepIInv ==
    ASSUME IInv, NEW warmer \in Warmers,
           WarmerAsks(warmer) \/ WarmerReturns(warmer) \/ Store(warmer)
    PROVE  IInv'
<1>t. warmer \in Callers /\ TypeOK /\ ChildrenOK
  BY SuggestionsAssumption DEF IInv
<1>1. CASE WarmerAsks(warmer)
  <2>1. CallChanges(warmer)
    BY <1>t, <1>1, AskingChanges DEF WarmerAsks
  <2>2. QED
    BY <1>t, <1>1, <2>1, CallsKeepIInv DEF WarmerAsks, Searching
<1>2. CASE WarmerReturns(warmer)
  <2>1. /\ Searching(warmer) /\ At(warmer, "Answered") /\ warming' = TRUE
        /\ calls' = calls /\ permits' = permits
        /\ tasks' = [tasks EXCEPT ![warmer].pc = "Storing"]
    BY <1>2 DEF WarmerReturns, Searching, resolver
  <2>2. /\ tasks' \in [Warmers -> TaskRecord] /\ tasks'[warmer].pc = "Storing"
        /\ \A other \in Warmers \ {warmer} : tasks'[other] = tasks[other]
    BY <1>t, <2>1 DEF TypeOK, TaskRecord
  <2>3. OneSearch'
    BY <2>1, <2>2 DEF IInv, OneSearch, Searching, At
  <2>4. PermitsOK' /\ ChildrenOK'
    BY <2>1 DEF IInv, PermitsOK, ChildrenOK, Holders, Child, At
  <2>5. QED
    BY <1>t, <2>1, <2>2, <2>3, <2>4 DEF IInv, TypeOK
<1>3. CASE Store(warmer)
  <2>1. /\ tasks[warmer].pc = "Storing" /\ warming' = warming /\ Leave(warmer)
        /\ tasks' = [tasks EXCEPT ![warmer] = NoTask]
    BY <1>3 DEF Store
  <2>2. CallChanges(warmer) /\ calls'[warmer].pc = "Idle"
    BY <1>t, <2>1, AskingChanges DEF At
  <2>3. /\ tasks' \in [Warmers -> TaskRecord] /\ tasks'[warmer].pc = "None"
        /\ \A other \in Warmers \ {warmer} : tasks'[other] = tasks[other]
    BY <1>t, <2>1 DEF TypeOK, TaskRecord, NoTask
  <2>4. permits' \in 0..Permits /\ PermitsOK' /\ ChildrenOK'
    BY <1>t, <2>2, ChangesKeepTheCount DEF IInv
  <2>5. TypeOK'
    BY <1>t, <2>1, <2>2, <2>3, <2>4 DEF TypeOK, CallChanges
  <2>6. \A other \in Warmers \ {warmer} : calls'[other] = calls[other]
    BY <2>2, SuggestionsAssumption DEF CallChanges
  <2>7. OneSearch'
    BY <2>1, <2>2, <2>3, <2>6 DEF IInv, OneSearch, Searching, At
  <2>8. QED
    BY <2>4, <2>5, <2>7 DEF IInv
<1>4. QED
  BY <1>1, <1>2, <1>3

LEMMA NextKeepsIInv ==
    ASSUME IInv, [Next]_vars
    PROVE  IInv'
<1>1. ASSUME NEW caller \in Callers, CallStep(caller), UNCHANGED memory
      PROVE  IInv'
  <2>1. /\ CallChanges(caller)
        /\ calls[caller].pc \in Settled => calls'[caller].pc = calls[caller].pc
    BY <1>1, StepsChange DEF IInv
  <2>2. caller \in Warmers /\ ~Searching(caller) => calls[caller].pc \in Settled
    BY DEF IInv, TypeOK, TaskRecord, OneSearch, Searching, At, Settled
  <2>3. QED
    BY <1>1, <2>1, <2>2, CallsKeepIInv
<1>2. ASSUME NEW caller \in Callers \ Warmers, OtherCall(caller), UNCHANGED memory
      PROVE  IInv'
  <2>1. CallChanges(caller)
    BY <1>2, AskingChanges DEF OtherCall, IInv
  <2>2. QED
    BY <1>2, <2>1, CallsKeepIInv
<1>3. CASE UNCHANGED vars
  BY <1>3 DEF vars, memory, resolver, IInv, TypeOK, PermitsOK, Holders, ChildrenOK, OneSearch,
     Searching, Child, At
<1>4. QED
  BY <1>1, <1>2, <1>3, TypingKeepsIInv, WarmersKeepIInv DEF Next

LEMMA IInvAlways == Spec => []IInv
<1>1. Init => IInv
  BY InitIInv
<1>2. IInv /\ [Next]_vars => IInv'
  BY NextKeepsIInv
<1>3. QED
  BY <1>1, <1>2, PTL DEF Spec

(* Whenever and however calls are dropped, time out or answer, a process   *)
(* that runs belongs to a call that waits for it, and the permits that are *)
(* out are those of the calls that run one (CommandSpec::run in            *)
(* src/src/process.rs and run_yt_dlp in src/src/source/youtube.rs).        *)
THEOREM ChildrenCorrect == Spec => []NoChildOutlivesItsCall
<1>1. IInv => NoChildOutlivesItsCall
  BY DEF IInv, ChildrenOK, PermitsOK, Holders, NoChildOutlivesItsCall
<1>2. QED
  BY <1>1, IInvAlways, PTL

(* However many people type, their searches hold one place in the queue    *)
(* for the resolver or one of its permits at most (warm in                 *)
(* src/src/suggest.rs).                                                    *)
THEOREM TypingCorrect == Spec => []TypingHoldsOneSearch
<1>1. IInv => TypingHoldsOneSearch
  <2> DEFINE asking == {warmer \in Warmers : calls[warmer].pc \in Holding \cup {"Queued"}}
  <2> SUFFICES ASSUME IInv
               PROVE  Cardinality(asking) <= 1
    BY DEF TypingHoldsOneSearch
  <2>1. \A warmer \in asking : Searching(warmer)
    BY DEF IInv, TypeOK, TaskRecord, OneSearch, Searching, At, Holding
  <2>2. \A one, other \in asking : one = other
    BY <2>1 DEF IInv, OneSearch
  <2> HIDE DEF asking
  <2>3. CASE asking = {}
    BY <2>3, FS_EmptySet
  <2>4. CASE asking # {}
    <3>1. PICK warmer \in asking : asking = {warmer}
      BY <2>2, <2>4
    <3>2. Cardinality({warmer}) = 1
      BY FS_Singleton
    <3>3. QED
      BY <3>1, <3>2
  <2>5. QED
    BY <2>3, <2>4
<1>2. QED
  BY <1>1, IInvAlways, PTL

-----------------------------------------------------------------------------
(* What can be played of a list, however long it is.                       *)

(* Induction over the naturals, through the least one that fails. *)
LEMMA LeastNumber ==
    ASSUME NEW N \in SUBSET Nat, N # {}
    PROVE  \E n \in N : \A m \in N : n <= m
<1> DEFINE R == OpToRel(<, Nat)
<1>1. IsWellFoundedOn(R, Nat)
  BY NatLessThanWellFounded
<1>2. \A n, m \in Nat : m < n => <<m, n>> \in R
  BY DEF OpToRel
<1> HIDE DEF R
<1>3. PICK n \in N : \A m \in N : ~(<<m, n>> \in R)
  BY <1>1, WFMin
<1>4. ASSUME NEW m \in N
      PROVE  n <= m
  <2>1. n \in Nat /\ m \in Nat /\ ~(m < n)
    BY <1>2, <1>3
  <2>2. QED
    BY <2>1
<1>5. QED
  BY <1>4

LEMMA NothingFails ==
    ASSUME NEW L \in Nat, NEW Failing \in SUBSET (0..L), 0 \notin Failing,
           \A n \in 1..L : n - 1 \notin Failing => n \notin Failing
    PROVE  Failing = {}
<1> SUFFICES ASSUME Failing # {}
             PROVE  FALSE
  OBVIOUS
<1>1. PICK n \in Failing : \A m \in Failing : n <= m
  BY LeastNumber
<1>2. n \in 1..L /\ n - 1 \in Failing
  BY <1>1
<1>3. n <= n - 1
  BY <1>1, <1>2
<1>4. QED
  BY <1>2, <1>3

(* playable_metadata goes through the entries one by one: kept is what it  *)
(* has kept of the first n.                                                *)
Kept(entries, kept, n) ==
    IF n = 0 THEN <<>>
    ELSE IF Playable(entries[n]) THEN Append(kept[n - 1], entries[n]) ELSE kept[n - 1]
Keeps(entries, kept, L) == kept = [n \in 0..L |-> Kept(entries, kept, n)]

LEMMA KeepingIsDefined ==
    ASSUME NEW entries, Len(entries) \in Nat
    PROVE  \E kept : /\ Keeps(entries, kept, Len(entries))
                     /\ Playables(entries) = kept[Len(entries)]
<1> DEFINE L == Len(entries)
           Failing == {m \in 0..L : ~\E kept : Keeps(entries, kept, m)}
<1>1. 0 \notin Failing
  <2> DEFINE g == [n \in 0..0 |-> <<>>]
  <2>1. Keeps(entries, g, 0)
    BY DEF Keeps, Kept
  <2>2. QED
    BY <2>1
<1>2. ASSUME NEW m \in 1..L, m - 1 \notin Failing
      PROVE  m \notin Failing
  <2>1. m - 1 \in 0..L
    OBVIOUS
  <2>2. PICK g : Keeps(entries, g, m - 1)
    BY <1>2, <2>1
  <2> DEFINE h == [n \in 0..m |-> IF n = m THEN Kept(entries, g, m) ELSE g[n]]
  <2>3. ASSUME NEW n \in 0..m
        PROVE  h[n] = Kept(entries, h, n)
    <3>1. CASE n = m
      <4>1. n - 1 \in 0..m /\ n - 1 # m /\ n # 0
        BY <3>1
      <4>2. h[n] = Kept(entries, g, n) /\ h[n - 1] = g[n - 1]
        BY <3>1, <4>1
      <4>3. QED
        BY <4>1, <4>2 DEF Kept
    <3>2. CASE n # m
      <4>1. n \in 0..(m - 1) /\ h[n] = g[n]
        BY <3>2
      <4>2. g[n] = Kept(entries, g, n)
        BY <2>2, <4>1 DEF Keeps
      <4>3. n # 0 => n - 1 \in 0..m /\ h[n - 1] = g[n - 1]
        BY <3>2
      <4>4. QED
        BY <4>1, <4>2, <4>3 DEF Kept
    <3>3. QED
      BY <3>1, <3>2
  <2>4. h = [n \in 0..m |-> h[n]]
    OBVIOUS
  <2> HIDE DEF h
  <2>5. Keeps(entries, h, m)
    BY <2>3, <2>4 DEF Keeps
  <2>6. QED
    BY <2>5
<1>3. Failing = {}
  <2>1. Failing \in SUBSET (0..L)
    OBVIOUS
  <2> HIDE DEF Failing
  <2>2. QED
    BY <1>1, <1>2, <2>1, NothingFails
<1>4. \E kept : Keeps(entries, kept, L)
  BY <1>3
<1>5. Playables(entries) = (CHOOSE kept : Keeps(entries, kept, L))[L]
  BY DEF Playables, Keeps, Kept
<1>6. QED
  BY <1>4, <1>5

(* What is kept of the first n entries is what can be played of them. *)
PlayableOf(tracks, entries, n) ==
    \E place \in [1..Len(tracks) -> 1..n] :
        /\ \A i, j \in 1..Len(tracks) : i < j => place[i] < place[j]
        /\ {m \in 1..n : Playable(entries[m])} = {place[i] : i \in 1..Len(tracks)}
        /\ \A i \in 1..Len(tracks) : tracks[i] = entries[place[i]]

LEMMA OneMoreIsPlayable ==
    ASSUME NEW S, NEW entries \in Seq(S), NEW n \in 1..Len(entries), NEW tracks \in Seq(S),
           PlayableOf(tracks, entries, n - 1), Playable(entries[n])
    PROVE  PlayableOf(Append(tracks, entries[n]), entries, n)
<1> DEFINE longer == Append(tracks, entries[n])
           len == Len(tracks)
<1>1. PICK place \in [1..len -> 1..(n - 1)] :
         /\ \A i, j \in 1..len : i < j => place[i] < place[j]
         /\ {m \in 1..(n - 1) : Playable(entries[m])} = {place[i] : i \in 1..len}
         /\ \A i \in 1..len : tracks[i] = entries[place[i]]
  BY DEF PlayableOf
<1>2. /\ len \in Nat /\ Len(longer) = len + 1 /\ longer[len + 1] = entries[n]
      /\ \A i \in 1..len : longer[i] = tracks[i]
  BY AppendProperties, ElementOfSeq, LenProperties
<1> DEFINE there == [i \in 1..(len + 1) |-> IF i = len + 1 THEN n ELSE place[i]]
<1>3. /\ there[len + 1] = n
      /\ \A i \in 1..len : there[i] = place[i] /\ place[i] \in 1..(n - 1)
      /\ there \in [1..(len + 1) -> 1..n]
  BY <1>2
<1> HIDE DEF longer, there, len
<1>4. ASSUME NEW i \in 1..(len + 1), NEW j \in 1..(len + 1), i < j
      PROVE  there[i] < there[j]
  <2>1. i \in 1..len /\ there[i] = place[i] /\ place[i] \in 1..(n - 1)
    BY <1>2, <1>3, <1>4
  <2>2. CASE j = len + 1
    BY <1>3, <2>1, <2>2
  <2>3. CASE j # len + 1
    <3>1. j \in 1..len
      BY <1>2, <2>3
    <3>2. QED
      BY <1>1, <1>3, <1>4, <2>1, <3>1
  <2>4. QED
    BY <2>2, <2>3
<1>5. {m \in 1..n : Playable(entries[m])} = {there[i] : i \in 1..(len + 1)}
  <2>1. ASSUME NEW m \in 1..n, Playable(entries[m])
        PROVE  \E i \in 1..(len + 1) : m = there[i]
    <3>1. CASE m = n
      <4>1. len + 1 \in 1..(len + 1)
        BY <1>2
      <4>2. QED
        BY <1>3, <3>1, <4>1
    <3>2. CASE m # n
      <4>1. m \in {k \in 1..(n - 1) : Playable(entries[k])}
        BY <2>1, <3>2
      <4>2. PICK i \in 1..len : m = place[i]
        BY <1>1, <4>1
      <4>3. i \in 1..(len + 1)
        BY <1>2
      <4>4. QED
        BY <1>3, <4>2, <4>3
    <3>3. QED
      BY <3>1, <3>2
  <2>2. ASSUME NEW i \in 1..(len + 1)
        PROVE  there[i] \in 1..n /\ Playable(entries[there[i]])
    <3>1. CASE i = len + 1
      BY <1>3, <3>1
    <3>2. CASE i # len + 1
      <4>1. i \in 1..len
        BY <1>2, <3>2
      <4>2. place[i] \in {k \in 1..(n - 1) : Playable(entries[k])}
        BY <1>1, <4>1
      <4>3. QED
        BY <1>3, <4>1, <4>2
    <3>3. QED
      BY <3>1, <3>2
  <2>3. QED
    BY <2>1, <2>2
<1>6. ASSUME NEW i \in 1..(len + 1)
      PROVE  longer[i] = entries[there[i]]
  <2>1. CASE i = len + 1
    BY <1>2, <1>3, <2>1
  <2>2. CASE i # len + 1
    <3>1. i \in 1..len
      BY <1>2, <2>2
    <3>2. QED
      BY <1>1, <1>2, <1>3, <3>1
  <2>3. QED
    BY <2>1, <2>2
<1>7. PlayableOf(longer, entries, n)
  <2>1. 1..Len(longer) = 1..(len + 1)
    BY <1>2
  <2>2. there \in [1..Len(longer) -> 1..n]
    BY <1>3, <2>1
  <2>3. \A i, j \in 1..Len(longer) : i < j => there[i] < there[j]
    BY <1>4, <2>1
  <2>4. {m \in 1..n : Playable(entries[m])} = {there[i] : i \in 1..Len(longer)}
    BY <1>5, <2>1
  <2>5. \A i \in 1..Len(longer) : longer[i] = entries[there[i]]
    BY <1>6, <2>1
  <2>6. QED
    BY <2>2, <2>3, <2>4, <2>5 DEF PlayableOf
<1>8. QED
  BY <1>7 DEF longer

LEMMA NoMoreIsPlayable ==
    ASSUME NEW S, NEW entries \in Seq(S), NEW n \in 1..Len(entries), NEW tracks \in Seq(S),
           PlayableOf(tracks, entries, n - 1), ~Playable(entries[n])
    PROVE  PlayableOf(tracks, entries, n)
<1>1. PICK place \in [1..Len(tracks) -> 1..(n - 1)] :
         /\ \A i, j \in 1..Len(tracks) : i < j => place[i] < place[j]
         /\ {m \in 1..(n - 1) : Playable(entries[m])} = {place[i] : i \in 1..Len(tracks)}
         /\ \A i \in 1..Len(tracks) : tracks[i] = entries[place[i]]
  BY DEF PlayableOf
<1>2. place \in [1..Len(tracks) -> 1..n]
  OBVIOUS
<1>3. {m \in 1..n : Playable(entries[m])} = {m \in 1..(n - 1) : Playable(entries[m])}
  OBVIOUS
<1>4. QED
  BY <1>1, <1>2, <1>3 DEF PlayableOf

LEMMA PlayablesCorrect ==
    ASSUME NEW S, NEW entries \in Seq(S)
    PROVE  /\ Playables(entries) \in Seq(S)
           /\ Len(Playables(entries)) <= Len(entries)
           /\ AreThePlayable(Playables(entries), entries)
<1> DEFINE L == Len(entries)
<1>0. L \in Nat
  BY LenProperties
<1>1. PICK kept : Keeps(entries, kept, L) /\ Playables(entries) = kept[L]
  BY <1>0, KeepingIsDefined
<1>2. \A n \in 0..L : kept[n] = Kept(entries, kept, n)
  BY <1>1 DEF Keeps
<1> DEFINE Good(n) == /\ kept[n] \in Seq(S) /\ Len(kept[n]) <= n
                      /\ PlayableOf(kept[n], entries, n)
           Failing == {n \in 0..L : ~Good(n)}
<1>3. Good(0)
  <2>1. kept[0] = <<>>
    BY <1>0, <1>2 DEF Kept
  <2>2. <<>> \in Seq(S) /\ Len(<<>>) = 0
    BY EmptySeq
  <2>3. PlayableOf(<<>>, entries, 0)
    <3> DEFINE nowhere == [i \in 1..0 |-> i]
    <3>1. 1..Len(<<>>) = 1..0 /\ nowhere \in [1..0 -> 1..0]
      BY <2>2
    <3>2. \A m \in 1..0 : FALSE
      OBVIOUS
    <3> HIDE DEF nowhere
    <3>3. {m \in 1..0 : Playable(entries[m])} = {nowhere[i] : i \in 1..Len(<<>>)}
      BY <3>1, <3>2
    <3>4. QED
      BY <3>1, <3>2, <3>3 DEF PlayableOf
  <2>4. QED
    BY <2>1, <2>2, <2>3
<1>4. ASSUME NEW n \in 1..L, Good(n - 1)
      PROVE  Good(n)
  <2>1. n \in 0..L /\ n # 0 /\ entries[n] \in S
    BY ElementOfSeq
  <2>2. CASE Playable(entries[n])
    <3>1. kept[n] = Append(kept[n - 1], entries[n])
      BY <1>2, <2>1, <2>2 DEF Kept
    <3>2. kept[n] \in Seq(S) /\ Len(kept[n]) <= n
      BY <1>4, <2>1, <3>1, AppendProperties, LenProperties
    <3>3. QED
      BY <1>4, <2>2, <3>1, <3>2, OneMoreIsPlayable
  <2>3. CASE ~Playable(entries[n])
    <3>1. kept[n] = kept[n - 1]
      BY <1>2, <2>1, <2>3 DEF Kept
    <3>2. Len(kept[n]) <= n
      BY <1>4, <3>1, LenProperties
    <3>3. QED
      BY <1>4, <2>3, <3>1, <3>2, NoMoreIsPlayable
  <2>4. QED
    BY <2>2, <2>3
<1>5. Failing = {}
  <2>1. Failing \in SUBSET (0..L) /\ 0 \notin Failing
    BY <1>3
  <2>2. ASSUME NEW n \in 1..L, n - 1 \notin Failing
        PROVE  n \notin Failing
    <3>1. n - 1 \in 0..L
      BY <1>0
    <3>2. Good(n - 1)
      BY <2>2, <3>1
    <3>3. QED
      BY <1>4, <3>2
  <2> HIDE DEF Failing
  <2>3. QED
    BY <1>0, <2>1, <2>2, NothingFails
<1>6. Good(L)
  BY <1>0, <1>5
<1>7. QED
  BY <1>1, <1>6 DEF PlayableOf, AreThePlayable, PlayablePlaces

(* The answer of a search or a playlist to what was printed. *)
AnswersWhatIsPlayable(answer, output) ==
    /\ answer.ok <=> Legible(output) /\ PlayablePlaces(output.entries) # {}
    /\ answer.ok => /\ AreThePlayable(answer.tracks, output.entries)
                    /\ answer.total >= Len(answer.tracks)

(* The answer of playable_metadata to the entries of legible output. *)
GivesThePlayable(answer, entries) ==
    /\ answer.ok <=> PlayablePlaces(entries) # {}
    /\ answer.ok => /\ AreThePlayable(answer.tracks, entries)
                    /\ answer.total >= Len(answer.tracks)

LEMMA PlayableMetadataCorrect ==
    ASSUME NEW entries \in Seq(STRING), NEW total \in Nat, total >= Len(entries), entries # <<>>
    PROVE  GivesThePlayable(PlayableMetadata(entries, total), entries)
<1> DEFINE tracks == Playables(entries)
<1>1. /\ tracks \in Seq(STRING) /\ Len(tracks) \in Nat
      /\ Len(tracks) <= Len(entries) /\ Len(entries) \in Nat
      /\ AreThePlayable(tracks, entries)
  BY PlayablesCorrect, LenProperties
<1>2. tracks = <<>> <=> PlayablePlaces(entries) = {}
  <2>1. PICK place \in [1..Len(tracks) -> 1..Len(entries)] :
           PlayablePlaces(entries) = {place[i] : i \in 1..Len(tracks)}
    BY <1>1 DEF AreThePlayable
  <2>2. tracks = <<>> <=> Len(tracks) = 0
    BY <1>1, EmptySeq
  <2> HIDE DEF tracks
  <2>3. CASE Len(tracks) = 0
    BY <2>1, <2>2, <2>3
  <2>4. CASE Len(tracks) # 0
    <3>1. 1 \in 1..Len(tracks)
      BY <1>1, <2>4
    <3>2. place[1] \in PlayablePlaces(entries)
      BY <2>1, <3>1
    <3>3. QED
      BY <2>2, <2>4, <3>2
  <2>5. QED
    BY <2>3, <2>4
<1>3. PlayableMetadata(entries, total) =
         IF tracks = <<>> THEN Failure ELSE Success(tracks, total)
  BY DEF PlayableMetadata
<1> HIDE DEF tracks
<1>4. CASE tracks = <<>>
  <2>1. Failure.tracks = tracks /\ Failure.ok = FALSE /\ Failure.total = 0 /\ Len(tracks) = 0
    BY <1>4, EmptySeq DEF Failure
  <2>2. QED
    BY <1>1, <1>2, <1>3, <1>4, <2>1 DEF GivesThePlayable
<1>5. CASE tracks # <<>>
  <2> DEFINE answer == Success(tracks, total)
  <2>1. answer.tracks = tracks /\ answer.ok = TRUE /\ answer.total = total
    BY DEF Success
  <2>2. total >= Len(tracks)
    BY <1>1
  <2> HIDE DEF answer
  <2>3. GivesThePlayable(answer, entries)
    BY <1>1, <1>2, <1>5, <2>1, <2>2 DEF GivesThePlayable
  <2>4. QED
    BY <1>3, <1>5, <2>3 DEF answer
<1>6. QED
  BY <1>4, <1>5

LEMMA JudgeCorrect ==
    ASSUME NEW output \in Printed, NEW operation \in {"Search", "Playlist"}
    PROVE  AnswersWhatIsPlayable(Judge(operation, output), output)
<1> DEFINE entries == output.entries
<1>1. entries \in Seq(STRING) /\ output.count \in {None} \cup Nat
  <2>1. CASE output \in Outputs
    BY <2>1, ResolverAssumption
  <2>2. CASE output = Quiet
    <3>1. output.entries = <<>> /\ output.count = None
      BY <2>2 DEF Quiet
    <3>2. QED
      BY <3>1, EmptySeq
  <2>3. QED
    BY <2>1, <2>2 DEF Printed
<1>2. Len(entries) \in Nat
  BY <1>1, LenProperties
<1>3. CASE ~Complete(output)
  <2>1. Judge(operation, output) = Failure
    BY <1>3 DEF Judge
  <2>2. Failure.ok = FALSE
    BY DEF Failure
  <2>3. entries = <<>> => PlayablePlaces(entries) = {}
    BY EmptySeq DEF PlayablePlaces
  <2>4. ~(Legible(output) /\ PlayablePlaces(entries) # {})
    BY <1>3, <2>3 DEF Complete
  <2>5. QED
    BY <2>1, <2>2, <2>4 DEF AnswersWhatIsPlayable
<1>4. CASE Complete(output)
  <2>1. Legible(output) /\ entries # <<>>
    BY <1>4 DEF Complete
  <2>2. /\ operation = "Search" =>
              Judge(operation, output) = PlayableMetadata(entries, Len(entries))
        /\ operation = "Playlist" =>
              Judge(operation, output) = PlayableMetadata(entries, ListLength(output))
    BY <1>4 DEF Judge
  <2>3. ListLength(output) \in Nat /\ ListLength(output) >= Len(entries)
    BY <1>1, <1>2 DEF ListLength
  <2> HIDE DEF entries
  <2>4. \A total \in Nat : total >= Len(entries) =>
           GivesThePlayable(PlayableMetadata(entries, total), entries)
    BY <1>1, <2>1, PlayableMetadataCorrect
  <2>5. GivesThePlayable(Judge(operation, output), entries)
    BY <1>2, <2>2, <2>3, <2>4
  <2>6. QED
    BY <2>1, <2>5 DEF AnswersWhatIsPlayable, GivesThePlayable, entries
<1>5. QED
  BY <1>3, <1>4

(* A call whose process has ended gets its answer from what it printed. *)
LEMMA OthersCallsStay ==
    ASSUME TypeOK, NEW caller \in Callers, CallChanges(caller), NEW other \in Callers \ {caller}
    PROVE  calls'[other] = calls[other]
BY DEF CallChanges

LEMMA EndedCallsAreJudged ==
    ASSUME TypeOK, ChildrenOK, NEW caller \in Callers, CallStep(caller), At(caller, "Waiting"),
           Child(caller, "Gone"), calls'[caller].pc = "Answered"
    PROVE  calls'[caller].answer = Judge(Operation[caller], calls[caller].output)
<1>1. CASE Join(caller)
  <2> DEFINE answer == Judge(Operation[caller], calls[caller].output)
  <2>1. calls' = [calls EXCEPT ![caller] = Answered(answer)]
    BY <1>1 DEF Join, Return
  <2> HIDE DEF answer
  <2>2. calls'[caller] = Answered(answer)
    BY <2>1 DEF TypeOK
  <2>3. calls'[caller].answer = answer
    BY <2>2 DEF Answered, NoCall
  <2>4. QED
    BY <2>3 DEF answer
<1>2. CASE Drop(caller)
  <2>1. calls'[caller].pc = "Dropped"
    BY <1>2 DEF Drop, TypeOK, CallRecord
  <2>2. QED
    BY <2>1
<1>3. CASE DescendantEnds(caller)
  <2>1. calls'[caller].pc = calls[caller].pc
    BY <1>3 DEF DescendantEnds, TypeOK, CallRecord
  <2>2. QED
    BY <2>1 DEF At
<1>4. QED
  BY <1>1, <1>2, <1>3 DEF CallStep, Call, TakePermit, DeadlinePasses, GiveUp, ChildEnds, At, Child

(* What can be played of a search or a playlist is answered, all of it and *)
(* in order, however long the list; it fails when nothing can be played,   *)
(* when a line is no entry and when the output exceeds its limit, and at   *)
(* no other time (run_yt_dlp and playable_metadata in                      *)
(* src/src/source/youtube.rs).                                             *)
THEOREM PlayableCorrect == Spec => ListsAnswerWhatIsPlayable
<1> DEFINE Judged(caller) ==
              /\ At(caller, "Waiting") /\ Child(caller, "Gone")
              /\ calls'[caller].pc = "Answered"
              /\ Operation[caller] \in {"Search", "Playlist"}
           Step == \A caller \in Callers : Judged(caller) =>
                      AnswersWhatIsPlayable(calls'[caller].answer, calls[caller].output)
<1>1. IInv /\ [Next]_vars => Step \/ UNCHANGED resolver
  <2> SUFFICES ASSUME IInv, Next, NEW caller \in Callers, Judged(caller)
               PROVE  AnswersWhatIsPlayable(calls'[caller].answer, calls[caller].output)
    BY DEF vars
  <2>1. TypeOK /\ ChildrenOK /\ OneSearch
    BY DEF IInv
  <2>2. calls' # calls
    BY DEF At
  <2>3. ASSUME NEW other \in Callers, CallChanges(other), calls[other].pc # "Waiting"
        PROVE  FALSE
    BY <2>1, <2>3, OthersCallsStay DEF At
  <2>4. CallStep(caller)
    <3>1. ASSUME NEW other \in Callers, CallStep(other)
          PROVE  other = caller
      BY <2>1, <3>1, StepsChange, OthersCallsStay DEF At
    <3>2. ASSUME NEW other \in Callers, Ask(other) \/ Decline(other) \/ Leave(other)
          PROVE  FALSE
      BY <2>1, <2>3, <3>2, AskingChanges
    <3>3. QED
      BY <2>2, <3>1, <3>2, SuggestionsAssumption
         DEF Next, Type, WarmerAsks, WarmerReturns, Store, OtherCall, resolver
  <2>5. calls'[caller].answer = Judge(Operation[caller], calls[caller].output)
    BY <2>1, <2>4, EndedCallsAreJudged
  <2>6. calls[caller].output \in Printed
    BY <2>1 DEF TypeOK, CallRecord
  <2>7. QED
    BY <2>5, <2>6, JudgeCorrect
<1>2. Step => \A caller \in Callers :
         LET output == calls[caller].output
             answer == calls'[caller].answer
         IN  /\ At(caller, "Waiting") /\ Child(caller, "Gone") /\ calls'[caller].pc = "Answered"
             /\ Operation[caller] \in {"Search", "Playlist"}
             => /\ answer.ok <=> Legible(output) /\ PlayablePlaces(output.entries) # {}
                /\ answer.ok => /\ AreThePlayable(answer.tracks, output.entries)
                                /\ answer.total >= Len(answer.tracks)
  BY DEF AnswersWhatIsPlayable
<1>3. QED
  BY <1>1, <1>2, IInvAlways, PTL DEF Spec, ListsAnswerWhatIsPlayable

=============================================================================
