----------------------------- MODULE Suggestions -----------------------------
(***************************************************************************)
(* Suggestions for a query that is still being typed                       *)
(* (src/src/suggest.rs), in the company of everything else that asks the   *)
(* resolver.                                                               *)
(*                                                                         *)
(* A query that has been searched is answered from memory.  Any other is   *)
(* searched in the background, if no such search is running: the permit    *)
(* for one is tried for, never waited for, and it is given back before the *)
(* result is stored.                                                       *)
(***************************************************************************)
EXTENDS Resolver

CONSTANTS
    Queries,     \* what may be typed, as sequences of letters
    Shortest,    \* the lower bound of SEARCHABLE_CHARS
    MaxCached,   \* MAX_CACHED
    Warmers      \* bound: the background tasks there may be at once

ASSUME SuggestionsAssumption ==
    /\ \A query \in Queries : query \in Seq(STRING)
    /\ Shortest \in Nat /\ MaxCached \in Nat \ {0}
    /\ Warmers \subseteq Callers \ Droppable
    /\ \A warmer \in Warmers : Operation[warmer] = "Search"

VARIABLES
    searched,   \* the queries remembered, the oldest first
    warming,    \* the permit for a background search, when it is free
    tasks       \* what each background task is searching for

memory == <<searched, warming, tasks>>
vars == <<resolver, memory>>

NoTask == [pc |-> "None", key |-> <<>>]

Init ==
    /\ ResolverInit
    /\ searched = <<>> /\ warming = TRUE
    /\ tasks = [warmer \in Warmers |-> NoTask]

-----------------------------------------------------------------------------
(* for_query drops what is older than CACHE_TTL before it looks: any       *)
(* number of the oldest searches, for all the model knows of time.         *)
Unexpired == {SubSeq(searched, first, Len(searched)) : first \in 1..Len(searched) + 1}

(* warm: a background task, if the permit for one is free. *)
Warm(query) ==
    IF warming
    THEN /\ \E warmer \in Warmers :
               /\ tasks[warmer].pc = "None" /\ At(warmer, "Idle")
               /\ tasks' = [tasks EXCEPT ![warmer] = [pc |-> "Searching", key |-> query]]
         /\ warming' = FALSE
    ELSE UNCHANGED <<warming, tasks>>

(* for_query: a keystroke.  What it is offered is read from the memory and *)
(* changes nothing.                                                        *)
Type(query) ==
    /\ Len(query) >= Shortest
    /\ searched' \in Unexpired
    /\ IF query \in ToSet(searched') THEN UNCHANGED <<warming, tasks>> ELSE Warm(query)
    /\ UNCHANGED resolver

(* Mutant: the permit is given back as soon as the search is under way. *)
WarmerAsksFreely(warmer) ==
    /\ tasks[warmer].pc = "Searching"
    /\ Ask(warmer) \/ Decline(warmer)
    /\ warming' = TRUE
    /\ UNCHANGED <<searched, tasks>>

WarmerAsks(warmer) ==
    /\ tasks[warmer].pc = "Searching"
    /\ Ask(warmer) \/ Decline(warmer)
    /\ UNCHANGED memory

(* The search is over: another may begin before this one is stored. *)
WarmerReturns(warmer) ==
    /\ tasks[warmer].pc = "Searching" /\ At(warmer, "Answered")
    /\ tasks' = [tasks EXCEPT ![warmer].pc = "Storing"]
    /\ warming' = TRUE
    /\ UNCHANGED <<resolver, searched>>

(* Room for one more, at the expense of the oldest, and the result last; a *)
(* key already there moves.                                                *)
Remembered(key) ==
    LET excess == Len(searched) - (MaxCached - 1)
        kept == SubSeq(searched, IF excess > 0 THEN excess + 1 ELSE 1, Len(searched))
    IN  Append(SelectSeq(kept, LAMBDA other : other # key), key)

(* The result is stored; a failed search is not worth remembering. *)
Store(warmer) ==
    /\ tasks[warmer].pc = "Storing"
    /\ searched' = IF calls[warmer].answer.ok THEN Remembered(tasks[warmer].key)
                   ELSE searched
    /\ tasks' = [tasks EXCEPT ![warmer] = NoTask]
    /\ Leave(warmer)
    /\ UNCHANGED warming

OtherCall(caller) == Ask(caller) \/ Decline(caller) \/ Leave(caller)

Next ==
    \/ \E query \in Queries : Type(query)
    \/ \E warmer \in Warmers : WarmerAsks(warmer) \/ WarmerReturns(warmer) \/ Store(warmer)
    \/ \E caller \in Callers : CallStep(caller) /\ UNCHANGED memory
    \/ \E caller \in Callers \ Warmers : OtherCall(caller) /\ UNCHANGED memory

(* The tasks that have been spawned run; nobody has to type or to ask. *)
Fairness ==
    /\ CallFairness
    /\ \A warmer \in Warmers :
          WF_vars(WarmerAsks(warmer)) /\ WF_vars(WarmerReturns(warmer)) /\ WF_vars(Store(warmer))

Spec == Init /\ [][Next]_vars /\ Fairness

-----------------------------------------------------------------------------
(* However many people type, their searches hold one place at most in the  *)
(* queue for the resolver and one of its permits.  A burst of typing costs *)
(* a track no more than a keystroke does; it may cost it that much: see    *)
(* TypingDelaysNoTrack.                                                    *)
TypingHoldsOneSearch ==
    Cardinality({warmer \in Warmers : calls[warmer].pc \in Holding \cup {"Queued"}}) <= 1

(* A track is never kept from the resolver by a search for what somebody   *)
(* typed: "typing must not be able to queue up work, and must never be the *)
(* reason a track waits to start" (src/src/suggest.rs:55-56), "a burst of  *)
(* typing never leaves a track waiting behind it"                          *)
(* (src/docs/operator-guide.md:325-326).  The code does not keep this: a   *)
(* search that is under way has one of the permits tracks are resolved     *)
(* with.  TypingDelay.cfg shows a track first in line with none left.      *)
TypingDelaysNoTrack ==
    \A caller \in Callers : Operation[caller] = "Resolve" =>
        ~ /\ At(caller, "Queued") /\ Head(queue) = caller /\ permits = 0
          /\ \E warmer \in Warmers : calls[warmer].pc \in Holding

=============================================================================
