-------------------------- MODULE InteractionsProofs --------------------------
(***************************************************************************)
(* Theorems about Interactions, for any number of interactions, people,    *)
(* channels and tracks, and any bounds.                                    *)
(***************************************************************************)
EXTENDS Interactions, SequenceTheorems, FiniteSetTheorems, TLAPS

Phases == {"Absent", "Arrived", "Deferred", "Authorized", "Storing", "Queueing", "Answering",
           "Refusing", "Withdrawn", "Responding", "Announcing", "Done"}
Messages == {"Nothing", "Thinking", "Picker", "Answer", "Refusal"}
Rooms == VoiceChannels \cup {None}

CallRecord ==
    [kind : Kinds \cup {"None", "Select"}, user : Users \cup {None},
     channel : {request.channel : request \in Requests} \cup {None},
     voice : Rooms, tracks : Seq(Tracks), search : Calls \cup {0}]

TypeOK ==
    /\ call \in [Calls -> CallRecord]
    /\ pc \in [Calls -> Phases]
    /\ did \in [Calls -> Seq(Tracks)]
    /\ recorded \in [Calls -> Seq(BOOLEAN)]
    /\ publicly \in [Calls -> Messages] /\ privately \in [Calls -> Messages]
    /\ searches \subseteq Calls
    /\ session \in [live : BOOLEAN, room : Rooms, length : Nat]

(* What each kind of interaction comes to. *)
WayOK(i) ==
    /\ pc[i] = "Arrived" => Kind(i) \in Kinds
    /\ pc[i] = "Deferred" => Kind(i) \in (Kinds \ {"Suggest"}) \cup {"Select"}
    /\ pc[i] = "Authorized" => Kind(i) \in {"Queue", "Words", "Change", "Look", "Select"}
    /\ pc[i] = "Storing" => Kind(i) = "Words"
    /\ pc[i] = "Queueing" => Kind(i) \in {"Queue", "Select"} /\ call[i].tracks # <<>>
    /\ pc[i] \in {"Responding", "Announcing"} => Kind(i) = "Select"
    /\ pc[i] \in {"Answering", "Refusing", "Withdrawn"} => Kind(i) \in Kinds

(* What has been queued, and what is counted, by when. *)
QueuedOK(i) ==
    /\ did[i] # <<>> =>
          /\ pc[i] \in {"Answering", "Responding", "Announcing", "Done"}
          /\ Kind(i) = "Select" => did[i] = call[i].tracks
    /\ pc[i] = "Announcing" => did[i] # <<>>
    /\ pc[i] = "Answering" /\ Kind(i) = "Queue" => did[i] # <<>>
    /\ recorded[i] # <<>> => pc[i] \in {"Announcing", "Done"}

(* What is to be seen of it, and what that means. *)
SeenOK(i) ==
    /\ pc[i] \in {"Absent", "Arrived"} => publicly[i] = "Nothing"
    /\ publicly[i] \notin {"Picker", "Refusal"}
    /\ publicly[i] = "Thinking" => Kind(i) \in {"Queue", "Change"}
    /\ publicly[i] = "Thinking" /\ pc[i] = "Done" => recorded[i] = <<FALSE>>
    /\ publicly[i] = "Answer" /\ Kind(i) # "Change" => did[i] # <<>>
    /\ privately[i] = "Picker" => pc[i] = "Done"

(* A selection is about a search that is over and done with. *)
SelectionOK(i) ==
    Kind(i) = "Select" =>
        /\ call[i].search \in Calls
        /\ pc[call[i].search] = "Done"
        /\ \E track \in ToSet(call[call[i].search].tracks) : call[i].tracks = <<track>>

(* It claims its search when it has found it fit to queue from. *)
Claims(i) == Kind(i) = "Select" /\ (pc[i] = "Queueing" \/ did[i] # <<>>)
ClaimOK(i) ==
    Claims(i) =>
        /\ call[i].search \notin searches
        /\ call[i].user = call[call[i].search].user
        /\ call[i].voice = call[call[i].search].voice

CallOK(i) == WayOK(i) /\ QueuedOK(i) /\ SeenOK(i) /\ SelectionOK(i) /\ ClaimOK(i)

(* No search is claimed twice. *)
OneClaim ==
    \A i, j \in Calls : Claims(i) /\ Claims(j) /\ call[i].search = call[j].search => i = j

IInv == TypeOK /\ (\A i \in Calls : CallOK(i)) /\ OneClaim

-----------------------------------------------------------------------------
(* The first of a list are of it, and all of it when there are few.        *)
LEMMA FirstProperties ==
    ASSUME NEW S, NEW s \in Seq(S), NEW n \in Nat \ {0}
    PROVE  /\ First(s, n) \in Seq(S)
           /\ s # <<>> => First(s, n) # <<>>
           /\ Len(s) = 1 => First(s, n) = s
<1> DEFINE m == IF Len(s) < n THEN Len(s) ELSE n
<1>1. m \in Nat /\ m <= Len(s) /\ First(s, n) = SubSeq(s, 1, m)
  BY DEF First
<1>2. /\ SubSeq(s, 1, m) \in Seq(S) /\ Len(SubSeq(s, 1, m)) = m
      /\ \A k \in 1..m : SubSeq(s, 1, m)[k] = s[k]
  BY <1>1
<1>3. s # <<>> => m >= 1
  BY EmptySeq
<1>4. Len(s) = 1 => m = 1
  OBVIOUS
<1>5. ASSUME Len(s) = 1
      PROVE  SubSeq(s, 1, m) = s
  BY <1>2, <1>4, <1>5, SeqEqual
<1>6. QED
  BY <1>1, <1>2, <1>3, <1>5

LEMMA InitIInv ==
    ASSUME Init
    PROVE  IInv
<1>1. <<>> \in Seq(Tracks) /\ <<>> \in Seq(BOOLEAN)
  BY EmptySeq
<1>2. TypeOK
  BY <1>1 DEF Init, TypeOK, NoCall, CallRecord, Phases, Messages, Rooms
<1>3. ASSUME NEW i \in Calls
      PROVE  CallOK(i) /\ ~Claims(i)
  BY <1>3 DEF Init, NoCall, CallOK, WayOK, QueuedOK, SeenOK, SelectionOK, ClaimOK, Claims, Kind
<1>4. QED
  BY <1>2, <1>3 DEF IInv, OneClaim

-----------------------------------------------------------------------------
(* A step of one handler leaves the other interactions as they are, but    *)
(* for a picker that it takes away.                                        *)
Same(j) ==
    /\ call'[j] = call[j] /\ pc'[j] = pc[j] /\ did'[j] = did[j] /\ recorded'[j] = recorded[j]
    /\ publicly'[j] = publicly[j]
    /\ privately'[j] = "Picker" => privately[j] = "Picker"

(* So only what it does to its own needs looking at, as long as it is not  *)
(* done and neither searches nor claims come back.                         *)
LEMMA OthersUndisturbed ==
    ASSUME IInv, NEW i \in Calls, TypeOK', pc[i] # "Done",
           \A j \in Calls \ {i} : Same(j),
           WayOK(i)', QueuedOK(i)', SeenOK(i)', SelectionOK(i)', ClaimOK(i)',
           searches' \subseteq searches \cup {i},
           Claims(i)' => \A j \in Calls \ {i} :
                            Claims(j) => call[j].search # call'[i].search
    PROVE  IInv'
<1>1. ASSUME NEW j \in Calls \ {i}
      PROVE  CallOK(j)' /\ (Claims(j)' <=> Claims(j))
  <2>1. Same(j) /\ CallOK(j)
    BY DEF IInv
  <2>2. WayOK(j)' /\ QueuedOK(j)' /\ SeenOK(j)'
    BY <2>1 DEF CallOK, WayOK, QueuedOK, SeenOK, Kind, Same
  <2>3. Claims(j)' <=> Claims(j)
    BY <2>1 DEF Claims, Kind, Same
  <2>4. ASSUME Kind(j) = "Select"
        PROVE  call[j].search \in Calls \ {i} /\ Same(call[j].search)
    BY <2>1, <2>4 DEF CallOK, SelectionOK
  <2>5. SelectionOK(j)'
    BY <2>1, <2>4 DEF CallOK, SelectionOK, Kind, Same
  <2>6. ClaimOK(j)'
    BY <2>1, <2>3, <2>4 DEF CallOK, ClaimOK, Claims, Kind, Same
  <2>7. QED
    BY <2>2, <2>3, <2>5, <2>6 DEF CallOK
<1>2. \A j \in Calls : CallOK(j)'
  BY <1>1 DEF CallOK
<1>3. OneClaim'
  <2> SUFFICES ASSUME NEW j \in Calls, NEW k \in Calls, Claims(j)', Claims(k)',
                      call'[j].search = call'[k].search
               PROVE  j = k
    BY DEF OneClaim
  <2>1. CASE j # i /\ k # i
    BY <1>1, <2>1 DEF IInv, OneClaim, Same
  <2>2. CASE j = i /\ k # i
    BY <1>1, <2>2 DEF Same
  <2>3. CASE j # i /\ k = i
    BY <1>1, <2>3 DEF Same
  <2>4. QED
    BY <2>1, <2>2, <2>3
<1>4. QED
  BY <1>2, <1>3 DEF IInv

(* Most steps change neither what is asked for nor what is claimed. *)
LEMMA SelectionUndisturbed ==
    ASSUME IInv, NEW i \in Calls, TypeOK', pc[i] # "Done",
           \A j \in Calls \ {i} : Same(j),
           WayOK(i)', QueuedOK(i)', SeenOK(i)',
           call'[i].kind = call[i].kind, call'[i].search = call[i].search,
           call'[i].user = call[i].user,
           Claims(i) => call'[i].voice = call[i].voice,
           Kind(i) = "Select" => call'[i].tracks = call[i].tracks,
           searches' \subseteq searches,
           Claims(i)' => Claims(i)
    PROVE  IInv'
<1>1. CallOK(i)
  BY DEF IInv
<1>2. ASSUME Kind(i) = "Select"
      PROVE  call[i].search \in Calls \ {i} /\ Same(call[i].search)
  BY <1>1, <1>2 DEF CallOK, SelectionOK
<1>3. SelectionOK(i)'
  BY <1>1, <1>2 DEF CallOK, SelectionOK, Kind, Same
<1>4. ClaimOK(i)'
  BY <1>1, <1>2 DEF CallOK, ClaimOK, Claims, Kind, Same
<1>5. Claims(i)' => \A j \in Calls \ {i} : Claims(j) => call[j].search # call'[i].search
  BY DEF IInv, OneClaim
<1>6. QED
  BY <1>3, <1>4, <1>5, OthersUndisturbed

-----------------------------------------------------------------------------
(* Interactions arrive.                                                    *)
LEMMA ReceiveKeepsIInv ==
    ASSUME IInv, NEW i \in Calls, Receive(i)
    PROVE  IInv'
<1>t. TypeOK /\ CallOK(i)
  BY DEF IInv
<1>1. PICK request \in Requests :
         call' = [call EXCEPT ![i] = [@ EXCEPT !.kind = request.kind, !.user = request.user,
                                               !.channel = request.channel]]
  BY DEF Receive
<1>2. /\ pc[i] = "Absent" /\ pc' = [pc EXCEPT ![i] = "Arrived"]
      /\ did' = did /\ recorded' = recorded /\ publicly' = publicly /\ privately' = privately
      /\ searches' = searches /\ session' = session
  BY DEF Receive, Fresh, Go, discord, picker
<1>3. request.kind \in Kinds /\ request.user \in Users
  BY InteractionsAssumption DEF Users
<1>4. /\ call'[i].kind = request.kind
      /\ call'[i] \in CallRecord
  <2>1. call[i] \in CallRecord
    BY <1>t DEF TypeOK
  <2>2. call'[i] = [call[i] EXCEPT !.kind = request.kind, !.user = request.user,
                                   !.channel = request.channel]
    BY <1>t, <1>1 DEF TypeOK
  <2>3. request.channel \in {wish.channel : wish \in Requests}
    OBVIOUS
  <2>4. QED
    BY <1>3, <2>1, <2>2, <2>3 DEF CallRecord
<1>5. TypeOK'
  BY <1>t, <1>1, <1>2, <1>4 DEF TypeOK, Phases
<1>6. \A j \in Calls \ {i} : Same(j)
  BY <1>t, <1>1, <1>2 DEF TypeOK, Same
<1>7. pc'[i] = "Arrived" /\ did[i] = <<>> /\ recorded[i] = <<>> /\ publicly[i] = "Nothing"
  BY <1>t, <1>2 DEF TypeOK, CallOK, QueuedOK, SeenOK
<1>8. Kind(i)' \in Kinds /\ "Select" \notin Kinds
  BY <1>3, <1>4 DEF Kind, Kinds
<1>9. WayOK(i)' /\ QueuedOK(i)' /\ SeenOK(i)'
  BY <1>t, <1>2, <1>7, <1>8 DEF WayOK, QueuedOK, SeenOK, CallOK
<1>10. SelectionOK(i)' /\ ClaimOK(i)' /\ ~Claims(i)'
  BY <1>8 DEF SelectionOK, ClaimOK, Claims
<1>11. QED
  BY <1>2, <1>5, <1>6, <1>9, <1>10, OthersUndisturbed

(* A button can be pressed on the picker of a search that is done, so a    *)
(* selection is about such a one.                                          *)
LEMMA PressKeepsIInv ==
    ASSUME IInv, NEW i \in Calls, Press(i)
    PROVE  IInv'
<1>t. TypeOK /\ CallOK(i)
  BY DEF IInv
<1>0. PICK s \in Calls, user \in Users :
         /\ Sees(user, s)
         /\ \E track \in ToSet(call[s].tracks) :
               call' = [call EXCEPT ![i] =
                   [kind |-> "Select", user |-> user, channel |-> call[s].channel,
                    voice |-> None, tracks |-> <<track>>, search |-> s]]
  BY DEF Press
<1>1. PICK track \in ToSet(call[s].tracks) :
         call' = [call EXCEPT ![i] =
             [kind |-> "Select", user |-> user, channel |-> call[s].channel,
              voice |-> None, tracks |-> <<track>>, search |-> s]]
  BY <1>0
<1>2. /\ pc[i] = "Absent" /\ pc' = [pc EXCEPT ![i] = "Deferred"]
      /\ did' = did /\ recorded' = recorded /\ publicly' = publicly /\ privately' = privately
      /\ searches' = searches /\ session' = session
  BY DEF Press, Fresh, Go, discord, picker
<1>3. pc[s] = "Done" /\ s # i
  BY <1>0, <1>2 DEF IInv, CallOK, SeenOK, Sees
<1>4. track \in Tracks
  <2>1. call[s].tracks \in Seq(Tracks)
    BY <1>t DEF TypeOK, CallRecord
  <2>2. QED
    BY <1>1, <2>1 DEF ToSet
<1>5. call'[i] = [kind |-> "Select", user |-> user, channel |-> call[s].channel,
                  voice |-> None, tracks |-> <<track>>, search |-> s]
  BY <1>t, <1>1 DEF TypeOK
<1>6. call'[i] \in CallRecord
  <2>1. <<track>> \in Seq(Tracks)
    BY <1>4
  <2>2. call[s].channel \in {request.channel : request \in Requests} \cup {None}
    BY <1>t DEF TypeOK, CallRecord
  <2>3. QED
    BY <1>5, <2>1, <2>2 DEF CallRecord, Rooms
<1>7. TypeOK'
  BY <1>t, <1>1, <1>2, <1>5, <1>6 DEF TypeOK, Phases
<1>8. \A j \in Calls \ {i} : Same(j)
  BY <1>t, <1>1, <1>2 DEF TypeOK, Same
<1>9. pc'[i] = "Deferred" /\ did[i] = <<>> /\ recorded[i] = <<>> /\ publicly[i] = "Nothing"
  BY <1>t, <1>2 DEF TypeOK, CallOK, QueuedOK, SeenOK
<1>10. WayOK(i)' /\ QueuedOK(i)' /\ SeenOK(i)'
  BY <1>t, <1>2, <1>5, <1>9 DEF WayOK, QueuedOK, SeenOK, CallOK, Kind
<1>11. ClaimOK(i)' /\ ~Claims(i)'
  BY <1>2, <1>9 DEF ClaimOK, Claims
<1>12. SelectionOK(i)'
  BY <1>1, <1>3, <1>5, <1>8 DEF SelectionOK, Same
<1>13. QED
  BY <1>2, <1>7, <1>8, <1>10, <1>11, <1>12, OthersUndisturbed

-----------------------------------------------------------------------------
(* What is shown and counted.                                              *)
LEMMA ShownInChannel ==
    ASSUME TypeOK, NEW i \in Calls, NEW message \in Messages, InChannel(i, message)
    PROVE  /\ publicly' \in [Calls -> Messages] /\ privately' = privately
           /\ publicly'[i] = message
           /\ \A j \in Calls \ {i} : publicly'[j] = publicly[j]
BY DEF TypeOK, InChannel

LEMMA ShownToRequester ==
    ASSUME TypeOK, NEW i \in Calls, NEW message \in Messages, ToRequester(i, message)
    PROVE  /\ privately' \in [Calls -> Messages] /\ publicly' = publicly
           /\ privately'[i] = message
           /\ \A j \in Calls \ {i} : privately'[j] = privately[j]
BY DEF TypeOK, ToRequester

LEMMA RecordProperties ==
    ASSUME TypeOK, NEW i \in Calls, NEW succeeded \in BOOLEAN, Record(i, succeeded)
    PROVE  /\ recorded' \in [Calls -> Seq(BOOLEAN)]
           /\ recorded'[i] # <<>>
           /\ recorded[i] = <<>> => recorded'[i] = <<succeeded>>
           /\ \A j \in Calls \ {i} : recorded'[j] = recorded[j]
<1>1. recorded' = [recorded EXCEPT ![i] = Append(recorded[i], succeeded)]
  BY DEF Record
<1>2. /\ Append(recorded[i], succeeded) \in Seq(BOOLEAN)
      /\ Append(recorded[i], succeeded) # <<>>
      /\ recorded[i] = <<>> => Append(recorded[i], succeeded) = <<succeeded>>
  <2>1. recorded[i] \in Seq(BOOLEAN)
    BY DEF TypeOK
  <2>2. /\ Append(recorded[i], succeeded) \in Seq(BOOLEAN)
        /\ Len(Append(recorded[i], succeeded)) = Len(recorded[i]) + 1
    BY <2>1
  <2>3. Append(recorded[i], succeeded) # <<>>
    BY <2>1, <2>2, EmptySeq
  <2>4. Append(<<>>, succeeded) = <<succeeded>>
    OBVIOUS
  <2>5. QED
    BY <2>2, <2>3, <2>4
<1>3. QED
  BY <1>1, <1>2 DEF TypeOK

(* A step that only tells somebody something, or refuses to go on. *)
LEMMA TellingKeepsIInv ==
    ASSUME IInv, NEW i \in Calls, pc[i] # "Done",
           NEW step \in Phases \ {"Queueing"}, pc' = [pc EXCEPT ![i] = step],
           call' = call, did' = did, searches' = searches, session' = session,
           recorded' \in [Calls -> Seq(BOOLEAN)],
           publicly' \in [Calls -> Messages], privately' \in [Calls -> Messages],
           \A j \in Calls \ {i} :
              /\ recorded'[j] = recorded[j] /\ publicly'[j] = publicly[j]
              /\ privately'[j] = "Picker" => privately[j] = "Picker",
           WayOK(i)', QueuedOK(i)', SeenOK(i)'
    PROVE  IInv'
<1>1. TypeOK'
  BY DEF IInv, TypeOK
<1>2. \A j \in Calls \ {i} : Same(j)
  BY DEF IInv, TypeOK, Same
<1>3. Claims(i)' => Claims(i)
  BY DEF IInv, TypeOK, Claims, Kind
<1>4. QED
  BY <1>1, <1>2, <1>3, SelectionUndisturbed

LEMMA AnswerAtOnceKeepsIInv ==
    ASSUME IInv, NEW i \in Calls, AnswerAtOnce(i)
    PROVE  IInv'
<1>t. TypeOK /\ CallOK(i)
  BY DEF IInv
<1>1. PICK ok \in BOOLEAN : Record(i, ok)
  BY DEF AnswerAtOnce
<1>2. /\ pc[i] = "Arrived" /\ pc' = [pc EXCEPT ![i] = "Done"] /\ Kind(i) = "Suggest"
      /\ call' = call /\ did' = did /\ publicly' = publicly /\ privately' = privately
      /\ searches' = searches /\ session' = session
  BY DEF AnswerAtOnce, Go, discord, picker
<1>3. recorded'[i] # <<>> /\ publicly[i] = "Nothing" /\ did[i] = <<>>
  BY <1>t, <1>1, <1>2, RecordProperties DEF CallOK, SeenOK, QueuedOK
<1>4. WayOK(i)' /\ QueuedOK(i)' /\ SeenOK(i)'
  BY <1>t, <1>2, <1>3 DEF TypeOK, WayOK, QueuedOK, SeenOK, CallOK, Kind
<1>5. QED
  BY <1>t, <1>1, <1>2, <1>4, RecordProperties, TellingKeepsIInv DEF TypeOK, Phases

LEMMA DeferKeepsIInv ==
    ASSUME IInv, NEW i \in Calls, Defer(i)
    PROVE  IInv'
<1>t. TypeOK /\ CallOK(i)
  BY DEF IInv
<1>1. /\ pc[i] = "Arrived" /\ Kind(i) # "Suggest" /\ Kind(i) \in Kinds
      /\ call' = call /\ did' = did /\ searches' = searches /\ session' = session
      /\ did[i] = <<>> /\ recorded[i] = <<>> /\ publicly[i] = "Nothing"
      /\ privately[i] # "Picker"
  BY <1>t DEF Defer, CallOK, WayOK, QueuedOK, SeenOK, picker
<1>2. CASE Show(i, "Thinking") /\ Go(i, "Deferred") /\ UNCHANGED recorded
  <2>1. pc' = [pc EXCEPT ![i] = "Deferred"] /\ recorded' = recorded
    BY <1>2 DEF Go
  <2>2. WayOK(i)' /\ QueuedOK(i)'
    BY <1>t, <1>1, <2>1 DEF TypeOK, WayOK, QueuedOK, Kind
  <2>3. CASE Audience(i) = "Channel"
    <3>1. InChannel(i, "Thinking") /\ Kind(i) \in {"Queue", "Change"}
      BY <1>2, <2>3 DEF Show, Audience
    <3>2. /\ publicly' \in [Calls -> Messages] /\ privately' = privately
          /\ publicly'[i] = "Thinking"
          /\ \A j \in Calls \ {i} : publicly'[j] = publicly[j]
      BY <1>t, <3>1, ShownInChannel DEF Messages
    <3>3. SeenOK(i)'
      BY <1>t, <1>1, <2>1, <3>1, <3>2 DEF TypeOK, SeenOK, Kind
    <3>4. QED
      BY <1>t, <1>1, <2>1, <2>2, <3>2, <3>3, TellingKeepsIInv DEF TypeOK, Phases
  <2>4. CASE Audience(i) # "Channel"
    <3>1. ToRequester(i, "Thinking")
      BY <1>2, <2>4 DEF Show
    <3>2. /\ privately' \in [Calls -> Messages] /\ publicly' = publicly
          /\ privately'[i] = "Thinking"
          /\ \A j \in Calls \ {i} : privately'[j] = privately[j]
      BY <1>t, <3>1, ShownToRequester DEF Messages
    <3>3. SeenOK(i)'
      BY <1>t, <1>1, <2>1, <3>2 DEF TypeOK, SeenOK, Kind
    <3>4. QED
      BY <1>t, <1>1, <2>1, <2>2, <3>2, <3>3, TellingKeepsIInv DEF TypeOK, Phases
  <2>5. QED
    BY <2>3, <2>4
<1>3. CASE Record(i, FALSE) /\ Go(i, "Done") /\ UNCHANGED discord
  <2>1. /\ pc' = [pc EXCEPT ![i] = "Done"] /\ publicly' = publicly /\ privately' = privately
        /\ recorded'[i] = <<FALSE>>
    BY <1>t, <1>1, <1>3, RecordProperties DEF Go, discord
  <2>2. WayOK(i)' /\ QueuedOK(i)' /\ SeenOK(i)'
    BY <1>t, <1>1, <2>1 DEF TypeOK, WayOK, QueuedOK, SeenOK, Kind
  <2>3. QED
    BY <1>t, <1>1, <1>3, <2>1, <2>2, RecordProperties, TellingKeepsIInv DEF TypeOK, Phases
<1>4. QED
  BY <1>2, <1>3 DEF Defer

-----------------------------------------------------------------------------
(* A handler at work.                                                      *)
Failing(i) == IF Kind(i) = "Select" THEN "Responding" ELSE "Refusing"

LEMMA AuthorizeKeepsIInv ==
    ASSUME IInv, NEW i \in Calls, Authorize(i)
    PROVE  IInv'
<1> DEFINE permitted == /\ Kind(i) # "Retired"
                        /\ <<call[i].user, call[i].channel>> \in Authorized
<1>t. TypeOK /\ CallOK(i)
  BY DEF IInv
<1>1. PICK live \in {permitted /\ session.live, permitted}, room \in Whereabouts(i) :
         /\ session' = [session EXCEPT !.live = @ \/ live]
         /\ call' = [call EXCEPT ![i].voice = room]
         /\ IF live /\ (NeedsVoice(i) => room # None) THEN Go(i, "Authorized") ELSE Fail(i)
  BY DEF Authorize
<1>2. /\ pc[i] = "Deferred" /\ did' = did /\ recorded' = recorded
      /\ publicly' = publicly /\ privately' = privately /\ searches' = searches
  BY DEF Authorize, discord, picker
<1>3. /\ did[i] = <<>> /\ recorded[i] = <<>> /\ privately[i] # "Picker"
      /\ Kind(i) \in (Kinds \ {"Suggest"}) \cup {"Select"}
  BY <1>t, <1>2 DEF CallOK, WayOK, QueuedOK, SeenOK
<1>4. room \in Rooms
  BY DEF Whereabouts, Rooms
<1>5. /\ call'[i].kind = call[i].kind /\ call'[i].search = call[i].search
      /\ call'[i].user = call[i].user /\ call'[i].tracks = call[i].tracks
      /\ call' \in [Calls -> CallRecord]
      /\ \A j \in Calls \ {i} : call'[j] = call[j]
  <2>1. call \in [Calls -> CallRecord] /\ call' = [call EXCEPT ![i].voice = room]
    BY <1>t, <1>1 DEF TypeOK
  <2>2. \A j \in Calls \ {i} : call'[j] = call[j]
    BY <2>1
  <2>3. call'[i] = [call[i] EXCEPT !.voice = room]
    BY <2>1
  <2>4. /\ call'[i].kind = call[i].kind /\ call'[i].search = call[i].search
        /\ call'[i].user = call[i].user /\ call'[i].tracks = call[i].tracks
        /\ call'[i] \in CallRecord
    BY <1>4, <2>1, <2>3 DEF CallRecord
  <2>5. call' \in [Calls -> CallRecord]
    BY <2>1, <2>4
  <2>6. QED
    BY <2>2, <2>4, <2>5
<1>6. live => Kind(i) # "Retired"
  OBVIOUS
<1>7. session' \in [live : BOOLEAN, room : Rooms, length : Nat]
  BY <1>t, <1>1 DEF TypeOK
<1>8. \/ pc' = [pc EXCEPT ![i] = "Authorized"] /\ Kind(i) # "Retired"
      \/ pc' = [pc EXCEPT ![i] = Failing(i)]
  BY <1>1, <1>6 DEF Go, Fail, Failing
<1>9. TypeOK'
  BY <1>t, <1>2, <1>5, <1>7, <1>8 DEF TypeOK, Phases, Failing
<1>10. \A j \in Calls \ {i} : Same(j)
  BY <1>t, <1>2, <1>5, <1>8 DEF TypeOK, Same
<1>11. WayOK(i)'
  BY <1>t, <1>3, <1>5, <1>8 DEF TypeOK, WayOK, Kind, Kinds, Failing
<1>12. QueuedOK(i)' /\ SeenOK(i)'
  BY <1>t, <1>2, <1>3, <1>5, <1>8 DEF TypeOK, CallOK, QueuedOK, SeenOK, Kind, Failing
<1>13. ~Claims(i) /\ ~Claims(i)'
  BY <1>t, <1>2, <1>3, <1>8 DEF TypeOK, Claims, Failing
<1>14. QED
  BY <1>2, <1>5, <1>9, <1>10, <1>11, <1>12, <1>13, SelectionUndisturbed

(* What was found is something to queue or to choose from, or nothing for  *)
(* a command that queues nothing.                                          *)
LEMMA PrepareKeepsIInv ==
    ASSUME IInv, NEW i \in Calls, Prepare(i)
    PROVE  IInv'
<1>t. TypeOK /\ CallOK(i)
  BY DEF IInv
<1>1. /\ pc[i] = "Authorized" /\ Kind(i) # "Select" /\ did' = did /\ recorded' = recorded
      /\ publicly' = publicly /\ privately' = privately /\ searches' = searches
      /\ session' = session
  BY DEF Prepare, discord, picker
<1>2. /\ did[i] = <<>> /\ recorded[i] = <<>> /\ privately[i] # "Picker"
      /\ Kind(i) \in {"Queue", "Words", "Change", "Look"}
  BY <1>t, <1>1 DEF CallOK, WayOK, QueuedOK, SeenOK
<1>3. CASE Fail(i) /\ UNCHANGED call
  <2>1. pc' = [pc EXCEPT ![i] = "Refusing"]
    BY <1>1, <1>3 DEF Fail, Go
  <2>2. WayOK(i)' /\ QueuedOK(i)' /\ SeenOK(i)'
    BY <1>t, <1>1, <1>2, <1>3, <2>1
       DEF TypeOK, CallOK, WayOK, QueuedOK, SeenOK, Kind, Kinds
  <2>3. QED
    BY <1>t, <1>1, <1>3, <2>1, <2>2, TellingKeepsIInv DEF TypeOK, Phases
<1>4. CASE ~(Fail(i) /\ UNCHANGED call)
  <2>1. PICK found \in Found(i) :
           call' = [call EXCEPT ![i].tracks =
               IF Kind(i) = "Words" THEN First(found, PickerSize) ELSE found]
    BY <1>4 DEF Prepare
  <2>2. pc' = [pc EXCEPT ![i] = Prepared(i)]
    BY <1>4 DEF Prepare, Go
  <2>3. /\ found \in Seq(Tracks)
        /\ Kind(i) = "Queue" => found # <<>>
    <3>1. CASE found = <<>> /\ Kind(i) # "Queue"
      BY <3>1
    <3>2. CASE found \in Lists
      <4>1. \/ \E track \in Tracks : found = <<track>>
            \/ \E track, other \in Tracks : found = <<track, other>>
        BY <3>2 DEF Lists
      <4>2. ASSUME NEW track \in Tracks, found = <<track>>
            PROVE  found \in Seq(Tracks) /\ Len(found) = 1
        BY <4>2
      <4>3. ASSUME NEW track \in Tracks, NEW other \in Tracks, found = <<track, other>>
            PROVE  found \in Seq(Tracks) /\ Len(found) = 2
        BY <4>3
      <4>4. found \in Seq(Tracks) /\ Len(found) # 0
        BY <4>1, <4>2, <4>3
      <4>5. QED
        BY <4>4, EmptySeq
    <3>3. QED
      BY <3>1, <3>2 DEF Found
  <2> DEFINE tracks == IF Kind(i) = "Words" THEN First(found, PickerSize) ELSE found
  <2>4. tracks \in Seq(Tracks) /\ (Kind(i) = "Queue" => tracks # <<>>)
    BY <2>3, FirstProperties, InteractionsAssumption
  <2> HIDE DEF tracks
  <2>c. call' = [call EXCEPT ![i].tracks = tracks]
    BY <2>1 DEF tracks
  <2>5. /\ call' \in [Calls -> CallRecord]
        /\ call'[i].kind = call[i].kind /\ call'[i].search = call[i].search
        /\ call'[i].user = call[i].user
        /\ Kind(i) = "Queue" => call'[i].tracks # <<>>
        /\ \A j \in Calls \ {i} : call'[j] = call[j]
    <3>1. call \in [Calls -> CallRecord]
      BY <1>t DEF TypeOK
    <3>2. \A j \in Calls \ {i} : call'[j] = call[j]
      BY <2>c, <3>1
    <3>3. call'[i] = [call[i] EXCEPT !.tracks = tracks]
      BY <2>c, <3>1
    <3>4. /\ call'[i] \in CallRecord /\ call'[i].tracks = tracks
          /\ call'[i].kind = call[i].kind /\ call'[i].search = call[i].search
          /\ call'[i].user = call[i].user
      BY <2>4, <3>1, <3>3 DEF CallRecord
    <3>5. call' \in [Calls -> CallRecord]
      BY <2>c, <3>1, <3>4
    <3>6. QED
      BY <2>4, <3>2, <3>4, <3>5
  <2>6. /\ Kind(i) = "Queue" => Prepared(i) = "Queueing"
        /\ Kind(i) = "Words" => Prepared(i) = "Storing"
        /\ Kind(i) \in {"Change", "Look"} => Prepared(i) = "Answering"
    BY DEF Prepared
  <2>7. TypeOK'
    BY <1>t, <1>1, <1>2, <2>2, <2>5, <2>6 DEF TypeOK, Phases
  <2>8. \A j \in Calls \ {i} : Same(j)
    BY <1>t, <1>1, <2>2, <2>5 DEF TypeOK, Same
  <2>9. WayOK(i)' /\ QueuedOK(i)' /\ SeenOK(i)'
    BY <1>t, <1>1, <1>2, <2>2, <2>5, <2>6
       DEF TypeOK, CallOK, WayOK, QueuedOK, SeenOK, Kind, Kinds
  <2>10. ~Claims(i) /\ ~Claims(i)'
    BY <1>1, <2>5 DEF Claims, Kind
  <2>11. QED
    BY <1>1, <2>5, <2>7, <2>8, <2>9, <2>10, SelectionUndisturbed
<1>5. QED
  BY <1>3, <1>4

(* A search that is kept is nobody's choice yet. *)
LEMMA StoreKeepsIInv ==
    ASSUME IInv, NEW i \in Calls, Store(i)
    PROVE  IInv'
<1>t. TypeOK /\ CallOK(i)
  BY DEF IInv
<1>1. /\ pc[i] = "Storing" /\ pc' = [pc EXCEPT ![i] = "Answering"] /\ Kind(i) = "Words"
      /\ call' = call /\ did' = did /\ recorded' = recorded /\ publicly' = publicly
      /\ privately' = privately /\ session' = session
  BY <1>t DEF Store, Go, discord, CallOK, WayOK
<1>2. searches' \subseteq searches \cup {i}
  BY DEF Store, MakeRoom, Unexpired
<1>3. TypeOK' /\ \A j \in Calls \ {i} : Same(j)
  BY <1>t, <1>1, <1>2 DEF TypeOK, Same, Phases
<1>4. WayOK(i)' /\ QueuedOK(i)' /\ SeenOK(i)'
  BY <1>t, <1>1 DEF TypeOK, CallOK, WayOK, QueuedOK, SeenOK, Kind, Kinds
<1>5. SelectionOK(i)' /\ ClaimOK(i)' /\ ~Claims(i)'
  BY <1>1 DEF SelectionOK, ClaimOK, Claims, Kind
<1>6. QED
  BY <1>1, <1>2, <1>3, <1>4, <1>5, OthersUndisturbed

(* A search that is there has been claimed by nobody, and is gone once it  *)
(* has been.                                                               *)
LEMMA ChooseKeepsIInv ==
    ASSUME IInv, NEW i \in Calls, Choose(i)
    PROVE  IInv'
<1> DEFINE s == call[i].search
<1>t. TypeOK /\ CallOK(i)
  BY DEF IInv
<1>1. /\ pc[i] = "Authorized" /\ Kind(i) = "Select"
      /\ call' = call /\ did' = did /\ recorded' = recorded /\ publicly' = publicly
      /\ privately' = privately /\ session' = session
      /\ searches' = Unexpired \ {s}
  BY DEF Choose, discord
<1>2. \/ Usable(i) /\ pc' = [pc EXCEPT ![i] = "Queueing"]
      \/ pc' = [pc EXCEPT ![i] = "Responding"]
  BY <1>1 DEF Choose, Go, Fail
<1>3. searches' \subseteq searches /\ s \notin searches'
  BY <1>1 DEF Unexpired
<1>4. TypeOK' /\ \A j \in Calls \ {i} : Same(j)
  BY <1>t, <1>1, <1>2, <1>3 DEF TypeOK, Same, Phases
<1>5. /\ s \in Calls \ {i} /\ Same(s) /\ pc[s] = "Done"
      /\ \E track \in ToSet(call[s].tracks) : call[i].tracks = <<track>>
  BY <1>t, <1>1, <1>4 DEF CallOK, SelectionOK
<1>6. call[i].tracks # <<>> /\ did[i] = <<>>
  BY <1>t, <1>1, <1>5 DEF CallOK, QueuedOK
<1>7. WayOK(i)' /\ QueuedOK(i)' /\ SeenOK(i)'
  BY <1>t, <1>1, <1>2, <1>6 DEF TypeOK, CallOK, WayOK, QueuedOK, SeenOK, Kind
<1>8. SelectionOK(i)'
  BY <1>1, <1>5 DEF SelectionOK, Same
<1>9. Claims(i)' => Usable(i)
  BY <1>t, <1>1, <1>2, <1>6 DEF TypeOK, Claims
<1>10. Usable(i) => /\ s \in searches
                    /\ call[i].user = call[s].user /\ call[i].voice = call[s].voice
  BY DEF Usable, Unexpired
<1>11. ClaimOK(i)'
  BY <1>1, <1>3, <1>9, <1>10 DEF ClaimOK
<1>12. Claims(i)' => \A j \in Calls \ {i} : Claims(j) => call[j].search # call'[i].search
  BY <1>1, <1>9, <1>10 DEF IInv, CallOK, ClaimOK
<1>13. QED
  BY <1>1, <1>3, <1>4, <1>7, <1>8, <1>11, <1>12, OthersUndisturbed

(* What is queued of a choice is the track that was chosen, and of another *)
(* request something at least.                                             *)
LEMMA EnqueueKeepsIInv ==
    ASSUME IInv, NEW i \in Calls, Enqueue(i)
    PROVE  IInv'
<1>t. TypeOK /\ CallOK(i)
  BY DEF IInv
<1>1. /\ pc[i] = "Queueing" /\ call' = call /\ recorded' = recorded
      /\ publicly' = publicly /\ privately' = privately /\ searches' = searches
  BY DEF Enqueue, discord, picker
<1>2. /\ did[i] = <<>> /\ recorded[i] = <<>> /\ privately[i] # "Picker"
      /\ Kind(i) \in {"Queue", "Select"} /\ call[i].tracks # <<>>
  BY <1>t, <1>1 DEF CallOK, WayOK, QueuedOK, SeenOK
<1>3. CASE Fail(i) /\ UNCHANGED <<did, session>>
  <2>1. pc' = [pc EXCEPT ![i] = Failing(i)] /\ did' = did /\ session' = session
    BY <1>3 DEF Fail, Go, Failing
  <2>2. WayOK(i)' /\ QueuedOK(i)' /\ SeenOK(i)'
    BY <1>t, <1>1, <1>2, <2>1
       DEF TypeOK, CallOK, WayOK, QueuedOK, SeenOK, Kind, Kinds, Failing
  <2>3. Failing(i) \in Phases \ {"Queueing"}
    BY DEF Failing, Phases
  <2>4. QED
    BY <1>t, <1>1, <2>1, <2>2, <2>3, TellingKeepsIInv DEF TypeOK
<1>4. CASE ~(Fail(i) /\ UNCHANGED <<did, session>>)
  <2> DEFINE fitting == Fitting(i)
             next == IF Kind(i) = "Select" THEN "Responding" ELSE "Answering"
  <2>1. /\ did' = [did EXCEPT ![i] = fitting]
        /\ session' = [session EXCEPT !.room = call[i].voice, !.length = @ + Len(fitting)]
        /\ pc' = [pc EXCEPT ![i] = next]
        /\ session.length < MaxQueue
    BY <1>4 DEF Enqueue, Go
  <2>2. call[i].tracks \in Seq(Tracks) /\ call[i].voice \in Rooms /\ session.length \in Nat
    BY <1>t DEF TypeOK, CallRecord
  <2>3. MaxQueue - session.length \in Nat \ {0}
    BY <2>1, <2>2, InteractionsAssumption
  <2>4. /\ fitting \in Seq(Tracks) /\ fitting # <<>>
        /\ Len(call[i].tracks) = 1 => fitting = call[i].tracks
    BY <1>2, <2>2, <2>3, FirstProperties DEF Fitting
  <2>5. Kind(i) = "Select" => fitting = call[i].tracks
    <3>1. ASSUME Kind(i) = "Select"
          PROVE  Len(call[i].tracks) = 1
      <4>1. PICK track \in ToSet(call[call[i].search].tracks) : call[i].tracks = <<track>>
        BY <1>t, <3>1 DEF CallOK, SelectionOK
      <4>2. QED
        BY <4>1
    <3>2. QED
      BY <2>4, <3>1
  <2> HIDE DEF fitting
  <2>6. session' \in [live : BOOLEAN, room : Rooms, length : Nat]
    <3>1. Len(fitting) \in Nat
      BY <2>4, LenProperties
    <3>2. session.length + Len(fitting) \in Nat
      BY <2>2, <3>1
    <3>3. session \in [live : BOOLEAN, room : Rooms, length : Nat]
      BY <1>t DEF TypeOK
    <3>4. session' = [session EXCEPT !.room = call[i].voice,
                                     !.length = session.length + Len(fitting)]
      BY <2>1
    <3>5. QED
      BY <2>2, <3>2, <3>3, <3>4
  <2>7. TypeOK'
    BY <1>t, <1>1, <2>1, <2>4, <2>6 DEF TypeOK, Phases
  <2>8. \A j \in Calls \ {i} : Same(j)
    BY <1>t, <1>1, <2>1 DEF TypeOK, Same
  <2>9. pc'[i] = next /\ did'[i] = fitting
    BY <1>t, <2>1 DEF TypeOK
  <2>10. WayOK(i)' /\ QueuedOK(i)' /\ SeenOK(i)'
    BY <1>t, <1>1, <1>2, <2>4, <2>5, <2>9
       DEF CallOK, WayOK, QueuedOK, SeenOK, Kind, Kinds
  <2>11. Claims(i)' => Claims(i)
    BY <1>1 DEF Claims, Kind
  <2>12. QED
    BY <1>1, <2>7, <2>8, <2>10, <2>11, SelectionUndisturbed
<1>5. QED
  BY <1>3, <1>4

-----------------------------------------------------------------------------
(* Answers and refusals.                                                   *)
LEMMA AnswerKeepsIInv ==
    ASSUME IInv, NEW i \in Calls, Answer(i)
    PROVE  IInv'
<1> DEFINE message == IF Kind(i) = "Words" THEN "Picker" ELSE "Answer"
<1>t. TypeOK /\ CallOK(i)
  BY DEF IInv
<1>1. /\ pc[i] = "Answering" /\ pc' = [pc EXCEPT ![i] = "Done"] /\ Kind(i) \in Kinds
      /\ call' = call /\ did' = did /\ searches' = searches /\ session' = session
      /\ recorded[i] = <<>> /\ (Kind(i) = "Queue" => did[i] # <<>>)
      /\ publicly[i] \in Messages \ {"Picker", "Refusal"}
      /\ publicly[i] = "Answer" /\ Kind(i) # "Change" => did[i] # <<>>
      /\ publicly[i] = "Thinking" => Kind(i) \in {"Queue", "Change"}
  BY <1>t DEF Answer, Go, picker, TypeOK, CallOK, WayOK, QueuedOK, SeenOK
<1>2. WayOK(i)'
  BY <1>t, <1>1 DEF TypeOK, WayOK
<1>3. QueuedOK(i)'
  BY <1>t, <1>1, InteractionsAssumption DEF TypeOK, CallOK, QueuedOK, Kind
<1>4. CASE Record(i, FALSE) /\ UNCHANGED discord
  <2>1. recorded'[i] = <<FALSE>> /\ publicly' = publicly /\ privately' = privately
    BY <1>t, <1>1, <1>4, RecordProperties DEF discord
  <2>2. SeenOK(i)'
    BY <1>t, <1>1, <2>1 DEF TypeOK, SeenOK, Kind
  <2>3. QED
    BY <1>t, <1>1, <1>2, <1>3, <1>4, <2>1, <2>2, RecordProperties, TellingKeepsIInv
       DEF TypeOK, Phases
<1>5. CASE Show(i, message) /\ Record(i, TRUE)
  <2>1. CASE Kind(i) \in {"Queue", "Change"}
    <3>1. InChannel(i, "Answer")
      BY <1>5, <2>1 DEF Show, Audience
    <3>2. /\ publicly' \in [Calls -> Messages] /\ privately' = privately
          /\ publicly'[i] = "Answer"
          /\ \A j \in Calls \ {i} : publicly'[j] = publicly[j]
      BY <1>t, <3>1, ShownInChannel DEF Messages
    <3>3. SeenOK(i)'
      BY <1>t, <1>1, <2>1, <3>2 DEF TypeOK, SeenOK, Kind
    <3>4. QED
      BY <1>t, <1>1, <1>2, <1>3, <1>5, <3>2, <3>3, RecordProperties, TellingKeepsIInv
         DEF TypeOK, Phases
  <2>2. CASE Kind(i) \notin {"Queue", "Change"}
    <3>1. ToRequester(i, message) /\ message \in Messages
      BY <1>5, <2>2 DEF Show, Audience, Messages
    <3>2. /\ privately' \in [Calls -> Messages] /\ publicly' = publicly
          /\ privately'[i] = message
          /\ \A j \in Calls \ {i} : privately'[j] = privately[j]
      BY <1>t, <3>1, ShownToRequester
    <3>3. SeenOK(i)'
      BY <1>t, <1>1, <2>2, <3>2 DEF TypeOK, SeenOK, Kind
    <3>4. QED
      BY <1>t, <1>1, <1>2, <1>3, <1>5, <3>2, <3>3, RecordProperties, TellingKeepsIInv
         DEF TypeOK, Phases
  <2>3. QED
    BY <2>1, <2>2
<1>6. QED
  BY <1>4, <1>5 DEF Answer

LEMMA WithdrawKeepsIInv ==
    ASSUME IInv, NEW i \in Calls, Withdraw(i)
    PROVE  IInv'
<1>t. TypeOK /\ CallOK(i)
  BY DEF IInv
<1>1. /\ pc[i] = "Refusing" /\ pc' = [pc EXCEPT ![i] = "Withdrawn"]
      /\ call' = call /\ did' = did /\ recorded' = recorded /\ searches' = searches
      /\ session' = session
  BY DEF Withdraw, Go, picker
<1>2. /\ publicly' \in [Calls -> Messages] /\ privately' = privately
      /\ publicly'[i] \in {"Nothing", publicly[i]}
      /\ \A j \in Calls \ {i} : publicly'[j] = publicly[j]
  BY <1>t, ShownInChannel DEF Withdraw, discord, Messages, TypeOK
<1>3. WayOK(i)' /\ QueuedOK(i)'
  BY <1>t, <1>1 DEF TypeOK, CallOK, WayOK, QueuedOK, Kind
<1>4. SeenOK(i)'
  BY <1>t, <1>1, <1>2 DEF TypeOK, CallOK, SeenOK, Kind
<1>5. QED
  BY <1>t, <1>1, <1>2, <1>3, <1>4, TellingKeepsIInv DEF TypeOK, Phases

LEMMA RefuseKeepsIInv ==
    ASSUME IInv, NEW i \in Calls, Refuse(i)
    PROVE  IInv'
<1>t. TypeOK /\ CallOK(i)
  BY DEF IInv
<1>1. /\ pc[i] \in {"Withdrawn", "Refusing"} /\ pc' = [pc EXCEPT ![i] = "Done"]
      /\ call' = call /\ did' = did /\ searches' = searches /\ session' = session
      /\ Record(i, FALSE) /\ recorded[i] = <<>>
  BY <1>t DEF Refuse, Go, picker, CallOK, QueuedOK
<1>2. /\ privately' \in [Calls -> Messages] /\ publicly' = publicly
      /\ \A j \in Calls \ {i} : privately'[j] = privately[j]
  BY <1>t, ShownToRequester DEF Refuse, discord, Messages, TypeOK
<1>3. /\ recorded' \in [Calls -> Seq(BOOLEAN)] /\ recorded'[i] = <<FALSE>>
      /\ \A j \in Calls \ {i} : recorded'[j] = recorded[j]
  BY <1>t, <1>1, RecordProperties
<1>4. WayOK(i)' /\ QueuedOK(i)' /\ SeenOK(i)'
  BY <1>t, <1>1, <1>2, <1>3 DEF TypeOK, CallOK, WayOK, QueuedOK, SeenOK, Kind
<1>5. QED
  BY <1>t, <1>1, <1>2, <1>3, <1>4, TellingKeepsIInv DEF TypeOK, Phases

(* The picker of the search makes way for the answer to the choice. *)
LEMMA RespondKeepsIInv ==
    ASSUME IInv, NEW i \in Calls, Respond(i)
    PROVE  IInv'
<1> DEFINE next == IF did[i] # <<>> THEN "Announcing" ELSE "Done"
           message == IF did[i] # <<>> THEN "Answer" ELSE "Refusal"
<1>t. TypeOK /\ CallOK(i)
  BY DEF IInv
<1>1. PICK ok \in BOOLEAN :
         /\ IF ok THEN ToRequester(call[i].search, message) ELSE UNCHANGED discord
         /\ Record(i, ok /\ did[i] # <<>>)
  BY DEF Respond
<1>2. /\ pc[i] = "Responding" /\ pc' = [pc EXCEPT ![i] = next] /\ Kind(i) = "Select"
      /\ call' = call /\ did' = did /\ searches' = searches /\ session' = session
      /\ recorded[i] = <<>> /\ privately[i] # "Picker" /\ call[i].search \in Calls \ {i}
      /\ publicly[i] # "Thinking" /\ publicly[i] \notin {"Picker", "Refusal"}
      /\ publicly[i] = "Answer" => did[i] # <<>>
  BY <1>t DEF Respond, Go, picker, CallOK, WayOK, QueuedOK, SeenOK, SelectionOK
<1>3. /\ recorded' \in [Calls -> Seq(BOOLEAN)]
      /\ \A j \in Calls \ {i} : recorded'[j] = recorded[j]
  BY <1>t, <1>1, RecordProperties
<1>4. /\ privately' \in [Calls -> Messages] /\ publicly' = publicly
      /\ privately'[i] = privately[i]
      /\ \A j \in Calls \ {i} : privately'[j] = "Picker" => privately[j] = "Picker"
  <2>1. CASE UNCHANGED discord
    BY <1>t, <2>1 DEF discord, TypeOK
  <2>2. CASE ToRequester(call[i].search, message)
    <3>1. message \in Messages \ {"Picker"}
      BY DEF Messages
    <3>2. QED
      BY <1>t, <1>2, <2>2, <3>1, ShownToRequester
  <2>3. QED
    BY <1>1, <2>1, <2>2
<1>5. WayOK(i)' /\ QueuedOK(i)' /\ SeenOK(i)'
  BY <1>t, <1>2, <1>4 DEF TypeOK, CallOK, WayOK, QueuedOK, SeenOK, Kind
<1>6. next \in Phases \ {"Queueing"}
  BY DEF Phases
<1>7. QED
  BY <1>t, <1>2, <1>3, <1>4, <1>5, <1>6, TellingKeepsIInv DEF TypeOK

LEMMA AnnounceKeepsIInv ==
    ASSUME IInv, NEW i \in Calls, Announce(i)
    PROVE  IInv'
<1>t. TypeOK /\ CallOK(i)
  BY DEF IInv
<1>1. /\ pc[i] = "Announcing" /\ pc' = [pc EXCEPT ![i] = "Done"] /\ did[i] # <<>>
      /\ Kind(i) = "Select" /\ call' = call /\ did' = did /\ recorded' = recorded
      /\ searches' = searches /\ session' = session
  BY <1>t DEF Announce, Go, picker, CallOK, WayOK, QueuedOK
<1>2. /\ publicly' \in [Calls -> Messages] /\ privately' = privately
      /\ publicly'[i] \in {"Answer", publicly[i]}
      /\ \A j \in Calls \ {i} : publicly'[j] = publicly[j]
  BY <1>t, ShownInChannel DEF Announce, discord, Messages, TypeOK
<1>3. WayOK(i)' /\ QueuedOK(i)'
  BY <1>t, <1>1 DEF TypeOK, CallOK, WayOK, QueuedOK, Kind
<1>4. SeenOK(i)'
  BY <1>t, <1>1, <1>2 DEF TypeOK, CallOK, SeenOK, Kind
<1>5. QED
  BY <1>t, <1>1, <1>2, <1>3, <1>4, TellingKeepsIInv DEF TypeOK, Phases

-----------------------------------------------------------------------------
(* What goes on around the handlers touches nothing that is said of them.  *)
LEMMA SurroundingsKeepIInv ==
    ASSUME IInv, UNCHANGED <<task, discord, searches>>,
           session' \in [live : BOOLEAN, room : Rooms, length : Nat]
    PROVE  IInv'
<1>1. /\ call' = call /\ pc' = pc /\ did' = did /\ recorded' = recorded
      /\ publicly' = publicly /\ privately' = privately /\ searches' = searches
  BY DEF task, discord
<1>2. TypeOK'
  BY <1>1 DEF IInv, TypeOK
<1>3. ASSUME NEW i \in Calls
      PROVE  CallOK(i)'
  <2>1. CallOK(i)
    BY DEF IInv
  <2>2. WayOK(i)' /\ QueuedOK(i)' /\ SeenOK(i)'
    BY <1>1, <2>1 DEF CallOK, WayOK, QueuedOK, SeenOK, Kind
  <2>3. SelectionOK(i)'
    BY <1>1, <2>1 DEF CallOK, SelectionOK, Kind
  <2>4. ClaimOK(i)'
    BY <1>1, <2>1 DEF CallOK, ClaimOK, Claims, Kind
  <2>5. QED
    BY <2>2, <2>3, <2>4 DEF CallOK
<1>4. OneClaim'
  BY <1>1 DEF IInv, OneClaim, Claims, Kind
<1>5. QED
  BY <1>2, <1>3, <1>4 DEF IInv

LEMMA NextKeepsIInv ==
    ASSUME IInv, [Next]_vars
    PROVE  IInv'
<1>t. TypeOK
  BY DEF IInv
<1>1. ASSUME NEW i \in Calls, Receive(i) \/ Press(i) \/ Handle(i)
      PROVE  IInv'
  BY <1>1, ReceiveKeepsIInv, PressKeepsIInv, AnswerAtOnceKeepsIInv, DeferKeepsIInv,
     AuthorizeKeepsIInv, PrepareKeepsIInv, StoreKeepsIInv, ChooseKeepsIInv,
     EnqueueKeepsIInv, AnswerKeepsIInv, WithdrawKeepsIInv, RefuseKeepsIInv,
     RespondKeepsIInv, AnnounceKeepsIInv DEF Handle
<1>2. CASE SearchAges
  BY <1>t, <1>2, SurroundingsKeepIInv DEF SearchAges, TypeOK
<1>3. CASE SessionMovesOn
  <2>1. session' \in [live : BOOLEAN, room : Rooms, length : Nat]
    <3>1. session \in [live : BOOLEAN, room : Rooms, length : Nat] /\ None \in Rooms
      BY <1>t DEF TypeOK, Rooms
    <3>2. \/ session' = [session EXCEPT !.room = None]
          \/ session' = [session EXCEPT !.room = None, !.length = 0]
          \/ \E k \in Nat : session' = [session EXCEPT !.length = k]
      BY <1>3 DEF SessionMovesOn
    <3>3. CASE session' = [session EXCEPT !.room = None]
      BY <3>1, <3>3
    <3>4. CASE session' = [session EXCEPT !.room = None, !.length = 0]
      BY <3>1, <3>4
    <3>5. CASE \E k \in Nat : session' = [session EXCEPT !.length = k]
      BY <3>1, <3>5
    <3>6. QED
      BY <3>2, <3>3, <3>4, <3>5
  <2>2. QED
    BY <1>3, <2>1, SurroundingsKeepIInv DEF SessionMovesOn, picker
<1>4. CASE UNCHANGED vars
  BY <1>t, <1>4, SurroundingsKeepIInv DEF vars, picker, TypeOK
<1>5. QED
  BY <1>1, <1>2, <1>3, <1>4 DEF Next

LEMMA IInvAlways == Spec => []IInv
<1>1. Init => IInv
  BY InitIInv
<1>2. IInv /\ [Next]_vars => IInv'
  BY NextKeepsIInv
<1>3. QED
  BY <1>1, <1>2, PTL DEF Spec

(* However many people press a picker's buttons, and however often, a      *)
(* search puts one track in the queue at most, for the person who asked    *)
(* (dispatch_component in src/src/discord.rs).                             *)
THEOREM ChoicesCorrect == Spec => []ChoicesQueueOnce
<1>1. IInv => ChoicesQueueOnce
  <2> SUFFICES ASSUME IInv, NEW i \in Selections, did[i] # <<>>
               PROVE  LET s == call[i].search
                      IN  /\ \A j \in Selections \ {i} : call[j].search = s => did[j] = <<>>
                          /\ Len(did[i]) = 1 /\ did[i][1] \in ToSet(call[s].tracks)
                          /\ call[i].user = call[s].user /\ call[i].voice = call[s].voice
    BY DEF ChoicesQueueOnce
  <2>1. i \in Calls /\ Kind(i) = "Select" /\ Claims(i) /\ CallOK(i)
    BY DEF Selections, Claims, IInv
  <2>2. \A j \in Selections \ {i} : call[j].search = call[i].search => did[j] = <<>>
    BY <2>1 DEF Selections, Claims, IInv, OneClaim
  <2>3. /\ did[i] = call[i].tracks
        /\ call[i].user = call[call[i].search].user
        /\ call[i].voice = call[call[i].search].voice
    BY <2>1 DEF CallOK, QueuedOK, ClaimOK
  <2>4. PICK track \in ToSet(call[call[i].search].tracks) : call[i].tracks = <<track>>
    BY <2>1 DEF CallOK, SelectionOK
  <2>5. Len(did[i]) = 1 /\ did[i][1] = track
    BY <2>3, <2>4
  <2>6. QED
    BY <2>2, <2>3, <2>4, <2>5
<1>2. QED
  BY <1>1, IInvAlways, PTL

(* The channel never sees a refusal, a picker or a track that was not      *)
(* queued, and a placeholder is left there only by a request that is       *)
(* counted as failed (handle_command and refuse_command).                  *)
THEOREM RoomIsToldCorrect == Spec => []TheRoomIsToldTheTruth
<1>1. IInv => TheRoomIsToldTheTruth
  BY DEF IInv, CallOK, SeenOK, TheRoomIsToldTheTruth
<1>2. QED
  BY <1>1, IInvAlways, PTL

-----------------------------------------------------------------------------
(* The searches that are held.                                             *)

(* The searches made after s, and why s need not be held any more. *)
After(s) == {t \in Stored : created_at[t] > created_at[s]}
Spent(s) ==
    \/ \E i \in Chosen : call[i].search = s /\ call[i].user = call[s].user
    \/ created_at[s] <= old
    \/ Cardinality(After(s)) >= MaxPending

StampsOK ==
    /\ created_at \in [Calls -> Nat] /\ old \in Nat
    /\ IsFiniteSet(Stored)
    /\ \A s \in Stored : created_at[s] <= Cardinality(Stored) /\ pc[s] \in {"Answering", "Done"}
    /\ \A s, t \in Stored : created_at[s] = created_at[t] => s = t

(* A picker is pressed by the person it was made for. *)
PresserOK(i) ==
    /\ pc[i] = "Absent" => Kind(i) = "None"
    /\ Kind(i) = "Select" => call[i].user = call[call[i].search].user

HeldOK ==
    /\ searches \subseteq Stored /\ Cardinality(searches) <= MaxPending
    /\ \A s \in Stored \ searches : Spent(s)

HInv == StampsOK /\ (\A i \in Calls : PresserOK(i)) /\ HeldOK

(* Any set of natural numbers has a least element, so of some searches one *)
(* is the oldest.                                                          *)
LEMMA LeastNumber ==
    ASSUME NEW N \in SUBSET Nat, N # {}
    PROVE  \E n \in N : \A m \in N : n <= m
<1> DEFINE R == OpToRel(<, Nat)
<1>1. IsWellFoundedOn(R, Nat)
  BY NatLessThanWellFounded
<1>2. \A n, m \in Nat : m < n => <<m, n>> \in R
  BY DEF OpToRel
<1> HIDE DEF R
<1>3. PICK n \in N : \A m \in N : ~(<<m, n>> \in R)
  BY <1>1, WFMin
<1>4. ASSUME NEW m \in N
      PROVE  n <= m
  <2>1. n \in Nat /\ m \in Nat /\ ~(m < n)
    BY <1>2, <1>3
  <2>2. QED
    BY <2>1
<1>5. QED
  BY <1>4

LEMMA OldestOf ==
    ASSUME StampsOK, NEW held \in SUBSET Stored, held # {}
    PROVE  \E s \in held : \A t \in held \ {s} : created_at[s] < created_at[t]
<1> DEFINE N == {created_at[s] : s \in held}
<1>1. N \in SUBSET Nat /\ N # {}
  BY DEF StampsOK, Stored
<1>2. PICK n \in N : \A m \in N : n <= m
  BY <1>1, LeastNumber
<1>3. PICK s \in held : created_at[s] = n
  OBVIOUS
<1>4. ASSUME NEW t \in held \ {s}
      PROVE  created_at[s] < created_at[t]
  <2>1. created_at[s] <= created_at[t]
    BY <1>2, <1>3
  <2>2. created_at[s] # created_at[t] /\ created_at[s] \in Nat /\ created_at[t] \in Nat
    BY DEF StampsOK, Stored
  <2>3. QED
    BY <2>1, <2>2
<1>5. QED
  BY <1>4

(* What excused the absence of a search goes on excusing it. *)
LEMMA SpentStays ==
    ASSUME NEW s \in Stored, Spent(s), StampsOK, old' \in Nat, old <= old',
           created_at'[s] = created_at[s], call'[s].user = call[s].user,
           \A i \in Chosen : /\ i \in Chosen' /\ call'[i].search = call[i].search
                             /\ call'[i].user = call[i].user,
           After(s) \subseteq After(s)', IsFiniteSet(After(s)')
    PROVE  Spent(s)'
<1>1. CASE \E i \in Chosen : call[i].search = s /\ call[i].user = call[s].user
  BY <1>1 DEF Spent
<1>2. CASE created_at[s] <= old
  BY <1>2 DEF Spent, StampsOK, Stored
<1>3. CASE Cardinality(After(s)) >= MaxPending
  <2>1. Cardinality(After(s)) <= Cardinality(After(s)')
    BY FS_Subset
  <2>2. Cardinality(After(s)) \in Nat /\ Cardinality(After(s)') \in Nat
    BY FS_Subset, FS_CardinalityType
  <2>3. Cardinality(After(s)') >= MaxPending
    BY <1>3, <2>1, <2>2, InteractionsAssumption
  <2>4. QED
    BY <2>3 DEF Spent
<1>4. QED
  BY <1>1, <1>2, <1>3 DEF Spent

LEMMA InitHInv ==
    ASSUME Init
    PROVE  HInv
<1>1. Stored = {}
  BY DEF Init, Stored
<1>2. IsFiniteSet({}) /\ Cardinality({}) = 0
  BY FS_EmptySet
<1>3. StampsOK
  BY <1>1, <1>2 DEF Init, StampsOK
<1>4. HeldOK
  BY <1>1, <1>2, InteractionsAssumption DEF Init, HeldOK
<1>5. \A i \in Calls : PresserOK(i)
  BY DEF Init, NoCall, PresserOK, Kind
<1>6. QED
  BY <1>3, <1>4, <1>5 DEF HInv

(* What every handler leaves alone: who asked for what, and the handlers   *)
(* of the others; and the way it goes on.                                  *)
Proceeds(i) ==
    /\ \A j \in Calls : /\ call'[j].kind = call[j].kind /\ call'[j].user = call[j].user
                        /\ call'[j].search = call[j].search
    /\ \A j \in Calls \ {i} : pc'[j] = pc[j]
    /\ pc'[i] \notin {"Absent", "Arrived"}
    /\ pc[i] = "Answering" => pc'[i] = "Done"
    /\ pc'[i] = "Deferred" => Kind(i) # "Select"
    /\ pc'[i] = "Authorized" => pc[i] = "Deferred"
    /\ pc[i] \notin {"Absent", "Done"}

LEMMA HandlersProceed ==
    ASSUME IInv, NEW i \in Calls, Handle(i)
    PROVE  Proceeds(i)
<1>t. TypeOK /\ WayOK(i)
  BY DEF IInv, CallOK
<1>1. ASSUME NEW step, pc' = [pc EXCEPT ![i] = step]
      PROVE  pc'[i] = step /\ \A j \in Calls \ {i} : pc'[j] = pc[j]
  BY <1>t, <1>1 DEF TypeOK
<1> DEFINE SameRequests == \A j \in Calls : /\ call'[j].kind = call[j].kind
                                            /\ call'[j].user = call[j].user
                                            /\ call'[j].search = call[j].search
<1>2. CASE AnswerAtOnce(i) \/ Defer(i)
  BY <1>t, <1>1, <1>2 DEF AnswerAtOnce, Defer, Go, Proceeds, WayOK, Kinds
<1>3. CASE Authorize(i)
  <2>1. SameRequests
    BY <1>t, <1>3 DEF Authorize, TypeOK, CallRecord
  <2>2. pc[i] = "Deferred" /\ \E step \in {"Authorized", Failing(i)} : Go(i, step)
    BY <1>3 DEF Authorize, Fail, Failing
  <2>3. QED
    BY <1>1, <2>1, <2>2 DEF Proceeds, Go, Failing
<1>4. CASE Prepare(i)
  <2>1. SameRequests
    <3>1. UNCHANGED call \/ \E tracks : call' = [call EXCEPT ![i].tracks = tracks]
      BY <1>4 DEF Prepare
    <3>2. ASSUME NEW tracks, call' = [call EXCEPT ![i].tracks = tracks]
          PROVE  SameRequests
      BY <1>t, <3>2 DEF TypeOK, CallRecord
    <3>3. QED
      BY <3>1, <3>2
  <2>2. /\ pc[i] = "Authorized" /\ Kind(i) \in {"Queue", "Words", "Change", "Look"}
        /\ \E step \in {Prepared(i), Failing(i)} : Go(i, step)
    BY <1>t, <1>4 DEF Prepare, Fail, Failing, WayOK
  <2>3. Prepared(i) \in {"Queueing", "Storing", "Answering"}
    BY <2>2 DEF Prepared
  <2>4. QED
    BY <1>1, <2>1, <2>2, <2>3 DEF Proceeds, Go, Failing
<1>5. CASE Store(i) \/ Choose(i)
  BY <1>1, <1>5 DEF Store, Choose, Fail, Go, Proceeds
<1>6. CASE Enqueue(i)
  BY <1>1, <1>6 DEF Enqueue, Fail, Go, Proceeds
<1>7. CASE Answer(i) \/ Withdraw(i) \/ Refuse(i) \/ Announce(i)
  BY <1>1, <1>7 DEF Answer, Withdraw, Refuse, Announce, Go, Proceeds
<1>8. CASE Respond(i)
  BY <1>1, <1>8 DEF Respond, Go, Proceeds
<1>9. QED
  BY <1>2, <1>3, <1>4, <1>5, <1>6, <1>7, <1>8 DEF Handle

(* A choice that has been made stays made. *)
LEMMA ProceedingKeepsChoices ==
    ASSUME IInv, \A j \in Calls : PresserOK(j), NEW i \in Calls, Proceeds(i)
    PROVE  /\ \A j \in Chosen : /\ j \in Chosen' /\ call'[j].search = call[j].search
                                /\ call'[j].user = call[j].user
           /\ \A j \in Calls : PresserOK(j)'
<1>1. \A j \in Chosen : j \in Chosen'
  BY DEF Proceeds, Chosen, Selections, Kind
<1>2. ASSUME NEW j \in Calls
      PROVE  PresserOK(j)'
  <2>1. Kind(j) = "Select" => call[j].search \in Calls
    BY DEF IInv, CallOK, SelectionOK
  <2>2. QED
    BY <2>1 DEF Proceeds, PresserOK, Kind
<1>3. QED
  BY <1>1, <1>2 DEF Proceeds, Chosen, Selections

(* All steps but those that keep a search or take one. *)
LEMMA OthersKeepHInv ==
    ASSUME HInv, \A j \in Calls : PresserOK(j)',
           UNCHANGED <<searches, created_at>>, old' \in Nat, old <= old',
           \A s \in Stored : call'[s].user = call[s].user /\ pc'[s] \in {"Answering", "Done"},
           \A i \in Chosen : /\ i \in Chosen' /\ call'[i].search = call[i].search
                             /\ call'[i].user = call[i].user
    PROVE  HInv'
<1>1. Stored' = Stored /\ \A s \in Stored : After(s)' = After(s)
  BY DEF Stored, After
<1>2. StampsOK'
  BY <1>1 DEF HInv, StampsOK
<1>3. ASSUME NEW s \in Stored \ searches
      PROVE  Spent(s)'
  <2>1. IsFiniteSet(After(s)')
    BY <1>1, FS_Subset DEF HInv, StampsOK, After
  <2>2. QED
    BY <1>1, <2>1, SpentStays DEF HInv, HeldOK
<1>4. HeldOK'
  BY <1>1, <1>3 DEF HInv, HeldOK
<1>5. QED
  BY <1>2, <1>4 DEF HInv

LEMMA ReceivingKeepsHInv ==
    ASSUME IInv, HInv, NEW i \in Calls, Receive(i) \/ Press(i)
    PROVE  HInv'
<1>t. TypeOK /\ CallOK(i) /\ StampsOK
  BY DEF IInv, HInv
<1>1. /\ pc[i] = "Absent" /\ \E step \in {"Arrived", "Deferred"} : pc' = [pc EXCEPT ![i] = step]
      /\ UNCHANGED <<searches, created_at, old>>
  BY DEF Receive, Press, Fresh, Go, picker
<1>2. /\ \A j \in Calls \ {i} : call'[j] = call[j] /\ pc'[j] = pc[j]
      /\ pc'[i] # "Absent"
  BY <1>t, <1>1 DEF Receive, Press, TypeOK
<1>3. Kind(i) = "None"
  BY <1>1 DEF HInv, PresserOK
<1>4. \A j \in Calls : Kind(j) = "Select" => call[j].search \in Calls \ {i}
  BY <1>1 DEF IInv, CallOK, SelectionOK
<1>5. call'[i].kind = "Select" =>
         /\ call'[i].search \in Calls \ {i}
         /\ call'[i].user = call[call'[i].search].user
  <2>1. CASE Receive(i)
    <3>1. PICK request \in Requests :
             call' = [call EXCEPT ![i] = [@ EXCEPT !.kind = request.kind,
                          !.user = request.user, !.channel = request.channel]]
      BY <2>1 DEF Receive
    <3>2. call'[i].kind = request.kind
      BY <1>t, <3>1 DEF TypeOK, CallRecord
    <3>3. QED
      BY <3>2, InteractionsAssumption DEF Kinds
  <2>2. CASE Press(i)
    <3>1. PICK s \in Calls, user \in Users :
             /\ Sees(user, s)
             /\ \E track \in ToSet(call[s].tracks) :
                   call' = [call EXCEPT ![i] =
                       [kind |-> "Select", user |-> user, channel |-> call[s].channel,
                        voice |-> None, tracks |-> <<track>>, search |-> s]]
      BY <2>2 DEF Press
    <3>2. call'[i].search = s /\ call'[i].user = user
      BY <1>t, <3>1 DEF TypeOK
    <3>3. privately[s] = "Picker" /\ call[s].user = user /\ pc[s] = "Done"
      BY <3>1 DEF Sees, IInv, CallOK, SeenOK
    <3>4. QED
      BY <1>1, <3>2, <3>3
  <2>3. QED
    BY <2>1, <2>2
<1>6. ASSUME NEW j \in Calls
      PROVE  PresserOK(j)'
  BY <1>2, <1>4, <1>5 DEF HInv, PresserOK, Kind
<1>7. \A j \in Chosen : /\ j \in Chosen' /\ call'[j].search = call[j].search
                        /\ call'[j].user = call[j].user
  BY <1>2, <1>3 DEF Chosen, Selections, Kind
<1>8. \A s \in Stored : call'[s].user = call[s].user /\ pc'[s] \in {"Answering", "Done"}
  BY <1>t, <1>1, <1>2 DEF StampsOK, Stored
<1>9. old' \in Nat /\ old <= old'
  BY <1>t, <1>1 DEF StampsOK
<1>10. QED
  BY <1>1, <1>6, <1>7, <1>8, <1>9, OthersKeepHInv

(* A search that is kept is the newest, and it is the oldest one that      *)
(* makes way for it: the others are as many as may be held.                *)
LEMMA MakingRoom ==
    ASSUME StampsOK, NEW held \in SUBSET Stored, Cardinality(held) <= MaxPending
    PROVE  /\ MakeRoom(held) \subseteq held /\ Cardinality(MakeRoom(held)) < MaxPending
           /\ IsFiniteSet(held)
           /\ \A s \in held \ MakeRoom(held) :
                 /\ Cardinality(held) = MaxPending
                 /\ \A t \in held \ {s} : created_at[s] < created_at[t]
<1>1. IsFiniteSet(held) /\ Cardinality(held) \in Nat /\ MaxPending \in Nat \ {0}
  BY FS_Subset, FS_CardinalityType, InteractionsAssumption DEF StampsOK
<1>2. CASE Cardinality(held) < MaxPending
  BY <1>1, <1>2 DEF MakeRoom
<1>3. CASE ~(Cardinality(held) < MaxPending)
  <2>1. Cardinality(held) = MaxPending /\ held # {}
    BY <1>1, <1>3, FS_EmptySet
  <2>2. PICK s \in held : \A t \in held \ {s} : created_at[s] < created_at[t]
    BY <2>1, OldestOf
  <2>3. \A t \in held : created_at[t] \in Nat
    BY DEF StampsOK, Stored
  <2>4. MakeRoom(held) = held \ {s}
    BY <1>3, <2>2, <2>3 DEF MakeRoom
  <2>5. Cardinality(held \ {s}) = Cardinality(held) - 1
    BY <1>1, FS_RemoveElement
  <2>6. QED
    BY <1>1, <2>1, <2>2, <2>4, <2>5
<1>4. QED
  BY <1>2, <1>3

LEMMA StoringKeepsHInv ==
    ASSUME IInv, HInv, NEW i \in Calls, Store(i)
    PROVE  HInv'
<1> DEFINE held == MakeRoom(Unexpired)
           stamp == Cardinality(Stored) + 1
<1>t. TypeOK /\ StampsOK /\ HeldOK
  BY DEF IInv, HInv
<1>1. /\ pc[i] = "Storing" /\ searches' = held \cup {i} /\ old' = old /\ call' = call
      /\ created_at' = [created_at EXCEPT ![i] = stamp] /\ pc' = [pc EXCEPT ![i] = "Answering"]
  BY DEF Store, Go
<1>2. i \notin Stored
  BY <1>t, <1>1 DEF StampsOK
<1>3. Cardinality(Stored) \in Nat /\ stamp \in Nat /\ stamp > 0
  <2>1. Cardinality(Stored) \in Nat
    BY <1>t, FS_CardinalityType DEF StampsOK
  <2>2. QED
    BY <2>1
<1> HIDE DEF stamp
<1>4. /\ created_at' \in [Calls -> Nat] /\ created_at'[i] = stamp
      /\ \A s \in Calls \ {i} : created_at'[s] = created_at[s]
  BY <1>t, <1>1, <1>3 DEF StampsOK
<1>5. Stored' = Stored \cup {i}
  BY <1>3, <1>4 DEF Stored
<1>6. IsFiniteSet(Stored') /\ Cardinality(Stored') = stamp
  BY <1>t, <1>2, <1>5, FS_AddElement DEF StampsOK, stamp
<1>7. \A s \in Stored : created_at[s] \in Nat /\ created_at[s] < stamp /\ s # i
  BY <1>t, <1>2, <1>3 DEF StampsOK, Stored, stamp
<1>8. StampsOK'
  <2>1. pc'[i] = "Answering" /\ \A s \in Calls \ {i} : pc'[s] = pc[s]
    BY <1>t, <1>1 DEF TypeOK
  <2>a. \A s \in Stored : created_at'[s] = created_at[s] /\ created_at'[s] < stamp
    BY <1>4, <1>7 DEF Stored
  <2>2. \A s \in Stored' : created_at'[s] <= stamp /\ pc'[s] \in {"Answering", "Done"}
    <3>1. created_at'[i] <= stamp
      BY <1>3, <1>4
    <3>2. \A s \in Stored : created_at'[s] <= stamp
      BY <1>3, <1>7, <2>a
    <3>3. \A s \in Stored : pc'[s] \in {"Answering", "Done"}
      BY <1>t, <1>7, <2>1 DEF StampsOK, Stored
    <3>4. QED
      BY <1>5, <2>1, <3>1, <3>2, <3>3
  <2>3. \A s, t \in Stored' : created_at'[s] = created_at'[t] => s = t
    <3>1. \A s \in Stored : created_at'[s] # created_at'[i]
      BY <1>3, <1>4, <1>7, <2>a
    <3>2. \A s, t \in Stored : created_at'[s] = created_at'[t] => s = t
      BY <1>t, <2>a DEF StampsOK
    <3>3. QED
      BY <1>5, <3>1, <3>2
  <2>4. QED
    BY <1>t, <1>1, <1>4, <1>6, <2>2, <2>3 DEF StampsOK
<1>9. Proceeds(i) /\ \A j \in Calls : PresserOK(j)
  BY HandlersProceed DEF Handle, HInv
<1>10. Unexpired \subseteq searches /\ Unexpired \subseteq Stored
  BY <1>t DEF Unexpired, HeldOK
<1>11. Cardinality(Unexpired) <= MaxPending
  <2>1. IsFiniteSet(searches)
    BY <1>t, FS_Subset DEF HeldOK, StampsOK
  <2>2. Cardinality(Unexpired) <= Cardinality(searches)
    BY <1>10, <2>1, FS_Subset
  <2>3. Cardinality(Unexpired) \in Nat /\ Cardinality(searches) \in Nat
    BY <1>10, <2>1, FS_Subset, FS_CardinalityType
  <2>4. QED
    BY <1>t, <2>2, <2>3, InteractionsAssumption DEF HeldOK
<1>12. /\ held \subseteq Unexpired /\ Cardinality(held) < MaxPending /\ IsFiniteSet(Unexpired)
       /\ \A s \in Unexpired \ held :
             /\ Cardinality(Unexpired) = MaxPending
             /\ \A t \in Unexpired \ {s} : created_at[s] < created_at[t]
  BY <1>t, <1>10, <1>11, MakingRoom
<1> HIDE DEF held
<1>13. Cardinality(searches') <= MaxPending
  <2>1. i \notin held /\ IsFiniteSet(held)
    BY <1>2, <1>10, <1>12, FS_Subset
  <2>2. Cardinality(held) \in Nat /\ Cardinality(held \cup {i}) = Cardinality(held) + 1
    BY <2>1, FS_CardinalityType, FS_AddElement
  <2>3. QED
    BY <1>1, <1>12, <2>2, InteractionsAssumption
<1>14. searches' \subseteq Stored'
  BY <1>1, <1>5, <1>10, <1>12
<1>15. ASSUME NEW s \in Stored' \ searches'
       PROVE  Spent(s)'
  <2>1. s \in Stored /\ s \notin held /\ s # i
    BY <1>1, <1>5
  <2>2. After(s)' = After(s) \cup {i}
    <3>1. \A t \in Stored : created_at'[t] = created_at[t]
      BY <1>4, <1>7 DEF Stored
    <3>2. created_at'[i] > created_at'[s]
      BY <1>3, <1>4, <1>7, <2>1, <3>1
    <3>3. QED
      BY <1>5, <2>1, <3>1, <3>2 DEF After
  <2>3. IsFiniteSet(After(s)')
    BY <1>6, FS_Subset DEF After
  <2>4. CASE s \in Unexpired
    <3>1. /\ Cardinality(Unexpired) = MaxPending
          /\ \A t \in Unexpired \ {s} : created_at[s] < created_at[t]
      BY <1>12, <2>1, <2>4
    <3>2. \A t \in (Unexpired \ {s}) : t \in After(s)
      <4>1. \A t \in Unexpired : t \in Stored /\ created_at[t] \in Nat
        BY <1>7, <1>10
      <4>2. created_at[s] \in Nat
        BY <1>7, <2>1
      <4>3. QED
        BY <3>1, <4>1, <4>2 DEF After
    <3>3. (Unexpired \ {s}) \cup {i} \subseteq After(s)'
      BY <2>2, <3>2
    <3>4. Cardinality((Unexpired \ {s}) \cup {i}) = MaxPending
      <4>1. /\ IsFiniteSet(Unexpired \ {s})
            /\ Cardinality(Unexpired \ {s}) = Cardinality(Unexpired) - 1
        BY <1>12, <2>4, FS_RemoveElement
      <4>2. i \notin Unexpired \ {s}
        BY <1>2, <1>10
      <4>3. Cardinality((Unexpired \ {s}) \cup {i}) = Cardinality(Unexpired \ {s}) + 1
        BY <4>1, <4>2, FS_AddElement
      <4>4. QED
        BY <3>1, <4>1, <4>3, InteractionsAssumption
    <3>5. Cardinality((Unexpired \ {s}) \cup {i}) <= Cardinality(After(s)')
      BY <2>3, <3>3, FS_Subset
    <3>6. QED
      BY <3>4, <3>5 DEF Spent
  <2>5. CASE s \in searches \ Unexpired
    <3>1. created_at[s] <= old
      BY <1>t, <1>7, <2>1, <2>5 DEF Unexpired, StampsOK
    <3>2. QED
      BY <1>1, <1>4, <2>1, <3>1 DEF Spent, Stored
  <2>6. CASE s \notin searches
    <3>1. Spent(s)
      BY <1>t, <2>1, <2>6 DEF HeldOK
    <3>2. \A j \in Chosen : /\ j \in Chosen' /\ call'[j].search = call[j].search
                            /\ call'[j].user = call[j].user
      BY <1>9, ProceedingKeepsChoices
    <3>3. old' \in Nat /\ old <= old'
      BY <1>t, <1>1 DEF StampsOK
    <3>4. created_at'[s] = created_at[s] /\ call'[s].user = call[s].user
      BY <1>1, <1>4, <2>1 DEF Stored
    <3>5. After(s) \subseteq After(s)'
      BY <2>2
    <3>6. QED
      BY <1>t, <2>1, <2>3, <3>1, <3>2, <3>3, <3>4, <3>5, SpentStays
  <2>7. QED
    BY <1>10, <2>4, <2>5, <2>6
<1>16. \A j \in Calls : PresserOK(j)'
  BY <1>9, ProceedingKeepsChoices
<1>17. QED
  BY <1>8, <1>13, <1>14, <1>15, <1>16 DEF HInv, HeldOK

(* A choice takes its search, and whoever made it was offered it. *)
LEMMA ChoosingKeepsHInv ==
    ASSUME IInv, HInv, NEW i \in Calls, Choose(i)
    PROVE  HInv'
<1>t. TypeOK /\ StampsOK /\ HeldOK /\ PresserOK(i)
  BY DEF IInv, HInv
<1>1. /\ pc[i] = "Authorized" /\ Kind(i) = "Select" /\ created_at' = created_at /\ old' = old
      /\ call' = call /\ searches' = Unexpired \ {call[i].search}
      /\ \E step \in {"Queueing", "Responding"} : pc' = [pc EXCEPT ![i] = step]
  BY DEF Choose, Go, Fail
<1>2. Proceeds(i) /\ \A j \in Calls : PresserOK(j)
  BY HandlersProceed DEF Handle, HInv
<1>3. /\ \A j \in Chosen : /\ j \in Chosen' /\ call'[j].search = call[j].search
                           /\ call'[j].user = call[j].user
      /\ \A j \in Calls : PresserOK(j)'
  BY <1>2, ProceedingKeepsChoices
<1>4. Stored' = Stored /\ \A s \in Stored : After(s)' = After(s)
  BY <1>1 DEF Stored, After
<1>5. i \in Chosen'
  BY <1>t, <1>1 DEF TypeOK, Chosen, Selections, Kind
<1>6. i \notin Stored
  BY <1>t, <1>1 DEF StampsOK
<1>7. StampsOK'
  <2>1. \A s \in Stored : pc'[s] = pc[s]
    BY <1>2, <1>6 DEF Proceeds, Stored
  <2>2. QED
    BY <1>t, <1>1, <1>4, <2>1 DEF StampsOK
<1>8. ASSUME NEW s \in Stored \ searches'
      PROVE  Spent(s)'
  <2>1. CASE s \notin searches
    <3>1. Spent(s) /\ IsFiniteSet(After(s)')
      BY <1>t, <1>4, <2>1, FS_Subset DEF HeldOK, StampsOK, After
    <3>2. old' \in Nat /\ old <= old'
      BY <1>t, <1>1 DEF StampsOK
    <3>3. QED
      BY <1>t, <1>1, <1>3, <1>4, <3>1, <3>2, SpentStays
  <2>2. CASE s \in searches \ Unexpired
    <3>1. created_at[s] <= old
      BY <1>t, <2>2 DEF Unexpired, StampsOK, Stored
    <3>2. QED
      BY <1>1, <3>1 DEF Spent
  <2>3. CASE s = call[i].search
    BY <1>t, <1>1, <1>5, <2>3 DEF PresserOK, Spent
  <2>4. QED
    BY <1>1, <2>1, <2>2, <2>3
<1>9. HeldOK'
  <2>1. searches' \subseteq searches
    BY <1>1 DEF Unexpired
  <2>2. IsFiniteSet(searches)
    BY <1>t, FS_Subset DEF HeldOK, StampsOK
  <2>3. /\ Cardinality(searches') <= Cardinality(searches)
        /\ Cardinality(searches') \in Nat /\ Cardinality(searches) \in Nat
    BY <2>1, <2>2, FS_Subset, FS_CardinalityType
  <2>4. Cardinality(searches') <= MaxPending
    BY <1>t, <2>3, InteractionsAssumption DEF HeldOK
  <2>5. QED
    BY <1>t, <1>4, <1>8, <2>1, <2>4 DEF HeldOK
<1>10. QED
  BY <1>3, <1>7, <1>9 DEF HInv

LEMMA NextKeepsHInv ==
    ASSUME IInv, HInv, [Next]_vars
    PROVE  HInv'
<1>t. StampsOK
  BY DEF HInv
<1>1. ASSUME UNCHANGED <<call, pc, searches, created_at>>, old' \in Nat, old <= old'
      PROVE  HInv'
  <2>1. \A j \in Calls : PresserOK(j)'
    BY <1>1 DEF HInv, PresserOK, Kind
  <2>2. Chosen' = Chosen
    BY <1>1 DEF Chosen, Selections, Kind
  <2>3. QED
    BY <1>t, <1>1, <2>1, <2>2, OthersKeepHInv DEF StampsOK
<1>2. ASSUME NEW i \in Calls, Handle(i), ~Store(i), ~Choose(i)
      PROVE  HInv'
  <2>1. UNCHANGED <<searches, created_at, old>>
    BY <1>2 DEF Handle, AnswerAtOnce, Defer, Authorize, Prepare, Enqueue, Answer, Withdraw,
       Refuse, Respond, Announce, picker
  <2>2. Proceeds(i)
    BY <1>2, HandlersProceed
  <2>3. /\ \A j \in Chosen : /\ j \in Chosen' /\ call'[j].search = call[j].search
                             /\ call'[j].user = call[j].user
        /\ \A j \in Calls : PresserOK(j)'
    BY <2>2, ProceedingKeepsChoices DEF HInv
  <2>4. \A s \in Stored : call'[s].user = call[s].user /\ pc'[s] \in {"Answering", "Done"}
    BY <1>t, <2>2 DEF Proceeds, StampsOK, Stored
  <2>5. QED
    BY <1>t, <2>1, <2>3, <2>4, OthersKeepHInv DEF StampsOK
<1>3. CASE SearchAges
  <2>1. old' = old + 1 /\ UNCHANGED <<call, pc, searches, created_at>>
    BY <1>3 DEF SearchAges, task
  <2>2. old' \in Nat /\ old <= old'
    BY <1>t, <2>1 DEF StampsOK
  <2>3. QED
    BY <1>1, <2>1, <2>2
<1>4. CASE SessionMovesOn \/ UNCHANGED vars
  BY <1>t, <1>1, <1>4 DEF SessionMovesOn, vars, task, picker, StampsOK
<1>5. QED
  BY <1>2, <1>3, <1>4, ReceivingKeepsHInv, StoringKeepsHInv, ChoosingKeepsHInv DEF Next

(* The map of pending searches is bounded, and a search is missing from it *)
(* only when its requester has used it, its time is up, or as many newer   *)
(* ones as the map holds have been made (play, prune_searches and          *)
(* dispatch_component in src/src/discord.rs).                              *)
THEOREM SearchesCorrect == Spec => []NewestSearchesAreHeld
<1>1. Init => IInv /\ HInv
  BY InitIInv, InitHInv
<1>2. IInv /\ HInv /\ [Next]_vars => (IInv /\ HInv)'
  BY NextKeepsIInv, NextKeepsHInv
<1>3. HInv => NewestSearchesAreHeld
  BY DEF HInv, HeldOK, NewestSearchesAreHeld, Spent, After
<1>4. QED
  BY <1>1, <1>2, <1>3, PTL DEF Spec

=============================================================================
