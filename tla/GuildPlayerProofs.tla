-------------------------- MODULE GuildPlayerProofs --------------------------
(***************************************************************************)
(* Theorems about GuildPlayer, for every set of items, users and channels  *)
(* and every bound.                                                        *)
(***************************************************************************)
EXTENDS GuildPlayer, TLAPS, SequenceTheorems, FiniteSetTheorems

-----------------------------------------------------------------------------
(* Sequences.                                                              *)

(* A sequence cut short at both ends. *)
LEMMA SliceProperties ==
    ASSUME NEW S, NEW s \in Seq(S), NEW m \in Nat \ {0}, NEW n \in Nat, n <= Len(s)
    PROVE  /\ SubSeq(s, m, n) \in Seq(S)
           /\ Len(SubSeq(s, m, n)) = IF m <= n THEN n - m + 1 ELSE 0
           /\ \A i \in 1..Len(SubSeq(s, m, n)) :
                 m + i - 1 \in 1..Len(s) /\ SubSeq(s, m, n)[i] = s[m + i - 1]
<1>1. \A i \in m..n : s[i] \in S
  <2>1. \A i \in m..n : i \in 1..Len(s)
    BY LenProperties
  <2>2. QED
    BY <2>1, ElementOfSeq
<1>2. QED
  BY <1>1, SubSeqProperties

(* Each element of t is an element of s, from a place of its own outside   *)
(* `left'.                                                                 *)
PickedFrom(t, s, left) ==
    \E at \in [1..Len(t) -> 1..Len(s)] :
        /\ \A j \in 1..Len(t) : t[j] = s[at[j]] /\ at[j] \notin left
        /\ \A a, b \in 1..Len(t) : at[a] = at[b] => a = b

(* What is before and after a run, put together: every element comes from  *)
(* a place of its own, outside the run.                                    *)
LEMMA PlacesOfACut ==
    ASSUME NEW S, NEW s \in Seq(S), NEW from \in 1..Len(s), NEW to \in Nat, from <= to,
           NEW before \in Seq(S), Len(before) = from - 1,
           \A i \in 1..(from - 1) : before[i] = s[i],
           NEW after \in Seq(S), Len(after) = IF to < Len(s) THEN Len(s) - to ELSE 0,
           \A i \in 1..Len(after) : after[i] = s[to + i]
    PROVE  /\ Len(before \o after) < Len(s)
           /\ PickedFrom(before \o after, s, from..to)
<1> DEFINE cut == before \o after
           at == [j \in 1..Len(cut) |-> IF j <= from - 1 THEN j ELSE to + (j - (from - 1))]
<1>1. Len(s) \in Nat
  BY LenProperties
<1>2. /\ Len(cut) = from - 1 + Len(after)
      /\ \A i \in 1..Len(cut) :
            cut[i] = IF i <= from - 1 THEN before[i] ELSE after[i - (from - 1)]
  <2>1. /\ Len(before \o after) = Len(before) + Len(after)
        /\ \A i \in 1..(Len(before) + Len(after)) :
              (before \o after)[i] = IF i <= Len(before) THEN before[i]
                                                       ELSE after[i - Len(before)]
    BY ConcatProperties
  <2>2. QED
    BY <2>1
<1> HIDE DEF cut
<1>3. Len(cut) < Len(s)
  BY <1>1, <1>2
<1>4. at \in [1..Len(cut) -> 1..Len(s)]
  BY <1>1, <1>2
<1>5. \A j \in 1..Len(cut) : cut[j] = s[at[j]] /\ at[j] \notin from..to
  <2> SUFFICES ASSUME NEW j \in 1..Len(cut)
               PROVE  cut[j] = s[at[j]] /\ at[j] \notin from..to
    OBVIOUS
  <2>1. CASE j <= from - 1
    <3>1. at[j] = j /\ cut[j] = before[j] /\ j \in 1..(from - 1)
      BY <1>2, <2>1
    <3>2. QED
      BY <3>1
  <2>2. CASE ~(j <= from - 1)
    <3>1. j - (from - 1) \in 1..Len(after)
      BY <1>2, <2>2
    <3>2. at[j] = to + (j - (from - 1)) /\ cut[j] = after[j - (from - 1)]
      BY <1>2, <2>2
    <3>3. after[j - (from - 1)] = s[to + (j - (from - 1))]
      BY <3>1
    <3>4. to + (j - (from - 1)) \notin from..to
      BY <1>1, <1>2, <3>1, <2>2
    <3>5. QED
      BY <3>2, <3>3, <3>4
  <2>3. QED
    BY <2>1, <2>2
<1>6. \A a, b \in 1..Len(cut) : at[a] = at[b] => a = b
  BY <1>1, <1>2
<1> HIDE DEF at
<1>7. QED
  BY <1>3, <1>4, <1>5, <1>6 DEF cut, PickedFrom

(* A sequence with a run cut out of it: what is left keeps its order. *)
LEMMA CutProperties ==
    ASSUME NEW S, NEW s \in Seq(S), NEW from \in 1..Len(s), NEW to \in Nat, from <= to
    PROVE  /\ CutOut(s, from, to) \in Seq(S)
           /\ Len(CutOut(s, from, to)) < Len(s)
           /\ PickedFrom(CutOut(s, from, to), s, from..to)
<1> DEFINE before == SubSeq(s, 1, from - 1)
           after == SubSeq(s, to + 1, Len(s))
<1>1. Len(s) \in Nat
  BY LenProperties
<1>2. /\ before \in Seq(S)
      /\ Len(before) = from - 1
      /\ \A i \in 1..(from - 1) : before[i] = s[i]
  <2>1. from - 1 \in Nat /\ from - 1 <= Len(s)
    BY <1>1
  <2>2. QED
    BY <1>1, <2>1, SliceProperties
<1>3. /\ after \in Seq(S)
      /\ Len(after) = IF to < Len(s) THEN Len(s) - to ELSE 0
      /\ \A i \in 1..Len(after) : after[i] = s[to + i]
  BY <1>1, SliceProperties
<1>4. CutOut(s, from, to) = before \o after
  BY DEF CutOut
<1> HIDE DEF before, after
<1>5. before \o after \in Seq(S)
  BY <1>2, <1>3, ConcatProperties
<1>6. /\ Len(before \o after) < Len(s)
      /\ PickedFrom(before \o after, s, from..to)
  BY <1>2, <1>3, PlacesOfACut
<1>7. QED
  BY <1>4, <1>5, <1>6

(* Picking from a sequence without repetition repeats nothing, and leaves  *)
(* out what was not to be picked.                                          *)
LEMMA PickedFromInjective ==
    ASSUME NEW S, NEW s \in Seq(S), IsInjective(s), NEW t \in Seq(S),
           NEW left, PickedFrom(t, s, left)
    PROVE  /\ IsInjective(t)
           /\ Range(t) \subseteq Range(s)
           /\ \A i \in 1..Len(s) : i \in left => s[i] \notin Range(t)
<1>1. DOMAIN t = 1..Len(t) /\ DOMAIN s = 1..Len(s)
  BY LenProperties
<1>2. PICK at \in [1..Len(t) -> 1..Len(s)] :
         /\ \A j \in 1..Len(t) : t[j] = s[at[j]] /\ at[j] \notin left
         /\ \A a, b \in 1..Len(t) : at[a] = at[b] => a = b
  BY DEF PickedFrom
<1>3. \A j \in 1..Len(t) : at[j] \in 1..Len(s)
  OBVIOUS
<1>4. IsInjective(t)
  BY <1>1, <1>2, <1>3 DEF IsInjective
<1>5. Range(t) \subseteq Range(s)
  BY <1>1, <1>2, <1>3 DEF Range
<1>6. ASSUME NEW i \in 1..Len(s), i \in left
      PROVE  s[i] \notin Range(t)
  <2> SUFFICES ASSUME NEW j \in 1..Len(t) PROVE t[j] # s[i]
    BY <1>1 DEF Range
  <2>1. at[j] # i
    BY <1>2, <1>6
  <2>2. QED
    BY <2>1, <1>1, <1>2, <1>3 DEF IsInjective
<1>7. QED
  BY <1>4, <1>5, <1>6

-----------------------------------------------------------------------------
(* Types.                                                                  *)

(* The types of the session's own fields, what it sends and says apart. *)
FieldsOK ==
    /\ running \in BOOLEAN
    /\ current \in Items \cup {None}
    /\ pending \in Seq(Items)
    /\ voice_channel_id \in VoiceChannels \cup {None}
    /\ text_channel_id \in TextChannels \cup {None}
    /\ hold \in Hold
    /\ votes \subseteq Users
    /\ history \in Seq(Items)
    /\ repeat \in RepeatMode
    /\ shuffle \in BOOLEAN
    /\ volume_percent \in 1..MaxVolume
    /\ idle_deadline \in BOOLEAN
AnswerOK == emitted \in PlayerTransition /\ reply \in PlayerError \cup {"Ok"}

LEMMA TypeOKSplits == TypeOK <=> FieldsOK /\ AnswerOK
BY DEF TypeOK, FieldsOK, AnswerOK

LEMMA TypeOKSplitsNext == TypeOK' <=> FieldsOK' /\ AnswerOK'
BY DEF TypeOK, FieldsOK, AnswerOK

LEMMA TransitionType ==
    /\ \A directive \in PlaybackDirective : Transition(directive) \in PlayerTransition
    /\ \A directive \in PlaybackDirective, target \in Items \cup VoiceChannels :
          TransitionTo(directive, target) \in PlayerTransition
    /\ \A item \in Items : Answered(item) \in PlayerTransition
BY DEF Transition, TransitionTo, Answered, PlayerTransition, PlaybackDirective

LEMMA AcceptType ==
    ASSUME NEW transition \in PlayerTransition, Accept(transition)
    PROVE  AnswerOK'
BY DEF Accept, AnswerOK

LEMMA RefuseType ==
    ASSUME TypeOK, NEW error \in PlayerError, Refuse(error)
    PROVE  TypeOK'
<1>1. AnswerOK'
  <2>1. Transition("None") \in PlayerTransition
    BY TransitionType DEF PlaybackDirective
  <2>2. QED
    BY <2>1 DEF Refuse, AnswerOK
<1>2. FieldsOK'
  BY TypeOKSplits DEF Refuse, session, FieldsOK
<1>3. QED
  BY <1>1, <1>2, TypeOKSplitsNext

LEMMA InitType == Init => TypeOK
<1>1. <<>> \in Seq(Items)
  BY EmptySeq
<1>2. Transition("None") \in PlayerTransition
  BY TransitionType DEF PlaybackDirective
<1>3. QED
  BY <1>1, <1>2, ConstantsAssumption DEF Init, TypeOK, Hold, RepeatMode

(* A playlist, and as much of it as there is room for. *)
LEMMA FittingProperties ==
    ASSUME FieldsOK, Length < MaxTracks, NEW items \in Playlists, items # <<>>
    PROVE  /\ Fitting(items) \in Seq(Items)
           /\ Fitting(items) # <<>>
           /\ IsInjective(Fitting(items))
           /\ Range(Fitting(items)) \subseteq Fresh
           /\ Length + Len(Fitting(items)) <= MaxTracks
<1> DEFINE room == MaxTracks - Length
<1>0. MaxTracks \in Nat
  BY ConstantsAssumption
<1>1. Length \in Nat /\ room \in Nat \ {0}
  BY LenProperties, ConstantsAssumption DEF Length, FieldsOK
<1>2. PICK n \in 0..MaxBatch : items \in [1..n -> Fresh]
  BY DEF Playlists
<1>3. /\ items \in Seq(Fresh)
      /\ Len(items) = n
      /\ n \in Nat \ {0}
  BY <1>2, ConstantsAssumption
<1>4. Fresh \subseteq Items
  BY DEF Fresh
<1>5. IsInjective(items)
  BY DEF Playlists
<1>s. ASSUME NEW s \in Seq(Fresh)
      PROVE  s \in Seq(Items)
  BY <1>4
<1>6. CASE ~(room < Len(items))
  <2>1. Fitting(items) = items
    BY <1>6 DEF Fitting
  <2>2. Length + Len(items) <= MaxTracks
    BY <1>0, <1>1, <1>3, <1>6
  <2>3. QED
    BY <1>3, <1>5, <1>s, <2>1, <2>2, RangeOfSeq
<1>7. CASE room < Len(items)
  <2>1. /\ SubSeq(items, 1, room) \in Seq(Fresh)
        /\ Len(SubSeq(items, 1, room)) = room
        /\ \A i \in 1..room : SubSeq(items, 1, room)[i] = items[i]
    BY <1>1, <1>3, <1>7, SliceProperties
  <2>2. IsInjective(SubSeq(items, 1, room))
    BY <1>1, <1>3, <1>5, <1>7, <2>1, LenProperties DEF IsInjective
  <2>3. QED
    <3>1. Fitting(items) = SubSeq(items, 1, room)
      BY <1>7 DEF Fitting
    <3>2. SubSeq(items, 1, room) # <<>>
      BY <1>1, <2>1, EmptySeq
    <3>3. Length + room <= MaxTracks
      BY <1>0, <1>1
    <3>4. QED
      BY <1>s, <2>1, <2>2, <3>1, <3>2, <3>3, RangeOfSeq
<1>8. QED
  BY <1>6, <1>7

(* A session that takes more tracks. *)
LEMMA AddType ==
    ASSUME FieldsOK, NEW items \in Seq(Items), items # <<>>,
           NEW channel \in VoiceChannels, Add(items, channel)
    PROVE  FieldsOK' /\ current' \in Items
<1>1. Last(items) \in Items
  <2>1. Len(items) \in 1..Len(items)
    BY LenProperties, EmptySeq, SeqEqual
  <2>2. QED
    BY <2>1, ElementOfSeq DEF Last
<1>2. text_channel_id' \in TextChannels
  BY <1>1, ConstantsAssumption DEF Add
<1>3. Head(items) \in Items /\ pending \o items \in Seq(Items)
      /\ pending \o Tail(items) \in Seq(Items)
  BY HeadTailProperties, ConcatProperties DEF FieldsOK
<1>4. CASE current # None /\ voice_channel_id = None /\ Wake(items, channel)
  BY <1>2, <1>3, <1>4 DEF Add, Wake, ResumeHeld, FieldsOK, Hold
<1>5. CASE current = None /\ Begin(items, channel)
  BY <1>2, <1>3, <1>5 DEF Add, Begin, FieldsOK
<1>6. CASE current # None /\ voice_channel_id # None /\ Wait(items)
  BY <1>2, <1>3, <1>6 DEF Add, Wait, FieldsOK
<1>7. QED
  BY <1>4, <1>5, <1>6 DEF Add

(* A session that moves on. *)
LEMMA RememberType ==
    ASSUME history \in Seq(Items), NEW item \in Items
    PROVE  Remember(item) \in Seq(Items)
<1>1. Append(history, item) \in Seq(Items)
  BY AppendProperties
<1>2. CASE Len(history) = HistoryLength
  <2>1. history # <<>>
    BY <1>2, EmptySeq, ConstantsAssumption
  <2>2. Append(Tail(history), item) \in Seq(Items)
    BY <2>1, HeadTailProperties, AppendProperties
  <2>3. QED
    BY <1>1, <2>2 DEF Remember
<1>3. QED
  BY <1>1, <1>2 DEF Remember

LEMMA RequeuedType ==
    ASSUME FieldsOK, NEW left \in Items, NEW reason \in Departure
    PROVE  Requeued(left, reason) \in Seq(Items)
BY AppendProperties DEF Requeued, FieldsOK

LEMMA RemoveAtType ==
    ASSUME NEW S, NEW s \in Seq(S), NEW k \in 1..Len(s)
    PROVE  /\ RemoveAt(s, k) \in Seq(S)
           /\ Len(RemoveAt(s, k)) < Len(s)
<1>1. k \in Nat /\ k <= k
  BY LenProperties
<1>2. RemoveAt(s, k) = CutOut(s, k, k)
  BY DEF RemoveAt, CutOut
<1>3. QED
  BY <1>1, <1>2, CutProperties

LEMMA AdvanceType ==
    ASSUME FieldsOK, NEW left \in Items, NEW reason \in Departure,
           NEW start \in Starting, Advance(left, reason, start)
    PROVE  TypeOK'
<1>1. Filed(left, reason) \in Seq(Items)
  BY RememberType DEF Filed, FieldsOK
<1>2. current' \in Items \cup {None} /\ pending' \in Seq(Items)
  <2>1. CASE PlaysAgain(reason)
    BY <2>1 DEF Advance, FieldsOK
  <2>2. CASE Requeued(left, reason) = <<>> /\ current' = None /\ pending' = <<>>
    BY <2>2, EmptySeq
  <2>3. ASSUME NEW k \in NextPositions(Requeued(left, reason)),
               current' = Requeued(left, reason)[k],
               pending' = RemoveAt(Requeued(left, reason), k)
        PROVE  current' \in Items \cup {None} /\ pending' \in Seq(Items)
    <3>1. Requeued(left, reason) \in Seq(Items)
      BY RequeuedType
    <3>2. k \in 1..Len(Requeued(left, reason))
      BY <3>1, LenProperties DEF NextPositions
    <3>3. QED
      BY <2>3, <3>1, <3>2, ElementOfSeq, RemoveAtType
  <2>4. QED
    BY <2>1, <2>2, <2>3 DEF Advance
<1>3. AnswerOK'
  <2>1. /\ Transition("Stop") \in PlayerTransition
        /\ current' # None => TransitionTo(start, current') \in PlayerTransition
    BY <1>2, TransitionType DEF PlaybackDirective, Starting
  <2>2. QED
    BY <2>1, AcceptType DEF Advance
<1>4. FieldsOK'
  BY <1>1, <1>2 DEF Advance, FieldsOK, Hold
<1>5. QED
  BY <1>3, <1>4, TypeOKSplitsNext

LEMMA ClearSessionType ==
    ASSUME FieldsOK, ClearSession, running' \in BOOLEAN
    PROVE  FieldsOK'
<1>1. <<>> \in Seq(Items)
  BY EmptySeq
<1>2. QED
  BY <1>1 DEF ClearSession, FieldsOK, Hold, RepeatMode

LEMMA RearrangeType ==
    ASSUME FieldsOK, NEW waiting \in Seq(Items), Rearrange(waiting)
    PROVE  TypeOK'
<1>1. Transition("None") \in PlayerTransition
  BY TransitionType DEF PlaybackDirective
<1>2. AnswerOK'
  BY <1>1, AcceptType DEF Rearrange
<1>3. FieldsOK'
  BY DEF Rearrange, FieldsOK
<1>4. QED
  BY <1>2, <1>3, TypeOKSplitsNext

(* A command that changes some fields, each to a value of its type, and    *)
(* sends a transition.                                                     *)
LEMMA AcceptedType ==
    ASSUME FieldsOK', NEW directive \in PlaybackDirective, Accept(Transition(directive))
    PROVE  TypeOK'
<1>1. AnswerOK'
  BY TransitionType, AcceptType
<1>2. QED
  BY <1>1, TypeOKSplitsNext

LEMMA UnchangedType ==
    ASSUME FieldsOK, UNCHANGED session
    PROVE  FieldsOK'
BY DEF FieldsOK, session

-----------------------------------------------------------------------------
LEMMA RequestingType ==
    ASSUME TypeOK, Requesting
    PROVE  TypeOK'
<1>f. FieldsOK
  BY TypeOKSplits
<1>d. {"Play", "None"} \subseteq PlaybackDirective
  BY DEF PlaybackDirective
<1>e. {"QueueFull", "VoiceChannelConflict"} \subseteq PlayerError
  BY DEF PlayerError
<1>1. ASSUME NEW item \in Fresh, NEW channel \in VoiceChannels, Enqueue(item, channel)
      PROVE  TypeOK'
  <2>1. CASE Refuse("QueueFull") \/ Refuse("VoiceChannelConflict")
    BY <2>1, <1>e, RefuseType
  <2>2. CASE /\ Add(<<item>>, channel)
             /\ Accept(IF StartsPlayback THEN Answered(current') ELSE Transition("None"))
    <3>1. item \in Items
      BY DEF Fresh
    <3>2. <<item>> \in Seq(Items) /\ <<item>> # <<>>
      BY <3>1
    <3>3. FieldsOK' /\ current' \in Items
      BY <1>f, <2>2, <3>2, AddType
    <3>4. AnswerOK'
      BY <1>d, <2>2, <3>3, TransitionType, AcceptType
    <3>5. QED
      BY <3>3, <3>4, TypeOKSplitsNext
  <2>3. QED
    BY <1>1, <2>1, <2>2 DEF Enqueue
<1>2. ASSUME NEW items \in Playlists, NEW channel \in VoiceChannels, EnqueueAll(items, channel)
      PROVE  TypeOK'
  <2>1. CASE Refuse("QueueFull") \/ Refuse("VoiceChannelConflict")
    BY <2>1, <1>e, RefuseType
  <2>2. CASE Accept(Transition("None")) /\ UNCHANGED session
    BY <1>d, <1>f, <2>2, UnchangedType, AcceptedType
  <2>3. CASE /\ Length < MaxTracks
             /\ items # <<>>
             /\ Add(Fitting(items), channel)
             /\ Accept(IF StartsPlayback THEN TransitionTo("Play", current')
                                         ELSE Transition("None"))
    <3>1. Fitting(items) \in Seq(Items) /\ Fitting(items) # <<>>
      BY <1>f, <2>3, FittingProperties
    <3>2. FieldsOK' /\ current' \in Items
      BY <1>f, <2>3, <3>1, AddType
    <3>3. AnswerOK'
      BY <1>d, <2>3, <3>2, TransitionType, AcceptType
    <3>4. QED
      BY <3>2, <3>3, TypeOKSplitsNext
  <2>4. QED
    BY <1>2, <2>1, <2>2, <2>3 DEF EnqueueAll
<1>3. QED
  BY <1>1, <1>2 DEF Requesting

LEMMA EditingType ==
    ASSUME TypeOK, Editing
    PROVE  TypeOK'
<1>f. FieldsOK
  BY TypeOKSplits
<1>p. pending \in Seq(Items) /\ DOMAIN pending = 1..Len(pending)
  BY <1>f, LenProperties DEF FieldsOK
<1>n. "None" \in PlaybackDirective
  BY DEF PlaybackDirective
<1>e. "NoSuchPosition" \in PlayerError
  BY DEF PlayerError
<1>1. CASE Clear
  <2>1. <<>> \in Seq(Items)
    BY EmptySeq
  <2>2. QED
    BY <1>f, <1>1, <2>1, RearrangeType DEF Clear
<1>2. ASSUME NEW position \in 0..MaxTracks, RemovePosition(position)
      PROVE  TypeOK'
  <2>1. CASE Refuse("NoSuchPosition")
    BY <1>e, <2>1, RefuseType
  <2>2. CASE position \in 1..Len(pending) /\ Rearrange(RemoveAt(pending, position))
    BY <1>f, <1>p, <2>2, RemoveAtType, RearrangeType
  <2>3. QED
    BY <1>2, <2>1, <2>2 DEF RemovePosition
<1>3. ASSUME NEW from \in 0..MaxTracks, NEW to \in 0..MaxTracks, RemoveRange(from, to)
      PROVE  TypeOK'
  <2> DEFINE end == IF to < from THEN from ELSE to
             kept == CutOut(pending, from, end)
  <2>1. CASE Refuse("NoSuchPosition")
    BY <1>e, <2>1, RefuseType
  <2>2. CASE from \in 1..Len(pending) /\ Rearrange(kept)
    <3>1. end \in Nat /\ from <= end
      BY ConstantsAssumption
    <3>2. kept \in Seq(Items)
      <4> HIDE DEF end
      <4>1. QED
        BY <1>p, <2>2, <3>1, CutProperties
    <3>3. QED
      BY <1>f, <2>2, <3>2, RearrangeType
  <2>3. QED
    BY <1>3, <2>1, <2>2 DEF RemoveRange
<1>4. ASSUME NEW user \in Users, RemoveRequester(user)
      PROVE  TypeOK'
  <2> DEFINE kept == {k \in DOMAIN pending : RequestedBy[pending[k]] # user}
  <2>0. PICK n \in 0..Len(pending) : \E order \in [1..n -> kept] :
           Rearrange([k \in 1..n |-> pending[order[k]]])
    BY <1>4 DEF RemoveRequester
  <2>1. PICK order \in [1..n -> kept] : Rearrange([k \in 1..n |-> pending[order[k]]])
    BY <2>0
  <2>2. [k \in 1..n |-> pending[order[k]]] \in Seq(Items)
    <3>1. \A k \in 1..n : order[k] \in 1..Len(pending)
      BY <1>p
    <3>2. \A k \in 1..n : pending[order[k]] \in Items
      BY <1>p, <3>1, ElementOfSeq
    <3>3. QED
      BY <1>p, <3>2
  <2>3. QED
    BY <1>f, <2>1, <2>2, RearrangeType
<1>5. CASE Reorder
  <2>1. PICK order \in Bijection(DOMAIN pending, DOMAIN pending) :
           Rearrange([k \in DOMAIN pending |-> pending[order[k]]])
    BY <1>5 DEF Reorder
  <2>2. [k \in DOMAIN pending |-> pending[order[k]]] \in Seq(Items)
    <3>1. \A k \in 1..Len(pending) : order[k] \in 1..Len(pending)
      BY <1>p DEF Bijection, Injection
    <3>2. \A k \in 1..Len(pending) : pending[order[k]] \in Items
      BY <1>p, <3>1, ElementOfSeq
    <3>3. QED
      BY <1>p, <3>2
  <2>3. QED
    BY <1>f, <2>1, <2>2, RearrangeType
<1>6. ASSUME NEW mode \in RepeatMode, SetRepeat(mode)
      PROVE  TypeOK'
  <2>1. FieldsOK'
    BY <1>f, <1>6 DEF SetRepeat, FieldsOK
  <2>2. QED
    BY <1>n, <1>6, <2>1, AcceptedType DEF SetRepeat
<1>7. ASSUME NEW change \in ShuffleChange, ChangeShuffle(change)
      PROVE  TypeOK'
  <2>1. FieldsOK'
    BY <1>f, <1>7 DEF ChangeShuffle, ShuffleChange, FieldsOK
  <2>2. QED
    BY <1>n, <1>7, <2>1, AcceptedType DEF ChangeShuffle
<1>8. QED
  BY <1>1, <1>2, <1>3, <1>4, <1>5, <1>6, <1>7 DEF Editing

LEMMA ControllingType ==
    ASSUME TypeOK, Controlling
    PROVE  TypeOK'
<1>f. FieldsOK
  BY TypeOKSplits
<1>c. current # None => current \in Items
  BY <1>f DEF FieldsOK
<1>d. /\ {"None", "Stop", "StopAndDisconnect", "Disconnect", "Pause", "Resume", "Join",
          "SetVolume"} \subseteq PlaybackDirective
      /\ {"NothingPlaying", "AlreadyPaused", "NotPaused", "NotConnected",
          "VoiceChannelConflict", "AlreadyConnected", "VolumeOutOfRange"} \subseteq PlayerError
  BY DEF PlaybackDirective, PlayerError
<1>s. "Skipped" \in Departure /\ "Replace" \in Starting
  BY DEF Departure, Starting
<1>1. CASE Skip
  <2>1. CASE Accept(Transition("None")) /\ UNCHANGED session
    BY <1>d, <1>f, <2>1, UnchangedType, AcceptedType
  <2>2. CASE current # None /\ Advance(current, "Skipped", "Replace")
    BY <1>c, <1>f, <1>s, <2>2, AdvanceType
  <2>3. QED
    BY <1>1, <2>1, <2>2 DEF Skip
<1>2. ASSUME NEW user \in Users, NEW needed \in 1..Cardinality(Users), VoteSkip(user, needed)
      PROVE  TypeOK'
  <2>1. CASE Refuse("NothingPlaying")
    BY <1>d, <2>1, RefuseType
  <2>2. CASE current # None /\ Advance(current, "Skipped", "Replace")
    BY <1>c, <1>f, <1>s, <2>2, AdvanceType
  <2>3. CASE /\ votes' = votes \cup {user}
             /\ Accept(Transition("None"))
             /\ UNCHANGED <<running, current, pending, voice_channel_id, text_channel_id, hold,
                            history, repeat, shuffle, volume_percent, idle_deadline>>
    <3>1. FieldsOK'
      BY <1>f, <2>3 DEF FieldsOK
    <3>2. QED
      BY <1>d, <2>3, <3>1, AcceptedType
  <2>4. QED
    BY <1>2, <2>1, <2>2, <2>3 DEF VoteSkip
<1>3. CASE Stop
  <2>1. FieldsOK'
    BY <1>f, <1>3, ClearSessionType DEF Stop, FieldsOK
  <2>2. QED
    BY <1>d, <1>3, <2>1, AcceptedType DEF Stop, StopDirective
<1>4. ASSUME NEW reason \in Hold \ {"None"}, HoldPlayback(reason)
      PROVE  TypeOK'
  <2>1. CASE Refuse("NothingPlaying") \/ Refuse("AlreadyPaused")
    BY <1>d, <2>1, RefuseType
  <2>2. CASE ~(Refuse("NothingPlaying") \/ Refuse("AlreadyPaused"))
    <3>1. FieldsOK'
      BY <1>f, <1>4, <2>2 DEF HoldPlayback, FieldsOK
    <3>2. QED
      BY <1>d, <1>4, <2>2, <3>1, AcceptedType DEF HoldPlayback
  <2>3. QED
    BY <2>1, <2>2
<1>5. ASSUME NEW scope \in Release, ReleasePlayback(scope)
      PROVE  TypeOK'
  <2>1. CASE Refuse("NotPaused")
    BY <1>d, <2>1, RefuseType
  <2>2. CASE Accept(Transition("None")) /\ UNCHANGED session
    BY <1>d, <1>f, <2>2, UnchangedType, AcceptedType
  <2>3. CASE ~Refuse("NotPaused") /\ ~(Accept(Transition("None")) /\ UNCHANGED session)
    <3>1. FieldsOK'
      BY <1>f, <1>5, <2>3 DEF ReleasePlayback, FieldsOK, Hold
    <3>2. QED
      BY <1>d, <1>5, <2>3, <3>1, AcceptedType DEF ReleasePlayback
  <2>4. QED
    BY <2>1, <2>2, <2>3
<1>6. CASE Park
  <2>1. CASE Refuse("NotConnected")
    BY <1>d, <2>1, RefuseType
  <2>2. CASE ~Refuse("NotConnected")
    <3>1. FieldsOK'
      BY <1>f, <1>6, <2>2 DEF Park, FieldsOK, Hold
    <3>2. QED
      BY <1>d, <1>6, <2>2, <3>1, AcceptedType DEF Park
  <2>3. QED
    BY <2>1, <2>2
<1>7. ASSUME NEW channel \in VoiceChannels, Join(channel)
      PROVE  TypeOK'
  <2>1. CASE Refuse("VoiceChannelConflict") \/ Refuse("AlreadyConnected")
    BY <1>d, <2>1, RefuseType
  <2>2. CASE ~(Refuse("VoiceChannelConflict") \/ Refuse("AlreadyConnected"))
    <3>1. FieldsOK'
      BY <1>f, <1>7, <2>2 DEF Join, ResumeHeld, FieldsOK, Hold
    <3>2. TransitionTo("Join", channel) \in PlayerTransition
          /\ (current # None => Answered(current) \in PlayerTransition)
      BY <1>c, <1>d, TransitionType
    <3>3. AnswerOK'
      BY <1>7, <2>2, <3>2, AcceptType DEF Join
    <3>4. QED
      BY <3>1, <3>3, TypeOKSplitsNext
  <2>3. QED
    BY <2>1, <2>2
<1>8. ASSUME NEW percent \in 0..(MaxVolume + 1), SetVolume(percent)
      PROVE  TypeOK'
  <2>1. CASE Refuse("VolumeOutOfRange")
    BY <1>d, <2>1, RefuseType
  <2>2. CASE ~Refuse("VolumeOutOfRange")
    <3>1. FieldsOK'
      BY <1>f, <1>8, <2>2 DEF SetVolume, InRange, FieldsOK
    <3>2. QED
      BY <1>d, <1>8, <2>2, <3>1, AcceptedType DEF SetVolume
  <2>3. QED
    BY <2>1, <2>2
<1>9. QED
  BY <1>1, <1>2, <1>3, <1>4, <1>5, <1>6, <1>7, <1>8 DEF Controlling, Skipping

(* Every step of the actor, a refusal included, keeps the types. *)
LEMMA TypeStep ==
    ASSUME TypeOK, [Next]_vars
    PROVE  TypeOK'
<1>f. FieldsOK
  BY TypeOKSplits
<1>d. {"None", "StopAndDisconnect", "Disconnect", "IdleDisconnect", "IdleExpired"}
         \subseteq PlaybackDirective
  BY DEF PlaybackDirective
<1>1. CASE Requesting
  BY <1>1, RequestingType
<1>2. CASE Editing
  BY <1>2, EditingType
<1>3. CASE Controlling
  BY <1>3, ControllingType
<1>4. CASE Completing
  <2>1. PICK item \in Items, reason \in Departure \ {"Skipped"} : TrackFinished(item, reason)
    BY <1>4 DEF Completing
  <2>2. CASE Accept(Transition("None")) /\ UNCHANGED session
    BY <1>d, <1>f, <2>2, UnchangedType, AcceptedType
  <2>3. CASE Advance(item, reason, "Play")
    BY <1>f, <2>3, AdvanceType DEF Starting
  <2>4. QED
    BY <2>1, <2>2, <2>3 DEF TrackFinished
<1>5. CASE Shutdown
  <2>1. FieldsOK'
    BY <1>f, <1>5, ClearSessionType DEF Shutdown
  <2>2. QED
    BY <1>d, <1>5, <2>1, AcceptedType DEF Shutdown, StopDirective
<1>6. CASE Expire
  <2>1. FieldsOK'
    BY <1>f, <1>6, ClearSessionType DEF Expire, IdleTimeout, FieldsOK
  <2>2. AnswerOK'
    BY <1>d, <1>6, TypeOKSplits, TransitionType DEF Expire, IdleTimeout, AnswerOK
  <2>3. QED
    BY <2>1, <2>2, TypeOKSplitsNext
<1>7. CASE AfterStopped
  BY <1>7, RefuseType DEF AfterStopped, PlayerError
<1>8. CASE UNCHANGED vars
  BY <1>8 DEF vars, session, TypeOK
<1>9. QED
  BY <1>1, <1>2, <1>3, <1>4, <1>5, <1>6, <1>7, <1>8 DEF Next, Command

(* What the session's type invariant says holds in every reachable state. *)
THEOREM TypeCorrect == Spec => []TypeOK
<1>1. Init => TypeOK
  BY InitType
<1>2. TypeOK /\ [Next]_vars => TypeOK'
  BY TypeStep
<1>3. QED
  BY <1>1, <1>2, PTL DEF Spec

-----------------------------------------------------------------------------
(* The countdown.                                                          *)

(* The three invariants hold each other up: a hold is lifted with a track  *)
(* under it, and a track that begins finds no hold, only because none      *)
(* outlives its track.                                                     *)
Countdown ==
    /\ NothingOutlivesItsTrack
    /\ SilentChannelIsCountedDown
    /\ PlayingIsNotCountedDown

LEMMA CountdownUndisturbed ==
    ASSUME Countdown, UNCHANGED session
    PROVE  Countdown'
BY DEF Countdown, NothingOutlivesItsTrack, SilentChannelIsCountedDown, PlayingIsNotCountedDown,
       Silent, session

LEMMA AdvanceCountdown ==
    ASSUME FieldsOK, NEW left \in Items, NEW reason \in Departure,
           NEW start \in Starting, Advance(left, reason, start)
    PROVE  Countdown'
<1>1. /\ hold' = "None"
      /\ votes' = {}
      /\ idle_deadline' = (current' = None)
  BY DEF Advance
<1>2. current' = None => pending' = <<>>
  <2>1. CASE PlaysAgain(reason)
    BY <2>1, ConstantsAssumption DEF Advance
  <2>2. ASSUME NEW k \in NextPositions(Requeued(left, reason)),
               current' = Requeued(left, reason)[k]
        PROVE  current' # None
    <3>1. Requeued(left, reason) \in Seq(Items)
      BY RequeuedType
    <3>2. k \in 1..Len(Requeued(left, reason))
      BY <3>1, LenProperties DEF NextPositions
    <3>3. current' \in Items
      BY <2>2, <3>1, <3>2, ElementOfSeq
    <3>4. QED
      BY <3>3, ConstantsAssumption
  <2>3. QED
    BY <2>1, <2>2 DEF Advance
<1>3. QED
  BY <1>1, <1>2 DEF Countdown, NothingOutlivesItsTrack, SilentChannelIsCountedDown,
                    PlayingIsNotCountedDown, Silent

LEMMA ClearSessionCountdown ==
    ASSUME ClearSession
    PROVE  Countdown'
BY DEF ClearSession, Countdown, NothingOutlivesItsTrack, SilentChannelIsCountedDown,
       PlayingIsNotCountedDown, Silent

(* Nothing waits behind silence, so there is nothing there to rearrange. *)
LEMMA RearrangeCountdown ==
    ASSUME Countdown, NEW waiting, pending = <<>> => waiting = <<>>, Rearrange(waiting)
    PROVE  Countdown'
BY DEF Rearrange, Countdown, NothingOutlivesItsTrack, SilentChannelIsCountedDown,
       PlayingIsNotCountedDown, Silent

LEMMA AddCountdown ==
    ASSUME Countdown, NEW items \in Seq(Items), items # <<>>,
           NEW channel \in VoiceChannels, Add(items, channel)
    PROVE  Countdown'
<1>1. Head(items) \in Items
  BY HeadTailProperties
<1>2. Head(items) # None
  BY <1>1, ConstantsAssumption
<1>3. CASE current # None /\ voice_channel_id = None /\ Wake(items, channel)
  BY <1>3 DEF Wake, ResumeHeld, Countdown, NothingOutlivesItsTrack,
              SilentChannelIsCountedDown, PlayingIsNotCountedDown, Silent
<1>4. CASE current = None /\ Begin(items, channel)
  BY <1>2, <1>4 DEF Begin, Countdown, NothingOutlivesItsTrack, SilentChannelIsCountedDown,
                    PlayingIsNotCountedDown, Silent
<1>5. CASE current # None /\ voice_channel_id # None /\ Wait(items)
  BY <1>5 DEF Wait, Countdown, NothingOutlivesItsTrack, SilentChannelIsCountedDown,
              PlayingIsNotCountedDown, Silent
<1>6. QED
  BY <1>3, <1>4, <1>5 DEF Add

LEMMA EditingCountdown ==
    ASSUME TypeOK, Countdown, Editing
    PROVE  Countdown'
<1>1. pending = <<>> => DOMAIN pending = {} /\ Len(pending) = 0
  BY EmptySeq
<1>2. CASE Clear
  BY <1>2, RearrangeCountdown DEF Clear
<1>3. ASSUME NEW position \in 0..MaxTracks, RemovePosition(position)
      PROVE  Countdown'
  BY <1>1, <1>3, RearrangeCountdown, CountdownUndisturbed DEF RemovePosition, Refuse
<1>4. ASSUME NEW from \in 0..MaxTracks, NEW to \in 0..MaxTracks, RemoveRange(from, to)
      PROVE  Countdown'
  <2>1. CASE from \notin 1..Len(pending)
    BY <1>4, <2>1, CountdownUndisturbed DEF RemoveRange, Refuse
  <2>2. CASE from \in 1..Len(pending)
    <3>1. pending # <<>>
      BY <1>1, <2>2
    <3>2. PICK waiting : Rearrange(waiting)
      BY <1>4, <2>2 DEF RemoveRange
    <3>3. QED
      BY <3>1, <3>2, RearrangeCountdown
  <2>3. QED
    BY <2>1, <2>2
<1>5. ASSUME NEW user \in Users, RemoveRequester(user)
      PROVE  Countdown'
  <2>1. CASE pending = <<>>
    <3>1. \A n \in 0..Len(pending) : n = 0
      BY <1>1, <2>1
    <3>2. Rearrange(<<>>)
      <4>1. PICK n, order :
               n = 0 /\ Rearrange([k \in 1..n |-> pending[order[k]]])
        BY <1>5, <3>1 DEF RemoveRequester
      <4>2. [k \in 1..n |-> pending[order[k]]] = <<>>
        BY <4>1
      <4>3. QED
        BY <4>1, <4>2
    <3>3. QED
      BY <3>2, RearrangeCountdown
  <2>2. CASE pending # <<>>
    <3>1. PICK waiting : Rearrange(waiting)
      BY <1>5 DEF RemoveRequester
    <3>2. QED
      BY <2>2, <3>1, RearrangeCountdown
  <2>3. QED
    BY <2>1, <2>2
<1>6. CASE Reorder
  <2>1. CASE pending = <<>>
    <3>1. PICK order : Rearrange([k \in DOMAIN pending |-> pending[order[k]]])
      BY <1>6 DEF Reorder
    <3>2. [k \in DOMAIN pending |-> pending[order[k]]] = <<>>
      BY <1>1, <2>1
    <3>3. QED
      BY <3>1, <3>2, RearrangeCountdown
  <2>2. CASE pending # <<>>
    <3>1. PICK waiting : Rearrange(waiting)
      BY <1>6 DEF Reorder
    <3>2. QED
      BY <2>2, <3>1, RearrangeCountdown
  <2>3. QED
    BY <2>1, <2>2
<1>7. ASSUME NEW mode \in RepeatMode, SetRepeat(mode)
      PROVE  Countdown'
  BY <1>7 DEF SetRepeat, Countdown, NothingOutlivesItsTrack, SilentChannelIsCountedDown,
              PlayingIsNotCountedDown, Silent
<1>8. ASSUME NEW change \in ShuffleChange, ChangeShuffle(change)
      PROVE  Countdown'
  BY <1>8 DEF ChangeShuffle, Countdown, NothingOutlivesItsTrack, SilentChannelIsCountedDown,
              PlayingIsNotCountedDown, Silent
<1>9. QED
  BY <1>2, <1>3, <1>4, <1>5, <1>6, <1>7, <1>8 DEF Editing

LEMMA RequestingCountdown ==
    ASSUME TypeOK, Countdown, Requesting
    PROVE  Countdown'
<1>f. FieldsOK
  BY TypeOKSplits
<1>1. ASSUME NEW item \in Fresh, NEW channel \in VoiceChannels, Enqueue(item, channel)
      PROVE  Countdown'
  <2>1. CASE UNCHANGED session
    BY <2>1, CountdownUndisturbed
  <2>2. CASE Add(<<item>>, channel)
    <3>1. item \in Items
      BY DEF Fresh
    <3>2. <<item>> \in Seq(Items) /\ <<item>> # <<>>
      BY <3>1
    <3>3. QED
      BY <2>2, <3>2, AddCountdown
  <2>3. QED
    BY <1>1, <2>1, <2>2 DEF Enqueue, Refuse
<1>2. ASSUME NEW items \in Playlists, NEW channel \in VoiceChannels, EnqueueAll(items, channel)
      PROVE  Countdown'
  <2>1. CASE UNCHANGED session
    BY <2>1, CountdownUndisturbed
  <2>2. CASE Length < MaxTracks /\ items # <<>> /\ Add(Fitting(items), channel)
    <3>1. Fitting(items) \in Seq(Items) /\ Fitting(items) # <<>>
      BY <1>f, <2>2, FittingProperties
    <3>2. QED
      BY <2>2, <3>1, AddCountdown
  <2>3. QED
    BY <1>2, <2>1, <2>2 DEF EnqueueAll, Refuse
<1>3. QED
  BY <1>1, <1>2 DEF Requesting

LEMMA ControllingCountdown ==
    ASSUME TypeOK, Countdown, Controlling
    PROVE  Countdown'
<1>f. FieldsOK
  BY TypeOKSplits
<1>c. current # None => current \in Items
  BY <1>f DEF FieldsOK
<1>s. "Skipped" \in Departure /\ "Replace" \in Starting
  BY DEF Departure, Starting
<1>u. CASE UNCHANGED session
  BY <1>u, CountdownUndisturbed
<1>1. CASE Skip
  BY <1>c, <1>f, <1>s, <1>1, <1>u, AdvanceCountdown DEF Skip
<1>2. ASSUME NEW user \in Users, NEW needed \in 1..Cardinality(Users), VoteSkip(user, needed)
      PROVE  Countdown'
  <2>1. CASE current # None /\ Advance(current, "Skipped", "Replace")
    BY <1>c, <1>f, <1>s, <2>1, AdvanceCountdown
  <2>2. CASE /\ current # None
             /\ UNCHANGED <<running, current, pending, voice_channel_id, text_channel_id, hold,
                            history, repeat, shuffle, volume_percent, idle_deadline>>
    BY <2>2 DEF Countdown, NothingOutlivesItsTrack, SilentChannelIsCountedDown,
                PlayingIsNotCountedDown, Silent
  <2>3. QED
    BY <1>2, <1>u, <2>1, <2>2 DEF VoteSkip, Refuse
<1>3. CASE Stop
  BY <1>3, ClearSessionCountdown DEF Stop
<1>4. ASSUME NEW reason \in Hold \ {"None"}, HoldPlayback(reason)
      PROVE  Countdown'
  BY <1>4, <1>u DEF HoldPlayback, Refuse, Countdown, NothingOutlivesItsTrack,
                    SilentChannelIsCountedDown, PlayingIsNotCountedDown, Silent
<1>5. ASSUME NEW scope \in Release, ReleasePlayback(scope)
      PROVE  Countdown'
  BY <1>5, <1>u DEF ReleasePlayback, Refuse, Countdown, NothingOutlivesItsTrack,
                    SilentChannelIsCountedDown, PlayingIsNotCountedDown, Silent
<1>6. CASE Park
  BY <1>6, <1>u DEF Park, Refuse, Countdown, NothingOutlivesItsTrack,
                    SilentChannelIsCountedDown, PlayingIsNotCountedDown, Silent
<1>7. ASSUME NEW channel \in VoiceChannels, Join(channel)
      PROVE  Countdown'
  BY <1>7, <1>u DEF Join, ResumeHeld, Refuse, Countdown, NothingOutlivesItsTrack,
                    SilentChannelIsCountedDown, PlayingIsNotCountedDown, Silent
<1>8. ASSUME NEW percent \in 0..(MaxVolume + 1), SetVolume(percent)
      PROVE  Countdown'
  BY <1>8, <1>u DEF SetVolume, Refuse, Countdown, NothingOutlivesItsTrack,
                    SilentChannelIsCountedDown, PlayingIsNotCountedDown, Silent
<1>9. QED
  BY <1>1, <1>2, <1>3, <1>4, <1>5, <1>6, <1>7, <1>8 DEF Controlling, Skipping

LEMMA CountdownStep ==
    ASSUME TypeOK, Countdown, [Next]_vars
    PROVE  Countdown'
<1>f. FieldsOK
  BY TypeOKSplits
<1>1. CASE Requesting
  BY <1>1, RequestingCountdown
<1>2. CASE Editing
  BY <1>2, EditingCountdown
<1>3. CASE Controlling
  BY <1>3, ControllingCountdown
<1>4. CASE Completing
  <2>1. PICK item \in Items, reason \in Departure \ {"Skipped"} : TrackFinished(item, reason)
    BY <1>4 DEF Completing
  <2>2. "Play" \in Starting
    BY DEF Starting
  <2>3. QED
    BY <1>f, <2>1, <2>2, AdvanceCountdown, CountdownUndisturbed DEF TrackFinished
<1>5. CASE Shutdown
  BY <1>5, ClearSessionCountdown DEF Shutdown
<1>6. CASE Expire
  BY <1>6, ClearSessionCountdown DEF Expire, IdleTimeout
<1>7. CASE AfterStopped
  BY <1>7, CountdownUndisturbed DEF AfterStopped, Refuse
<1>8. CASE UNCHANGED vars
  BY <1>8, CountdownUndisturbed DEF vars
<1>9. QED
  BY <1>1, <1>2, <1>3, <1>4, <1>5, <1>6, <1>7, <1>8 DEF Next, Command

(* A hold and a vote never outlive the track they were placed on, nothing  *)
(* waits behind silence, a session silent in a voice channel is always     *)
(* being counted down, and one that plays never is.                        *)
THEOREM CountdownCorrect ==
    Spec => []( /\ NothingOutlivesItsTrack
                /\ SilentChannelIsCountedDown
                /\ PlayingIsNotCountedDown )
<1>1. Init => Countdown
  BY DEF Init, Countdown, NothingOutlivesItsTrack, SilentChannelIsCountedDown,
         PlayingIsNotCountedDown, Silent
<1>2. TypeOK /\ Countdown /\ [Next]_vars => Countdown'
  BY CountdownStep
<1>3. QED
  BY <1>1, <1>2, TypeCorrect, PTL DEF Spec, Countdown

-----------------------------------------------------------------------------
(* The queue.                                                              *)

LEMMA ConcatInjective ==
    ASSUME NEW S, NEW s \in Seq(S), NEW t \in Seq(S), IsInjective(s), IsInjective(t),
           Range(s) \cap Range(t) = {}
    PROVE  IsInjective(s \o t) /\ Range(s \o t) = Range(s) \cup Range(t)
<1>1. /\ DOMAIN s = 1..Len(s) /\ DOMAIN t = 1..Len(t)
      /\ Len(s) \in Nat /\ Len(t) \in Nat
  BY LenProperties
<1>2. DOMAIN (s \o t) = 1..(Len(s) + Len(t))
  BY ConcatProperties, LenProperties
<1>3. \A i \in 1..(Len(s) + Len(t)) :
         (s \o t)[i] = IF i <= Len(s) THEN s[i] ELSE t[i - Len(s)]
  BY ConcatProperties
<1>4. \A i \in 1..Len(s), j \in 1..Len(t) : s[i] # t[j]
  BY <1>1 DEF Range
<1>5. ASSUME NEW a \in 1..(Len(s) + Len(t)), NEW b \in 1..(Len(s) + Len(t)),
             (s \o t)[a] = (s \o t)[b]
      PROVE  a = b
  <2>1. CASE a <= Len(s) /\ b <= Len(s)
    BY <1>1, <1>3, <1>5, <2>1 DEF IsInjective
  <2>2. CASE a > Len(s) /\ b > Len(s)
    <3>1. a - Len(s) \in 1..Len(t) /\ b - Len(s) \in 1..Len(t)
      BY <1>1, <2>2
    <3>2. t[a - Len(s)] = t[b - Len(s)]
      BY <1>1, <1>3, <1>5, <2>2
    <3>3. a - Len(s) = b - Len(s)
      BY <1>1, <3>1, <3>2 DEF IsInjective
    <3>4. QED
      BY <1>1, <3>3
  <2>3. CASE a <= Len(s) /\ b > Len(s)
    <3>1. a \in 1..Len(s) /\ b - Len(s) \in 1..Len(t)
      BY <1>1, <2>3
    <3>2. QED
      BY <1>1, <1>3, <1>4, <1>5, <2>3, <3>1
  <2>4. CASE a > Len(s) /\ b <= Len(s)
    <3>1. b \in 1..Len(s) /\ a - Len(s) \in 1..Len(t)
      BY <1>1, <2>4
    <3>2. QED
      BY <1>1, <1>3, <1>4, <1>5, <2>4, <3>1
  <2>5. QED
    BY <1>1, <2>1, <2>2, <2>3, <2>4
<1>6. IsInjective(s \o t)
  BY <1>2, <1>5 DEF IsInjective
<1>7. QED
  BY <1>6, RangeConcatenation

LEMMA HeadTailInjective ==
    ASSUME NEW S, NEW s \in Seq(S), s # <<>>, IsInjective(s)
    PROVE  /\ IsInjective(Tail(s))
           /\ Head(s) \in Range(s)
           /\ Range(Tail(s)) = Range(s) \ {Head(s)}
<1>1. /\ Tail(s) \in Seq(S)
      /\ Len(Tail(s)) = Len(s) - 1
      /\ \A i \in 1..Len(Tail(s)) : Tail(s)[i] = s[i + 1]
  BY HeadTailProperties
<1>2. /\ DOMAIN s = 1..Len(s) /\ Len(s) \in Nat \ {0}
      /\ DOMAIN Tail(s) = 1..Len(Tail(s))
  BY <1>1, LenProperties, EmptySeq, SeqEqual
<1>3. Head(s) = s[1]
  OBVIOUS
<1>4. \A i \in 1..Len(Tail(s)) : i + 1 \in 1..Len(s) /\ i + 1 # 1
  BY <1>1, <1>2
<1>5. IsInjective(Tail(s))
  BY <1>1, <1>2, <1>4 DEF IsInjective
<1>6. Range(Tail(s)) \subseteq Range(s)
  BY <1>1, <1>2, <1>4 DEF Range
<1>7. Head(s) \in Range(s)
  BY <1>2, <1>3 DEF Range
<1>8. Head(s) \notin Range(Tail(s))
  <2>1. \A i \in 1..Len(Tail(s)) : s[i + 1] # s[1]
    BY <1>2, <1>4 DEF IsInjective
  <2>2. QED
    BY <1>1, <1>2, <1>3, <2>1 DEF Range
<1>9. Range(s) \ {Head(s)} \subseteq Range(Tail(s))
  <2>1. \A i \in 1..Len(s) : i = 1 \/ (i - 1 \in 1..Len(Tail(s)) /\ Tail(s)[i - 1] = s[i])
    BY <1>1, <1>2
  <2>2. ASSUME NEW x \in Range(s), x # Head(s)
        PROVE  x \in Range(Tail(s))
    <3>1. PICK i \in 1..Len(s) : s[i] = x
      BY <1>2 DEF Range
    <3>2. i - 1 \in DOMAIN Tail(s) /\ Tail(s)[i - 1] = x
      BY <1>2, <1>3, <2>1, <2>2, <3>1
    <3>3. QED
      BY <3>2 DEF Range
  <2>3. QED
    BY <2>2
<1>10. QED
  BY <1>5, <1>6, <1>7, <1>8, <1>9

LEMMA AppendInjective1 ==
    ASSUME NEW S, NEW s \in Seq(S), NEW e \in S, IsInjective(s), e \notin Range(s)
    PROVE  IsInjective(Append(s, e)) /\ Range(Append(s, e)) = Range(s) \cup {e}
<1> DEFINE single == <<e>>
<1>1. single \in Seq(S) /\ DOMAIN single = {1} /\ single[1] = e
  OBVIOUS
<1>2. Append(s, e) = s \o single
  BY AppendIsConcat
<1> HIDE DEF single
<1>3. IsInjective(single) /\ Range(single) = {e}
  BY <1>1 DEF IsInjective, Range
<1>4. Range(s) \cap Range(single) = {}
  BY <1>3
<1>5. IsInjective(s \o single) /\ Range(s \o single) = Range(s) \cup Range(single)
  BY <1>1, <1>3, <1>4, ConcatInjective
<1>6. QED
  BY <1>2, <1>3, <1>5

LEMMA CutOfInjective ==
    ASSUME NEW S, NEW s \in Seq(S), NEW from \in 1..Len(s), NEW to \in Nat, from <= to,
           IsInjective(s)
    PROVE  /\ IsInjective(CutOut(s, from, to))
           /\ Range(CutOut(s, from, to)) \subseteq Range(s)
           /\ s[from] \notin Range(CutOut(s, from, to))
<1>1. CutOut(s, from, to) \in Seq(S) /\ PickedFrom(CutOut(s, from, to), s, from..to)
  BY CutProperties
<1>2. /\ IsInjective(CutOut(s, from, to))
      /\ Range(CutOut(s, from, to)) \subseteq Range(s)
      /\ \A i \in 1..Len(s) : i \in from..to => s[i] \notin Range(CutOut(s, from, to))
  BY <1>1, PickedFromInjective
<1>3. from \in from..to
  BY LenProperties
<1>4. QED
  BY <1>2, <1>3

LEMMA RemoveAtInjective ==
    ASSUME NEW S, NEW s \in Seq(S), NEW k \in 1..Len(s), IsInjective(s)
    PROVE  /\ IsInjective(RemoveAt(s, k))
           /\ s[k] \in Range(s)
           /\ Range(RemoveAt(s, k)) = Range(s) \ {s[k]}
<1>1. k \in Nat /\ k <= k
  BY LenProperties
<1>2. s[k] \in Range(s)
  BY LenProperties DEF Range
<1>3. RemoveAt(s, k) = CutOut(s, k, k)
  BY DEF RemoveAt, CutOut
<1>4. Range(s) \ {s[k]} \subseteq Range(RemoveAt(s, k))
  <2> DEFINE before == SubSeq(s, 1, k - 1)
             after == SubSeq(s, k + 1, Len(s))
  <2>0. Len(s) \in Nat /\ DOMAIN s = 1..Len(s)
    BY LenProperties
  <2>1. /\ before \in Seq(S)
        /\ Len(before) = k - 1
        /\ \A i \in 1..(k - 1) : before[i] = s[i]
    <3>1. k - 1 \in Nat /\ k - 1 <= Len(s)
      BY <2>0
    <3>2. QED
      BY <2>0, <3>1, SliceProperties
  <2>2. /\ after \in Seq(S)
        /\ Len(after) = Len(s) - k
        /\ \A i \in 1..Len(after) : after[i] = s[k + i]
    <3>1. k + 1 \in Nat \ {0}
      BY <2>0
    <3>2. /\ after \in Seq(S)
          /\ Len(after) = IF k + 1 <= Len(s) THEN Len(s) - (k + 1) + 1 ELSE 0
          /\ \A i \in 1..Len(after) : after[i] = s[k + 1 + i - 1]
      BY <2>0, <3>1, SliceProperties
    <3> HIDE DEF after
    <3>3. Len(after) = Len(s) - k
      <4>1. k \in Nat /\ k <= Len(s)
        BY <2>0
      <4>2. CASE k + 1 <= Len(s)
        BY <2>0, <3>2, <4>1, <4>2
      <4>3. CASE ~(k + 1 <= Len(s))
        <5>1. Len(s) = k
          <6>1. \A a, b \in Nat : a <= b /\ ~(a + 1 <= b) => b = a
            OBVIOUS
          <6>2. QED
            BY <2>0, <4>1, <4>3, <6>1, Zenon
        <5>2. Len(after) = 0
          BY <3>2, <4>3, Zenon
        <5>3. QED
          BY <4>1, <5>1, <5>2
      <4>4. QED
        BY <4>2, <4>3
    <3>4. ASSUME NEW i \in 1..Len(after)
          PROVE  after[i] = s[k + i]
      <4>1. k + 1 + i - 1 = k + i
        OBVIOUS
      <4>2. QED
        BY <3>2, <4>1
    <3>5. QED
      BY <3>2, <3>3, <3>4
  <2>3. RemoveAt(s, k) = before \o after
    BY DEF RemoveAt
  <2> HIDE DEF before, after
  <2>4. Range(RemoveAt(s, k)) = Range(before) \cup Range(after)
    BY <2>1, <2>2, <2>3, RangeConcatenation
  <2>5. DOMAIN before = 1..Len(before) /\ DOMAIN after = 1..Len(after)
    BY <2>1, <2>2, LenProperties
  <2>6. ASSUME NEW i \in 1..Len(s), i # k
        PROVE  s[i] \in Range(before) \cup Range(after)
    <3>1. CASE i < k
      <4>1. i \in DOMAIN before /\ before[i] = s[i]
        BY <2>0, <2>1, <2>5, <3>1
      <4>2. QED
        BY <4>1 DEF Range
    <3>2. CASE i > k
      <4>1. i - k \in DOMAIN after /\ after[i - k] = s[i]
        <5>1. i - k \in 1..Len(after) /\ k + (i - k) = i
          BY <2>0, <2>2, <3>2
        <5>2. QED
          BY <2>2, <2>5, <5>1
      <4>2. QED
        BY <4>1 DEF Range
    <3>3. QED
      BY <2>0, <2>6, <3>1, <3>2
  <2>7. QED
    BY <2>0, <2>4, <2>6 DEF Range
<1>5. QED
  BY <1>1, <1>2, <1>3, <1>4, CutOfInjective

(* Reordering a sequence, or keeping some of it, through distinct places. *)
Through(s, n, order) == [k \in 1..n |-> s[order[k]]]

LEMMA ThroughInjective ==
    ASSUME NEW s \in Seq(Items), NEW n \in Nat, NEW order \in [1..n -> 1..Len(s)],
           IsInjective(order), IsInjective(s)
    PROVE  /\ Through(s, n, order) \in Seq(Items)
           /\ Len(Through(s, n, order)) = n
           /\ IsInjective(Through(s, n, order))
           /\ Range(Through(s, n, order)) \subseteq Range(s)
<1> DEFINE t == [k \in 1..n |-> s[order[k]]]
<1>1. DOMAIN s = 1..Len(s) /\ DOMAIN order = 1..n
  BY LenProperties
<1>2. \A k \in 1..n : order[k] \in 1..Len(s)
  OBVIOUS
<1>3. \A k \in 1..n : s[order[k]] \in Items
  BY <1>2, ElementOfSeq
<1>4. t \in Seq(Items) /\ Len(t) = n
  BY <1>3
<1>5. IsInjective(t)
  BY <1>1, <1>2 DEF IsInjective
<1>6. Range(t) \subseteq Range(s)
  BY <1>1, <1>2 DEF Range
<1>7. QED
  BY <1>4, <1>5, <1>6 DEF Through

LEMMA LengthType ==
    ASSUME FieldsOK
    PROVE  Len(pending) \in Nat /\ Length \in Nat
BY LenProperties DEF FieldsOK, Length

(* What a step makes of the tracks that are held: some of those that wait  *)
(* are withdrawn; `new' ones join; the one playing is moved off.           *)
OnlyWithdraws == current' = current /\ Range(pending') \subseteq Range(pending)
TakesIn(new) ==
    \/ /\ current # None
       /\ current' = current
       /\ Range(pending') = Range(pending) \cup new
    \/ /\ current = None
       /\ current' \in new
       /\ Range(pending') = Range(pending) \cup (new \ {current'})
GivesWay ==
    \E owed \in SUBSET {current} :
       \/ /\ Range(pending) \cup owed = {}
          /\ current' = None
          /\ Range(pending') = {}
       \/ /\ current' \in Range(pending) \cup owed
          /\ Range(pending') = (Range(pending) \cup owed) \ {current'}

LEMMA QueueUndisturbed ==
    ASSUME QueueIsSound, UNCHANGED <<current, pending>>
    PROVE  QueueIsSound' /\ OnlyWithdraws
BY DEF QueueIsSound, Length, OnlyWithdraws

(* New tracks are strangers to the queue, and there is room for them. *)
LEMMA AddQueue ==
    ASSUME FieldsOK, QueueIsSound,
           NEW items \in Seq(Items), items # <<>>, IsInjective(items),
           Range(items) \subseteq Fresh, Length + Len(items) <= MaxTracks,
           NEW channel \in VoiceChannels, Add(items, channel)
    PROVE  QueueIsSound' /\ TakesIn(Range(items))
<1>0. MaxTracks \in Nat /\ Len(items) \in Nat /\ Len(pending) \in Nat
  BY LengthType, LenProperties, ConstantsAssumption
<1>1. pending \in Seq(Items) /\ IsInjective(pending) /\ current \notin Range(pending)
  BY DEF FieldsOK, QueueIsSound
<1>2. Range(items) \cap (Range(pending) \cup {current}) = {}
  <2>1. None \notin Range(items)
    BY ConstantsAssumption DEF Fresh
  <2>2. QED
    BY <2>1 DEF Fresh, Remembered
<1>3. CASE current # None /\ current' = current /\ pending' = pending \o items
  <2>1. IsInjective(pending') /\ Range(pending') = Range(pending) \cup Range(items)
    BY <1>1, <1>2, <1>3, ConcatInjective
  <2>2. Len(pending') = Len(pending) + Len(items)
    BY <1>1, <1>3, ConcatProperties
  <2>3. Length' <= MaxTracks
    BY <1>0, <1>3, <2>2 DEF Length
  <2>4. QED
    BY <1>1, <1>2, <1>3, <2>1, <2>3 DEF QueueIsSound, TakesIn
<1>4. CASE current = None /\ current' = Head(items) /\ pending' = pending \o Tail(items)
  <2>1. /\ Tail(items) \in Seq(Items)
        /\ Len(Tail(items)) = Len(items) - 1
        /\ IsInjective(Tail(items))
        /\ Head(items) \in Range(items)
        /\ Range(Tail(items)) = Range(items) \ {Head(items)}
    BY HeadTailProperties, HeadTailInjective
  <2>2. Range(pending) \cap Range(Tail(items)) = {}
    BY <1>2, <2>1
  <2>3. IsInjective(pending') /\ Range(pending') = Range(pending) \cup Range(Tail(items))
    <3>1. /\ IsInjective(pending \o Tail(items))
          /\ Range(pending \o Tail(items)) = Range(pending) \cup Range(Tail(items))
      <4> DEFINE behind == Tail(items)
      <4>1. behind \in Seq(Items) /\ IsInjective(behind) /\ Range(pending) \cap Range(behind) = {}
        BY <2>1, <2>2
      <4> HIDE DEF behind
      <4>2. /\ IsInjective(pending \o behind)
            /\ Range(pending \o behind) = Range(pending) \cup Range(behind)
        BY <1>1, <4>1, ConcatInjective
      <4>3. QED
        BY <4>2 DEF behind
    <3>2. QED
      BY <1>4, <3>1
  <2>4. Len(pending') = Len(pending) + (Len(items) - 1)
    BY <1>1, <1>4, <2>1, ConcatProperties
  <2>5. Len(pending) + Len(items) <= MaxTracks
    BY <1>0, <1>4 DEF Length
  <2>6. Length' <= MaxTracks
    BY <1>0, <2>4, <2>5 DEF Length
  <2>7. current' \notin Range(pending')
    BY <1>2, <1>4, <2>1, <2>3
  <2>8. QED
    BY <1>4, <2>1, <2>3, <2>6, <2>7 DEF QueueIsSound, TakesIn
<1>5. QED
  BY <1>3, <1>4 DEF Add, Wake, Begin, Wait

(* Moving on puts back no more than it takes. *)
LEMMA AdvanceQueue ==
    ASSUME FieldsOK, QueueIsSound, current # None, NEW reason \in Departure,
           NEW start \in Starting, Advance(current, reason, start)
    PROVE  QueueIsSound' /\ GivesWay
<1> DEFINE waiting == Requeued(current, reason)
<1>0. MaxTracks \in Nat /\ Len(pending) \in Nat /\ current \in Items
  BY LengthType, ConstantsAssumption DEF FieldsOK
<1>1. /\ pending \in Seq(Items) /\ IsInjective(pending) /\ current \notin Range(pending)
      /\ Len(pending) + 1 <= MaxTracks
  BY DEF FieldsOK, QueueIsSound, Length
<1>2. /\ waiting \in Seq(Items)
      /\ IsInjective(waiting)
      /\ Len(waiting) <= MaxTracks
      /\ \E owed \in SUBSET {current} : Range(waiting) = Range(pending) \cup owed
  <2>1. CASE waiting = pending
    <3>1. \E owed \in SUBSET {current} : Range(waiting) = Range(pending) \cup owed
      <4>1. {} \in SUBSET {current} /\ Range(waiting) = Range(pending) \cup {}
        BY <2>1
      <4> HIDE DEF waiting
      <4>2. QED
        BY <4>1
    <3> HIDE DEF waiting
    <3>2. Len(waiting) <= MaxTracks
      BY <1>0, <1>1, <2>1
    <3>3. QED
      BY <1>1, <2>1, <3>1, <3>2
  <2>2. CASE waiting = Append(pending, current)
    <3>1. IsInjective(waiting) /\ Range(waiting) = Range(pending) \cup {current}
      BY <1>0, <1>1, <2>2, AppendInjective1
    <3>2. waiting \in Seq(Items) /\ Len(waiting) = Len(pending) + 1
      BY <1>0, <1>1, <2>2, AppendProperties
    <3> HIDE DEF waiting
    <3>3. \E owed \in SUBSET {current} : Range(waiting) = Range(pending) \cup owed
      BY <3>1
    <3>4. QED
      BY <1>0, <1>1, <3>1, <3>2, <3>3
  <2>3. QED
    BY <2>1, <2>2 DEF Requeued
<1> HIDE DEF waiting
<1>3. CASE current' = current /\ pending' = pending
  <2>1. /\ current' \in Range(pending) \cup {current}
        /\ Range(pending') = (Range(pending) \cup {current}) \ {current'}
    BY <1>1, <1>3
  <2>2. QED
    BY <1>3, <2>1, QueueUndisturbed DEF GivesWay
<1>4. CASE current' = None /\ pending' = <<>> /\ waiting = <<>>
  <2>1. /\ IsInjective(pending') /\ Range(pending') = {} /\ Len(pending') = 0
    BY <1>4 DEF IsInjective, Range
  <2>2. Range(waiting) = {}
    BY <1>4 DEF Range
  <2>3. QED
    BY <1>0, <1>2, <1>4, <2>1, <2>2 DEF QueueIsSound, Length, GivesWay
<1>5. ASSUME NEW k \in 1..Len(waiting),
             current' = waiting[k], pending' = RemoveAt(waiting, k)
      PROVE  QueueIsSound' /\ GivesWay
  <2>1. /\ RemoveAt(waiting, k) \in Seq(Items)
        /\ Len(RemoveAt(waiting, k)) < Len(waiting)
        /\ IsInjective(RemoveAt(waiting, k))
        /\ waiting[k] \in Range(waiting)
        /\ Range(RemoveAt(waiting, k)) = Range(waiting) \ {waiting[k]}
    BY <1>2, RemoveAtType, RemoveAtInjective
  <2>2. Len(pending') \in Nat /\ Len(waiting) \in Nat
    BY <1>2, <1>5, <2>1, LenProperties
  <2>3. Length' <= MaxTracks
    BY <1>0, <1>2, <1>5, <2>1, <2>2 DEF Length
  <2>4. QED
    BY <1>2, <1>5, <2>1, <2>3 DEF QueueIsSound, GivesWay
<1>6. DOMAIN waiting = 1..Len(waiting)
  BY <1>2, LenProperties
<1>7. QED
  BY <1>3, <1>4, <1>5, <1>6 DEF Advance, NextPositions, waiting

LEMMA ClearSessionQueue ==
    ASSUME ClearSession
    PROVE  QueueIsSound'
<1>1. pending' = <<>> /\ current' = None
  BY DEF ClearSession
<1>2. IsInjective(pending') /\ Range(pending') = {} /\ Len(pending') = 0
  BY <1>1 DEF IsInjective, Range
<1>3. MaxTracks \in Nat
  BY ConstantsAssumption
<1>4. QED
  BY <1>1, <1>2, <1>3 DEF QueueIsSound, Length

(* Whatever a rearrangement leaves was waiting before it, and no oftener. *)
LEMMA RearrangeQueue ==
    ASSUME FieldsOK, QueueIsSound, NEW waiting \in Seq(Items), IsInjective(waiting),
           Range(waiting) \subseteq Range(pending), Len(waiting) <= Len(pending),
           Rearrange(waiting)
    PROVE  QueueIsSound' /\ OnlyWithdraws
<1>1. MaxTracks \in Nat /\ Len(pending) \in Nat /\ Len(waiting) \in Nat
  BY LengthType, LenProperties, ConstantsAssumption
<1>2. pending' = waiting /\ current' = current
  BY DEF Rearrange
<1>3. Length' <= MaxTracks
  BY <1>1, <1>2 DEF QueueIsSound, Length
<1>4. QED
  BY <1>2, <1>3 DEF QueueIsSound, OnlyWithdraws

LEMMA EditingQueue ==
    ASSUME TypeOK, QueueIsSound, Editing
    PROVE  QueueIsSound' /\ OnlyWithdraws
<1>f. FieldsOK
  BY TypeOKSplits
<1>p. /\ pending \in Seq(Items) /\ IsInjective(pending)
      /\ DOMAIN pending = 1..Len(pending) /\ Len(pending) \in Nat
  BY <1>f, LenProperties DEF FieldsOK, QueueIsSound
<1>u. CASE UNCHANGED session
  BY <1>u, QueueUndisturbed DEF session
<1>1. CASE Clear
  <2>1. /\ <<>> \in Seq(Items) /\ IsInjective(<<>>) /\ Range(<<>>) = {}
    BY DEF IsInjective, Range
  <2>2. Len(<<>>) <= Len(pending)
    BY <1>p
  <2>3. QED
    BY <1>f, <1>1, <2>1, <2>2, RearrangeQueue DEF Clear
<1>2. ASSUME NEW position \in 1..Len(pending), Rearrange(RemoveAt(pending, position))
      PROVE  QueueIsSound' /\ OnlyWithdraws
  <2>1. /\ RemoveAt(pending, position) \in Seq(Items)
        /\ IsInjective(RemoveAt(pending, position))
        /\ Range(RemoveAt(pending, position)) \subseteq Range(pending)
        /\ Len(RemoveAt(pending, position)) < Len(pending)
    BY <1>p, RemoveAtType, RemoveAtInjective
  <2>2. Len(RemoveAt(pending, position)) <= Len(pending)
    BY <1>p, <2>1, LenProperties
  <2>3. QED
    BY <1>f, <1>2, <2>1, <2>2, RearrangeQueue
<1>3. ASSUME NEW from \in 1..Len(pending), NEW end \in Nat, from <= end,
             Rearrange(CutOut(pending, from, end))
      PROVE  QueueIsSound' /\ OnlyWithdraws
  <2>1. /\ CutOut(pending, from, end) \in Seq(Items)
        /\ IsInjective(CutOut(pending, from, end))
        /\ Range(CutOut(pending, from, end)) \subseteq Range(pending)
        /\ Len(CutOut(pending, from, end)) < Len(pending)
    BY <1>3, <1>p, CutProperties, CutOfInjective
  <2>2. Len(CutOut(pending, from, end)) <= Len(pending)
    BY <1>p, <2>1, LenProperties
  <2>3. QED
    BY <1>f, <1>3, <2>1, <2>2, RearrangeQueue
<1>4. ASSUME NEW n \in 0..Len(pending), NEW order \in [1..n -> 1..Len(pending)],
             IsInjective(order), Rearrange([k \in 1..n |-> pending[order[k]]])
      PROVE  QueueIsSound' /\ OnlyWithdraws
  <2>1. Rearrange(Through(pending, n, order))
    BY <1>4 DEF Through
  <2>2. /\ Through(pending, n, order) \in Seq(Items)
        /\ Len(Through(pending, n, order)) = n
        /\ IsInjective(Through(pending, n, order))
        /\ Range(Through(pending, n, order)) \subseteq Range(pending)
    BY <1>4, <1>p, ThroughInjective
  <2>3. Len(Through(pending, n, order)) <= Len(pending)
    BY <1>p, <2>2
  <2>4. QED
    BY <1>f, <2>1, <2>2, <2>3, RearrangeQueue
<1>5. ASSUME NEW position \in 0..MaxTracks, RemovePosition(position)
      PROVE  QueueIsSound' /\ OnlyWithdraws
  BY <1>u, <1>2, <1>5 DEF RemovePosition, Refuse
<1>6. ASSUME NEW from \in 0..MaxTracks, NEW to \in 0..MaxTracks, RemoveRange(from, to)
      PROVE  QueueIsSound' /\ OnlyWithdraws
  <2> DEFINE end == IF to < from THEN from ELSE to
  <2>1. end \in Nat /\ from <= end
    BY ConstantsAssumption
  <2>2. \/ UNCHANGED session
        \/ /\ from \in 1..Len(pending)
           /\ Rearrange(CutOut(pending, from, end))
    BY <1>6, Zenon DEF RemoveRange, Refuse
  <2> HIDE DEF end
  <2>3. QED
    BY <1>u, <1>3, <2>1, <2>2
<1>7. ASSUME NEW user \in Users, RemoveRequester(user)
      PROVE  QueueIsSound' /\ OnlyWithdraws
  <2> DEFINE kept == {k \in DOMAIN pending : RequestedBy[pending[k]] # user}
  <2>1. PICK n \in 0..Len(pending) : \E order \in [1..n -> kept] :
           /\ \A a, b \in 1..n : a < b => order[a] < order[b]
           /\ Rearrange([k \in 1..n |-> pending[order[k]]])
    BY <1>7 DEF RemoveRequester
  <2>2. PICK order \in [1..n -> kept] :
           /\ \A a, b \in 1..n : a < b => order[a] < order[b]
           /\ Rearrange([k \in 1..n |-> pending[order[k]]])
    BY <2>1
  <2>3. \A k \in 1..n : order[k] \in 1..Len(pending)
    BY <1>p
  <2>4. order \in [1..n -> 1..Len(pending)]
    BY <2>3
  <2>5. IsInjective(order)
    <3>1. ASSUME NEW a \in 1..n, NEW b \in 1..n, order[a] = order[b]
          PROVE  a = b
      <4>1. ~(a < b) /\ ~(b < a)
        BY <2>2, <2>3, <3>1, <1>p
      <4>2. QED
        BY <4>1, <1>p
    <3>2. QED
      BY <2>4, <3>1 DEF IsInjective
  <2>6. QED
    BY <1>4, <2>2, <2>4, <2>5
<1>8. CASE Reorder
  <2>1. PICK order \in Bijection(DOMAIN pending, DOMAIN pending) :
           Rearrange([k \in DOMAIN pending |-> pending[order[k]]])
    BY <1>8 DEF Reorder
  <2>2. order \in [1..Len(pending) -> 1..Len(pending)] /\ IsInjective(order)
    BY <1>p DEF Bijection, Injection
  <2>3. Rearrange([k \in 1..Len(pending) |-> pending[order[k]]])
    BY <1>p, <2>1
  <2>4. Len(pending) \in 0..Len(pending)
    BY <1>p
  <2>5. QED
    BY <1>4, <2>2, <2>3, <2>4
<1>9. ASSUME UNCHANGED <<current, pending>>
      PROVE  QueueIsSound' /\ OnlyWithdraws
  BY <1>9, QueueUndisturbed
<1>10. QED
  BY <1>1, <1>5, <1>6, <1>7, <1>8, <1>9 DEF Editing, SetRepeat, ChangeShuffle

TakesSomeIn == \E new \in SUBSET Fresh : new # {} /\ TakesIn(new)

LEMMA SomethingIn ==
    ASSUME NEW s \in Seq(Items), s # <<>>
    PROVE  Range(s) # {}
<1>1. 1 \in DOMAIN s
  BY LenProperties, EmptySeq
<1>2. QED
  BY <1>1 DEF Range

LEMMA EnqueueQueue ==
    ASSUME TypeOK, QueueIsSound, NEW item \in Fresh, NEW channel \in VoiceChannels,
           Enqueue(item, channel)
    PROVE  QueueIsSound' /\ (UNCHANGED session \/ TakesIn({item}))
<1>f. FieldsOK
  BY TypeOKSplits
<1>1. CASE UNCHANGED session
  BY <1>1, QueueUndisturbed DEF session
<1>2. CASE Length < MaxTracks /\ Add(<<item>>, channel)
  <2> DEFINE items == <<item>>
  <2>1. items \in Seq(Items) /\ items # <<>> /\ Len(items) = 1
    BY DEF Fresh
  <2>2. IsInjective(items) /\ Range(items) = {item}
    BY DEF IsInjective, Range
  <2>3. Add(items, channel)
    BY <1>2
  <2> HIDE DEF items
  <2>4. Length + Len(items) <= MaxTracks
    BY <1>f, <1>2, <2>1, LengthType, ConstantsAssumption
  <2>5. QED
    BY <1>f, <2>1, <2>2, <2>3, <2>4, AddQueue
<1>3. QED
  BY <1>1, <1>2 DEF Enqueue, Refuse

LEMMA RequestingQueue ==
    ASSUME TypeOK, QueueIsSound, Requesting
    PROVE  QueueIsSound' /\ (OnlyWithdraws \/ TakesSomeIn)
<1>f. FieldsOK
  BY TypeOKSplits
<1>1. ASSUME NEW item \in Fresh, NEW channel \in VoiceChannels, Enqueue(item, channel)
      PROVE  QueueIsSound' /\ (OnlyWithdraws \/ TakesSomeIn)
  <2>1. CASE UNCHANGED session
    BY <2>1, QueueUndisturbed DEF session
  <2>2. CASE TakesIn({item})
    <3>1. {item} \in SUBSET Fresh /\ {item} # {}
      OBVIOUS
    <3>2. QED
      BY <1>1, <2>2, <3>1, EnqueueQueue DEF TakesSomeIn
  <2>3. QED
    BY <1>1, <2>1, <2>2, EnqueueQueue
<1>2. ASSUME NEW items \in Playlists, NEW channel \in VoiceChannels, EnqueueAll(items, channel)
      PROVE  QueueIsSound' /\ (OnlyWithdraws \/ TakesSomeIn)
  <2>1. CASE UNCHANGED session
    BY <2>1, QueueUndisturbed DEF session
  <2>2. CASE Length < MaxTracks /\ items # <<>> /\ Add(Fitting(items), channel)
    <3>1. /\ Fitting(items) \in Seq(Items)
          /\ Fitting(items) # <<>>
          /\ IsInjective(Fitting(items))
          /\ Range(Fitting(items)) \subseteq Fresh
          /\ Length + Len(Fitting(items)) <= MaxTracks
      BY <1>f, <2>2, FittingProperties
    <3>2. QED
      BY <1>f, <2>2, <3>1, AddQueue, SomethingIn DEF TakesSomeIn
  <2>3. QED
    BY <1>2, <2>1, <2>2 DEF EnqueueAll, Refuse
<1>3. QED
  BY <1>1, <1>2 DEF Requesting

LEMMA QueueStep ==
    ASSUME TypeOK, QueueIsSound, [Next]_vars
    PROVE  QueueIsSound'
<1>f. FieldsOK
  BY TypeOKSplits
<1>u. CASE UNCHANGED <<current, pending>>
  BY <1>u, QueueUndisturbed
<1>1. CASE Requesting
  BY <1>1, RequestingQueue
<1>2. CASE Editing
  BY <1>2, EditingQueue
<1>3. CASE Controlling
  <2>1. ASSUME current # None, Advance(current, "Skipped", "Replace")
        PROVE  QueueIsSound'
    BY <1>f, <2>1, AdvanceQueue DEF Departure, Starting
  <2>2. CASE Skip
    BY <1>u, <2>1, <2>2 DEF Skip, session
  <2>3. ASSUME NEW user \in Users, NEW needed \in 1..Cardinality(Users),
               VoteSkip(user, needed)
        PROVE  QueueIsSound'
    BY <1>u, <2>1, <2>3 DEF VoteSkip, Refuse, session
  <2>4. CASE Stop
    BY <2>4, ClearSessionQueue DEF Stop
  <2>5. ASSUME NEW reason \in Hold \ {"None"}, HoldPlayback(reason)
        PROVE  QueueIsSound'
    BY <1>u, <2>5 DEF HoldPlayback, Refuse, session
  <2>6. ASSUME NEW scope \in Release, ReleasePlayback(scope)
        PROVE  QueueIsSound'
    BY <1>u, <2>6 DEF ReleasePlayback, Refuse, session
  <2>7. CASE Park
    BY <1>u, <2>7 DEF Park, Refuse, session
  <2>8. ASSUME NEW channel \in VoiceChannels, Join(channel)
        PROVE  QueueIsSound'
    BY <1>u, <2>8 DEF Join, Refuse, session
  <2>9. ASSUME NEW percent \in 0..(MaxVolume + 1), SetVolume(percent)
        PROVE  QueueIsSound'
    BY <1>u, <2>9 DEF SetVolume, Refuse, session
  <2>10. QED
    BY <1>3, <2>2, <2>3, <2>4, <2>5, <2>6, <2>7, <2>8, <2>9 DEF Controlling, Skipping
<1>4. CASE Completing
  <2>1. PICK item \in Items, reason \in Departure \ {"Skipped"} : TrackFinished(item, reason)
    BY <1>4 DEF Completing
  <2>2. CASE UNCHANGED session
    BY <1>u, <2>2 DEF session
  <2>3. CASE current = item /\ Advance(item, reason, "Play")
    BY <1>f, <2>3, AdvanceQueue, ConstantsAssumption DEF Starting
  <2>4. QED
    BY <2>1, <2>2, <2>3 DEF TrackFinished
<1>5. CASE Shutdown
  BY <1>5, ClearSessionQueue DEF Shutdown
<1>6. CASE Expire
  BY <1>6, ClearSessionQueue DEF Expire, IdleTimeout
<1>7. CASE AfterStopped
  BY <1>7, <1>u DEF AfterStopped, Refuse, session
<1>8. CASE UNCHANGED vars
  BY <1>8, <1>u DEF vars, session
<1>9. QED
  BY <1>1, <1>2, <1>3, <1>4, <1>5, <1>6, <1>7, <1>8 DEF Next, Command

(* A track is in a session at most once, and the session never holds more  *)
(* than it may, whatever batches, repeat modes and shuffles put in or back.*)
THEOREM QueueCorrect == Spec => []QueueIsSound
<1>1. Init => QueueIsSound
  <2>1. IsInjective(<<>>) /\ Range(<<>>) = {} /\ Len(<<>>) = 0
    BY DEF IsInjective, Range
  <2>2. QED
    BY <2>1, ConstantsAssumption DEF Init, QueueIsSound, Length
<1>2. TypeOK /\ QueueIsSound /\ [Next]_vars => QueueIsSound'
  BY QueueStep
<1>3. QED
  BY <1>1, <1>2, TypeCorrect, PTL DEF Spec

-----------------------------------------------------------------------------
(* Votes.                                                                  *)

LEMMA DirectiveOf ==
    /\ \A directive : Transition(directive).directive = directive
    /\ \A directive, target : TransitionTo(directive, target).directive = directive
BY DEF Transition, TransitionTo

(* What a command sends when it starts nothing. *)
LEMMA StartsNothing ==
    ASSUME NEW directive, directive \notin Starting, Accept(Transition(directive))
    PROVE  emitted'.directive \notin Starting
BY DirectiveOf DEF Accept

LEMMA RefusalStartsNothing ==
    ASSUME NEW error, Refuse(error)
    PROVE  emitted'.directive \notin Starting
BY DirectiveOf DEF Refuse, Starting

(* Whatever starts was added to a session with nothing playing, which has  *)
(* no votes, or wakes a parked one, which forgets them.                    *)
LEMMA AddForgetsVotes ==
    ASSUME NothingOutlivesItsTrack, NEW items, NEW channel, Add(items, channel), StartsPlayback
    PROVE  votes' = {}
BY DEF NothingOutlivesItsTrack, Add, StartsPlayback, Wake, ResumeHeld, Begin

(* Whatever starts, or starts again, has nobody's vote against it. *)
THEOREM VotesCorrect == Spec => VotesDieWithThePerformance
<1>1. NothingOutlivesItsTrack /\ [Next]_vars
         => [emitted'.directive \in Starting => votes' = {}]_vars
  <2> SUFFICES ASSUME NothingOutlivesItsTrack, Next, emitted'.directive \in Starting
               PROVE  votes' = {}
    OBVIOUS
  <2>n. {"None", "Stop", "StopAndDisconnect", "Disconnect", "Pause", "Resume", "Join",
         "SetVolume", "IdleDisconnect", "IdleExpired"} \cap Starting = {}
    BY DEF Starting
  <2>s. ASSUME NEW directive, directive \notin Starting
        PROVE  ~Accept(Transition(directive))
    BY <2>s, StartsNothing
  <2>r. ASSUME NEW error
        PROVE  ~Refuse(error)
    BY RefusalStartsNothing
  <2>a. ASSUME NEW left, NEW reason, NEW start, Advance(left, reason, start)
        PROVE  votes' = {}
    BY <2>a DEF Advance
  <2>1. CASE Requesting
    <3>1. ASSUME NEW item, NEW channel, Enqueue(item, channel)
          PROVE  votes' = {}
      <4>1. Add(<<item>>, channel) /\ StartsPlayback
        BY <2>n, <2>s, <2>r, <3>1 DEF Enqueue
      <4>2. QED
        BY <4>1, AddForgetsVotes
    <3>2. ASSUME NEW items, NEW channel, EnqueueAll(items, channel)
          PROVE  votes' = {}
      <4>1. Add(Fitting(items), channel) /\ StartsPlayback
        BY <2>n, <2>s, <2>r, <3>2 DEF EnqueueAll
      <4>2. QED
        BY <4>1, AddForgetsVotes
    <3>3. QED
      BY <2>1, <3>1, <3>2 DEF Requesting
  <2>2. CASE Editing
    <3>1. \A waiting : ~Rearrange(waiting)
      BY <2>n, <2>s DEF Rearrange
    <3>2. \A mode : ~SetRepeat(mode)
      BY <2>n, <2>s DEF SetRepeat
    <3>3. \A change : ~ChangeShuffle(change)
      BY <2>n, <2>s DEF ChangeShuffle
    <3>4. QED
      BY <2>2, <2>r, <3>1, <3>2, <3>3
      DEF Editing, Clear, RemovePosition, RemoveRange, RemoveRequester, Reorder
  <2>3. CASE Controlling
    <3>1. CASE Skip
      BY <2>n, <2>s, <2>a, <3>1 DEF Skip
    <3>2. ASSUME NEW user, NEW needed, VoteSkip(user, needed)
          PROVE  votes' = {}
      BY <2>n, <2>s, <2>r, <2>a, <3>2 DEF VoteSkip
    <3>3. ~Stop
      BY <2>n, <2>s DEF Stop, StopDirective
    <3>4. ASSUME NEW channel, Join(channel)
          PROVE  votes' = {}
      <4>1. CASE ResumeHeld(channel)
        BY <4>1 DEF ResumeHeld
      <4>2. CASE Accept(TransitionTo("Join", channel))
        BY <2>n, <4>2, DirectiveOf DEF Accept
      <4>3. QED
        BY <2>r, <3>4, <4>1, <4>2 DEF Join
    <3>5. \A reason : ~HoldPlayback(reason)
      BY <2>n, <2>s, <2>r DEF HoldPlayback
    <3>6. \A scope : ~ReleasePlayback(scope)
      BY <2>n, <2>s, <2>r DEF ReleasePlayback
    <3>7. ~Park
      BY <2>n, <2>s, <2>r DEF Park
    <3>8. \A percent : ~SetVolume(percent)
      BY <2>n, <2>s, <2>r DEF SetVolume
    <3>9. QED
      BY <2>3, <3>1, <3>2, <3>3, <3>4, <3>5, <3>6, <3>7, <3>8 DEF Controlling, Skipping
  <2>4. CASE Completing
    BY <2>4, <2>n, <2>s, <2>a DEF Completing, TrackFinished
  <2>5. CASE Shutdown
    BY <2>5 DEF Shutdown, ClearSession
  <2>6. CASE Expire
    BY <2>6 DEF Expire, IdleTimeout, ClearSession
  <2>7. CASE AfterStopped
    BY <2>7, <2>r DEF AfterStopped
  <2>8. QED
    BY <2>1, <2>2, <2>3, <2>4, <2>5, <2>6, <2>7 DEF Next, Command
<1>2. Spec => []NothingOutlivesItsTrack
  BY CountdownCorrect, PTL
<1>3. QED
  BY <1>1, <1>2, PTL DEF Spec, VotesDieWithThePerformance

-----------------------------------------------------------------------------
(* The word of a session: what it says the room hears.  The worker learns  *)
(* of it from nothing but the directives, so this is what a directive has  *)
(* to say: how the word before a step and the word after it differ.        *)
Word == [channel |-> voice_channel_id, track |-> current, hold |-> hold,
         volume |-> volume_percent]

GivingUp == {"StopAndDisconnect", "Disconnect", "IdleDisconnect"}

Said(word, next, directive, target) ==
    /\ next.volume = word.volume \/ directive = "SetVolume"
    /\ \/ directive = "None" /\ next = word
       \/ /\ directive \in GivingUp
          /\ next.channel = None /\ next.track \in {word.track, None}
          /\ next.hold # "None" \/ next.track = None
       \/ directive = "IdleExpired" /\ word.channel = None /\ next.channel = None
       \/ /\ directive = "Stop"
          /\ next.channel = word.channel /\ next.track = None /\ next.hold = "None"
       \/ /\ directive \in Starting
          /\ word.channel = None \/ next.channel # None
          /\ next.track = target /\ next.hold = "None"
       \/ /\ directive = "Join" /\ word.track = None /\ target # None
          /\ next.channel = target /\ next.track = None /\ next.hold = word.hold
       \/ /\ directive = "Pause" /\ word.hold = "None" /\ next.hold # "None"
          /\ next.channel = word.channel /\ next.track = word.track
       \/ /\ directive = "Resume" /\ word.hold # "None" /\ next.hold = "None"
          /\ next.channel = word.channel /\ next.track = word.track
       \/ /\ directive = "SetVolume"
          /\ next.channel = word.channel /\ next.track = word.track /\ next.hold = word.hold

Says == Said(Word, Word', emitted'.directive, emitted'.target)

LEMMA TargetOf ==
    /\ \A directive, target : TransitionTo(directive, target).target = target
    /\ \A item : Answered(item).directive = "Play" /\ Answered(item).target = item
BY DEF Transition, TransitionTo, Answered

LEMMA SilenceSays ==
    ASSUME emitted'.directive = "None", UNCHANGED Word
    PROVE  Says
BY DEF Says, Said, Word

LEMMA RefusalSays ==
    ASSUME NEW error, Refuse(error)
    PROVE  Says
BY DirectiveOf DEF Refuse, session, Says, Said, Word

LEMMA UnchangedSays ==
    ASSUME UNCHANGED session, Accept(Transition("None"))
    PROVE  Says
BY DirectiveOf DEF Accept, session, Says, Said, Word

(* Only what finds no hold, or lifts it, can start a track. *)
LEMMA AddSays ==
    ASSUME Countdown, NEW items, NEW channel \in VoiceChannels, Add(items, channel),
           NEW start, start.directive = "Play", start.target = current',
           emitted' = IF StartsPlayback THEN start ELSE Transition("None")
    PROVE  Says
<1>1. channel # None
  BY ConstantsAssumption
<1>2. CASE StartsPlayback
  <2>1. voice_channel_id' = channel /\ hold' = "None" /\ volume_percent' = volume_percent
    BY <1>2 DEF Add, Wake, ResumeHeld, Begin, StartsPlayback, Countdown, NothingOutlivesItsTrack
  <2>2. QED
    BY <1>1, <1>2, <2>1 DEF Says, Said, Word, Starting
<1>3. CASE ~StartsPlayback
  BY <1>3, DirectiveOf, SilenceSays DEF StartsPlayback, Add, Wait, Word
<1>4. QED
  BY <1>2, <1>3

LEMMA AdvanceSays ==
    ASSUME NEW left, NEW reason, NEW start \in Starting, Advance(left, reason, start)
    PROVE  Says
<1>1. CASE current' = None
  BY <1>1, DirectiveOf DEF Advance, Accept, Says, Said, Word
<1>2. CASE current' # None
  BY <1>2, DirectiveOf, TargetOf DEF Advance, Accept, Says, Said, Word
<1>3. QED
  BY <1>1, <1>2

LEMMA EndingSays ==
    ASSUME ClearSession, emitted'.directive \in GivingUp
    PROVE  Says
BY DEF ClearSession, Says, Said, Word

LEMMA EditingSays ==
    ASSUME Editing
    PROVE  Says
<1>1. ASSUME NEW waiting, Rearrange(waiting)
      PROVE  Says
  BY <1>1, DirectiveOf, SilenceSays DEF Rearrange, Accept, Word
<1>2. ASSUME NEW mode, SetRepeat(mode)
      PROVE  Says
  BY <1>2, DirectiveOf, SilenceSays DEF SetRepeat, Accept, Word
<1>3. ASSUME NEW change, ChangeShuffle(change)
      PROVE  Says
  BY <1>3, DirectiveOf, SilenceSays DEF ChangeShuffle, Accept, Word
<1>4. QED
  BY <1>1, <1>2, <1>3, RefusalSays
     DEF Editing, Clear, RemovePosition, RemoveRange, RemoveRequester, Reorder

LEMMA RequestingSays ==
    ASSUME Countdown, Requesting
    PROVE  Says
<1>1. ASSUME NEW item, NEW channel \in VoiceChannels, Enqueue(item, channel)
      PROVE  Says
  BY <1>1, RefusalSays, AddSays, TargetOf DEF Enqueue, Accept
<1>2. ASSUME NEW items, NEW channel \in VoiceChannels, EnqueueAll(items, channel)
      PROVE  Says
  <2>1. ASSUME NEW taken, Add(taken, channel),
               Accept(IF StartsPlayback THEN TransitionTo("Play", current')
                                        ELSE Transition("None"))
        PROVE  Says
    <3> DEFINE start == TransitionTo("Play", current')
    <3>1. start.directive = "Play" /\ start.target = current'
      BY DirectiveOf, TargetOf
    <3>2. emitted' = IF StartsPlayback THEN start ELSE Transition("None")
      BY <2>1 DEF Accept
    <3> HIDE DEF start
    <3>3. QED
      BY <2>1, <3>1, <3>2, AddSays
  <2>2. QED
    BY <1>2, <2>1, RefusalSays, UnchangedSays DEF EnqueueAll
<1>3. QED
  BY <1>1, <1>2 DEF Requesting

LEMMA ControllingSays ==
    ASSUME Countdown, Controlling
    PROVE  Says
<1>a. ASSUME NEW left, NEW reason, Advance(left, reason, "Replace")
      PROVE  Says
  BY <1>a, AdvanceSays DEF Starting
<1>1. CASE Skip
  BY <1>1, <1>a, UnchangedSays DEF Skip
<1>2. ASSUME NEW user, NEW needed, VoteSkip(user, needed)
      PROVE  Says
  BY <1>2, <1>a, RefusalSays, DirectiveOf, SilenceSays DEF VoteSkip, Accept, Word
<1>3. CASE Stop
  BY <1>3, EndingSays, DirectiveOf DEF Stop, StopDirective, Accept, GivingUp
<1>4. ASSUME NEW reason \in Hold \ {"None"}, HoldPlayback(reason)
      PROVE  Says
  BY <1>4, RefusalSays, DirectiveOf DEF HoldPlayback, Accept, Says, Said, Word
<1>5. ASSUME NEW scope, ReleasePlayback(scope)
      PROVE  Says
  BY <1>5, RefusalSays, UnchangedSays, DirectiveOf DEF ReleasePlayback, Accept, Says, Said, Word
<1>6. CASE Park
  BY <1>6, RefusalSays, DirectiveOf DEF Park, Accept, Says, Said, Word, GivingUp
<1>7. ASSUME NEW channel \in VoiceChannels, Join(channel)
      PROVE  Says
  <2>1. channel # None
    BY ConstantsAssumption
  <2>2. QED
    BY <1>7, <2>1, RefusalSays, DirectiveOf, TargetOf
       DEF Join, ResumeHeld, Accept, Says, Said, Word, Starting
<1>8. ASSUME NEW percent, SetVolume(percent)
      PROVE  Says
  BY <1>8, RefusalSays, DirectiveOf DEF SetVolume, Accept, Says, Said, Word
<1>9. QED
  BY <1>1, <1>2, <1>3, <1>4, <1>5, <1>6, <1>7, <1>8 DEF Controlling, Skipping

(* The countdown ends a session with a directive of its own, or one that   *)
(* had nothing and nowhere to play it.                                     *)
LEMMA TimeoutSays ==
    ASSUME Countdown, IdleTimeout
    PROVE  Says
<1>1. CASE voice_channel_id # None
  BY <1>1, EndingSays, DirectiveOf DEF IdleTimeout, GivingUp
<1>2. CASE voice_channel_id = None /\ ~IsEmpty
  BY <1>2, DirectiveOf DEF IdleTimeout, ClearSession, Says, Said, Word
<1>3. CASE voice_channel_id = None /\ IsEmpty
  <2>1. emitted'.directive = "None"
    BY <1>3, DirectiveOf DEF IdleTimeout
  <2>2. UNCHANGED Word
    BY <1>3 DEF IdleTimeout, ClearSession, IsEmpty, Countdown, NothingOutlivesItsTrack, Word
  <2>3. QED
    BY <2>1, <2>2, SilenceSays
<1>4. QED
  BY <1>1, <1>2, <1>3

(* Every step says how it changes the word, and nothing else does. *)
LEMMA NextSays ==
    ASSUME Countdown, Next
    PROVE  Says
<1>1. CASE Requesting \/ Editing \/ Controlling
  BY <1>1, RequestingSays, EditingSays, ControllingSays
<1>2. CASE Completing
  BY <1>2, AdvanceSays, UnchangedSays DEF Completing, TrackFinished, Starting
<1>3. CASE Shutdown
  BY <1>3, EndingSays, DirectiveOf DEF Shutdown, StopDirective, Accept, GivingUp
<1>4. CASE Expire
  BY <1>4, TimeoutSays DEF Expire
<1>5. CASE AfterStopped
  BY <1>5, RefusalSays DEF AfterStopped
<1>6. QED
  BY <1>1, <1>2, <1>3, <1>4, <1>5 DEF Next, Command

-----------------------------------------------------------------------------
(* Departures: what becomes of a track that stops playing, under every mix *)
(* of repeat modes, shuffles, skips and failures.                          *)

(* What a step is to the track that plays: it plays on, or nothing did;    *)
(* it is moved off; or the session ends.                                   *)
PlaysOn ==
    /\ current' = current \/ current = None
    /\ history' = history
    /\ emitted'.directive # "Replace"
    /\ emitted'.directive \in Starting => current = None \/ voice_channel_id = None
MovesOff(reason, start) ==
    /\ current # None
    /\ Advance(current, reason, start)
    /\ reason = "Skipped" => Skipping
    /\ reason # "Skipped" => TrackFinished(current, reason)
    /\ start = "Replace" => reason = "Skipped"
TrackLeaves == \E reason \in Departure, start \in Starting : MovesOff(reason, start)
SessionEnds == current' = None /\ history' = history /\ emitted'.directive \in Ending

-----------------------------------------------------------------------------
LEMMA RefusalPlaysOn ==
    ASSUME NEW error, Refuse(error)
    PROVE  PlaysOn
BY DirectiveOf DEF Refuse, session, PlaysOn, Starting

LEMMA NothingNewPlaysOn ==
    ASSUME UNCHANGED session, Accept(Transition("None"))
    PROVE  PlaysOn
BY DirectiveOf DEF Accept, session, PlaysOn, Starting

LEMMA AddPlaysOn ==
    ASSUME NEW items, NEW channel, Add(items, channel)
    PROVE  history' = history /\ (current' = current \/ current = None)
BY DEF Add, Wake, Begin, Wait

LEMMA RequestingPlaysOn ==
    ASSUME Requesting
    PROVE  PlaysOn
<1>1. ASSUME NEW item, NEW channel, Enqueue(item, channel)
      PROVE  PlaysOn
  <2>1. CASE Refuse("QueueFull") \/ Refuse("VoiceChannelConflict")
    BY <2>1, RefusalPlaysOn
  <2>2. CASE /\ Add(<<item>>, channel)
             /\ Accept(IF StartsPlayback THEN Answered(current') ELSE Transition("None"))
    <3>1. emitted'.directive = IF StartsPlayback THEN "Play" ELSE "None"
      BY <2>2, DirectiveOf, TargetOf DEF Accept
    <3>2. QED
      BY <2>2, <3>1, AddPlaysOn DEF PlaysOn, StartsPlayback, Starting
  <2>3. QED
    BY <1>1, <2>1, <2>2 DEF Enqueue
<1>2. ASSUME NEW items, NEW channel, EnqueueAll(items, channel)
      PROVE  PlaysOn
  <2>1. CASE Refuse("QueueFull") \/ Refuse("VoiceChannelConflict")
    BY <2>1, RefusalPlaysOn
  <2>2. CASE Accept(Transition("None")) /\ UNCHANGED session
    BY <2>2, NothingNewPlaysOn
  <2>3. CASE /\ Add(Fitting(items), channel)
             /\ Accept(IF StartsPlayback THEN TransitionTo("Play", current')
                                         ELSE Transition("None"))
    <3>1. emitted'.directive = IF StartsPlayback THEN "Play" ELSE "None"
      BY <2>3, DirectiveOf DEF Accept
    <3>2. QED
      BY <2>3, <3>1, AddPlaysOn DEF PlaysOn, StartsPlayback, Starting
  <2>4. QED
    BY <1>2, <2>1, <2>2, <2>3 DEF EnqueueAll
<1>3. QED
  BY <1>1, <1>2 DEF Requesting

LEMMA EditingPlaysOn ==
    ASSUME Editing
    PROVE  PlaysOn
<1>1. ASSUME NEW waiting, Rearrange(waiting)
      PROVE  PlaysOn
  BY <1>1, DirectiveOf DEF Rearrange, Accept, PlaysOn, Starting
<1>2. ASSUME NEW mode, SetRepeat(mode)
      PROVE  PlaysOn
  BY <1>2, DirectiveOf DEF SetRepeat, Accept, PlaysOn, Starting
<1>3. ASSUME NEW change, ChangeShuffle(change)
      PROVE  PlaysOn
  BY <1>3, DirectiveOf DEF ChangeShuffle, Accept, PlaysOn, Starting
<1>4. QED
  BY <1>1, <1>2, <1>3, RefusalPlaysOn
     DEF Editing, Clear, RemovePosition, RemoveRange, RemoveRequester, Reorder

LEMMA ControllingMoves ==
    ASSUME Controlling
    PROVE  PlaysOn \/ TrackLeaves \/ SessionEnds
<1>1. ASSUME Skipping, current # None, Advance(current, "Skipped", "Replace")
      PROVE  TrackLeaves
  <2>1. "Skipped" \in Departure /\ "Replace" \in Starting
    BY DEF Departure, Starting
  <2>2. MovesOff("Skipped", "Replace")
    BY <1>1 DEF MovesOff
  <2>3. QED
    BY <2>1, <2>2 DEF TrackLeaves
<1>2. CASE Skip
  BY <1>1, <1>2, NothingNewPlaysOn DEF Skip, Skipping
<1>3. ASSUME NEW user \in Users, NEW needed \in 1..Cardinality(Users), VoteSkip(user, needed)
      PROVE  PlaysOn \/ TrackLeaves
  <2>1. Skipping
    BY <1>3 DEF Skipping
  <2>2. QED
    BY <1>1, <1>3, <2>1, RefusalPlaysOn, DirectiveOf DEF VoteSkip, Accept, PlaysOn, Starting
<1>4. CASE Stop
  BY <1>4, DirectiveOf DEF Stop, ClearSession, StopDirective, Accept, SessionEnds, Ending
<1>5. ASSUME NEW reason, HoldPlayback(reason)
      PROVE  PlaysOn
  BY <1>5, RefusalPlaysOn, DirectiveOf DEF HoldPlayback, Accept, PlaysOn, Starting
<1>6. ASSUME NEW scope, ReleasePlayback(scope)
      PROVE  PlaysOn
  BY <1>6, RefusalPlaysOn, NothingNewPlaysOn, DirectiveOf
     DEF ReleasePlayback, Accept, PlaysOn, Starting
<1>7. CASE Park
  BY <1>7, RefusalPlaysOn, DirectiveOf DEF Park, Accept, PlaysOn, Starting
<1>8. ASSUME NEW channel, Join(channel)
      PROVE  PlaysOn
  <2>1. ASSUME NEW item
        PROVE  Answered(item).directive = "Play"
    BY DEF Answered, TransitionTo, Transition
  <2>2. QED
    BY <1>8, <2>1, RefusalPlaysOn, DirectiveOf DEF Join, Accept, PlaysOn
<1>9. ASSUME NEW percent, SetVolume(percent)
      PROVE  PlaysOn
  BY <1>9, RefusalPlaysOn, DirectiveOf DEF SetVolume, Accept, PlaysOn, Starting
<1>10. QED
  BY <1>2, <1>3, <1>4, <1>5, <1>6, <1>7, <1>8, <1>9 DEF Controlling, Skipping

(* Every step of the actor is one of the three. *)
LEMMA NextMoves ==
    ASSUME Next
    PROVE  PlaysOn \/ TrackLeaves \/ SessionEnds
<1>1. CASE Requesting \/ Editing
  BY <1>1, RequestingPlaysOn, EditingPlaysOn
<1>2. CASE Controlling
  BY <1>2, ControllingMoves
<1>3. CASE Completing
  <2>1. PICK item \in Items, reason \in Departure \ {"Skipped"} : TrackFinished(item, reason)
    BY <1>3 DEF Completing
  <2>2. CASE Accept(Transition("None")) /\ UNCHANGED session
    BY <2>2, NothingNewPlaysOn
  <2>3. CASE current = item /\ Advance(item, reason, "Play")
    <3>1. current # None
      BY <2>3, ConstantsAssumption
    <3>2. MovesOff(reason, "Play")
      BY <2>1, <2>3, <3>1 DEF MovesOff
    <3>3. QED
      BY <3>2 DEF TrackLeaves, Starting
  <2>4. QED
    BY <2>1, <2>2, <2>3 DEF TrackFinished
<1>4. CASE Shutdown
  BY <1>4, DirectiveOf DEF Shutdown, ClearSession, StopDirective, Accept, SessionEnds, Ending
<1>5. CASE Expire
  BY <1>5, DirectiveOf
     DEF Expire, IdleTimeout, ClearSession, SessionEnds, Ending, PlaysOn, IsEmpty
<1>6. CASE AfterStopped
  BY <1>6, RefusalPlaysOn DEF AfterStopped
<1>7. QED
  BY <1>1, <1>2, <1>3, <1>4, <1>5, <1>6 DEF Next, Command

-----------------------------------------------------------------------------
(* The history.                                                            *)

LEMMA RememberProperties ==
    ASSUME history \in Seq(Items), NEW item \in Items
    PROVE  /\ item \in Range(Remember(item))
           /\ HistoryIsSound =>
                 /\ Len(Remember(item)) <= HistoryLength
                 /\ \A k \in 1..(Len(Remember(item)) - 1) :
                       Remember(item)[k] # Remember(item)[k + 1]
<1> DEFINE kept == IF Len(history) = HistoryLength THEN Tail(history) ELSE history
<1>0. Len(history) \in Nat /\ HistoryLength \in Nat \ {0}
  BY LenProperties, ConstantsAssumption
<1>1. CASE history # <<>> /\ Last(history) = item
  <2>1. Len(history) \in 1..Len(history) /\ history[Len(history)] = item
    BY <1>0, <1>1, EmptySeq DEF Last
  <2>2. item \in Range(history)
    BY <2>1 DEF Range
  <2>3. Remember(item) = history
    BY <1>1 DEF Remember
  <2>4. QED
    BY <2>2, <2>3 DEF HistoryIsSound
<1>2. CASE ~(history # <<>> /\ Last(history) = item)
  <2>1. Remember(item) = Append(kept, item)
    BY <1>2 DEF Remember
  <2>2. /\ kept \in Seq(Items) /\ Len(kept) \in Nat
        /\ Len(kept) <= Len(history)
        /\ Len(history) = HistoryLength => Len(kept) = Len(history) - 1
        /\ \A k \in 1..Len(kept) : kept[k] = history[k + (Len(history) - Len(kept))]
    <3>1. CASE Len(history) = HistoryLength
      <4>1. history # <<>>
        BY <1>0, <3>1, EmptySeq
      <4>2. /\ kept = Tail(history)
            /\ Tail(history) \in Seq(Items) /\ Len(Tail(history)) = Len(history) - 1
            /\ \A k \in 1..Len(Tail(history)) : Tail(history)[k] = history[k + 1]
        BY <3>1, <4>1, HeadTailProperties
      <4> HIDE DEF kept
      <4>3. Len(history) - Len(kept) = 1
        BY <1>0, <4>2
      <4>4. ASSUME NEW k \in 1..Len(kept)
            PROVE  kept[k] = history[k + (Len(history) - Len(kept))]
        <5>1. kept[k] = history[k + 1]
          BY <4>2
        <5>2. QED
          BY <4>3, <5>1
      <4>5. kept \in Seq(Items) /\ Len(kept) = Len(history) - 1 /\ Len(history) >= 1
        BY <1>0, <3>1, <4>2
      <4>6. QED
        BY <1>0, <4>4, <4>5
    <3>2. CASE Len(history) # HistoryLength
      <4>1. kept = history
        BY <3>2
      <4> HIDE DEF kept
      <4>2. \A k \in 1..Len(kept) : k + (Len(history) - Len(kept)) = k
        BY <1>0, <4>1
      <4>3. QED
        BY <1>0, <3>2, <4>1, <4>2
    <3>3. QED
      BY <3>1, <3>2
  <2> HIDE DEF kept
  <2>3. /\ Append(kept, item) \in Seq(Items)
        /\ Len(Append(kept, item)) = Len(kept) + 1
        /\ \A k \in 1..Len(kept) : Append(kept, item)[k] = kept[k]
        /\ Append(kept, item)[Len(kept) + 1] = item
    BY <2>2, AppendProperties
  <2>4. item \in Range(Append(kept, item))
    BY <2>2, <2>3 DEF Range
  <2>5. ASSUME HistoryIsSound
        PROVE  /\ Len(Append(kept, item)) <= HistoryLength
               /\ \A k \in 1..Len(kept) : Append(kept, item)[k] # Append(kept, item)[k + 1]
    <3>1. Len(Append(kept, item)) <= HistoryLength
      BY <1>0, <2>2, <2>3, <2>5 DEF HistoryIsSound
    <3>2. ASSUME NEW k \in 1..Len(kept)
          PROVE  Append(kept, item)[k] # Append(kept, item)[k + 1]
      <4>1. CASE k < Len(kept)
        <5>1. k \in 1..Len(kept) /\ k + 1 \in 1..Len(kept)
          BY <2>2, <4>1
        <5>2. LET j == k + (Len(history) - Len(kept))
              IN  /\ j \in 1..(Len(history) - 1)
                  /\ kept[k] = history[j] /\ kept[k + 1] = history[j + 1]
          BY <1>0, <2>2, <4>1, <5>1
        <5>3. kept[k] # kept[k + 1]
          BY <2>5, <5>2 DEF HistoryIsSound
        <5>4. QED
          BY <2>3, <5>1, <5>3
      <4>2. CASE k = Len(kept)
        <5>1. history # <<>> /\ kept[k] = history[Len(history)]
          BY <1>0, <2>2, <4>2, EmptySeq
        <5>2. kept[k] # item
          BY <1>2, <5>1 DEF Last
        <5>3. QED
          BY <2>3, <4>2, <5>2
      <4>3. QED
        BY <2>2, <4>1, <4>2
    <3>3. QED
      BY <3>1, <3>2
  <2>6. QED
    BY <2>1, <2>2, <2>3, <2>4, <2>5
<1>3. QED
  BY <1>1, <1>2

(* The history never outgrows its bound, and no performance of a track is  *)
(* filed twice in a row (remember in src/src/player.rs).                   *)
THEOREM HistoryCorrect == Spec => []HistoryIsSound
<1>1. Init => HistoryIsSound
  <2>1. Len(<<>>) = 0
    BY EmptySeq
  <2>2. QED
    BY <2>1, ConstantsAssumption DEF Init, HistoryIsSound
<1>2. TypeOK /\ HistoryIsSound /\ [Next]_vars => HistoryIsSound'
  <2> SUFFICES ASSUME TypeOK, HistoryIsSound, [Next]_vars
               PROVE  HistoryIsSound'
    OBVIOUS
  <2>1. CASE history' = history
    BY <2>1 DEF HistoryIsSound
  <2>2. CASE current # None /\ history' = Remember(current)
    <3>1. history \in Seq(Items) /\ current \in Items
      BY <2>2 DEF TypeOK
    <3>2. QED
      BY <2>2, <3>1, RememberProperties DEF HistoryIsSound
  <2>3. CASE TrackLeaves
    BY <2>1, <2>2, <2>3 DEF TrackLeaves, MovesOff, Advance, Filed
  <2>4. QED
    BY <2>1, <2>3, NextMoves DEF PlaysOn, SessionEnds, vars, session
<1>3. QED
  BY <1>1, <1>2, TypeCorrect, PTL DEF Spec

(* A track that was playing is still queued or is in the history, unless   *)
(* it failed or the session was ended.                                     *)
THEOREM NoTrackVanishesCorrect == Spec => NoTrackVanishes
<1>1. TypeOK /\ [Next]_vars
         => [current \notin Remembered' \cup {None}
                => emitted'.directive \in Ending \/ TrackFinished(current, "Failed")]_vars
  <2> SUFFICES ASSUME TypeOK, Next, current \notin Remembered' \cup {None}
               PROVE  emitted'.directive \in Ending \/ TrackFinished(current, "Failed")
    OBVIOUS
  <2>1. current \in Items /\ history \in Seq(Items)
    BY DEF TypeOK
  <2>2. current' # current /\ current \notin Range(history')
    BY <2>1 DEF Remembered
  <2>3. CASE TrackLeaves
    <3>1. PICK reason \in Departure, start \in Starting : MovesOff(reason, start)
      BY <2>3 DEF TrackLeaves
    <3>2. reason = "Failed"
      BY <2>1, <2>2, <3>1, RememberProperties DEF MovesOff, Advance, Filed
    <3>3. QED
      BY <3>1, <3>2 DEF MovesOff
  <2>4. QED
    BY <2>2, <2>3, NextMoves DEF PlaysOn, SessionEnds
<1>2. QED
  BY <1>1, TypeCorrect, PTL DEF Spec, NoTrackVanishes

-----------------------------------------------------------------------------
(* What comes next.                                                        *)

LEMMA RequeuedProperties ==
    ASSUME TypeOK, current # None, NEW reason \in Departure
    PROVE  /\ Requeued(current, reason) \in Seq(Items)
           /\ repeat = "All" /\ reason # "Failed" => Requeued(current, reason) # <<>>
           /\ pending # <<>> => Requeued(current, reason)[1] = Head(pending)
           /\ pending = <<>> => \A k \in DOMAIN Requeued(current, reason) :
                                   Requeued(current, reason)[k] = current
<1>1. pending \in Seq(Items) /\ current \in Items
  BY DEF TypeOK
<1>2. /\ Append(pending, current) \in Seq(Items)
      /\ Len(Append(pending, current)) = Len(pending) + 1
      /\ \A k \in 1..Len(pending) : Append(pending, current)[k] = pending[k]
      /\ Append(pending, current)[Len(pending) + 1] = current
  BY <1>1, AppendProperties
<1>3. Len(pending) \in Nat /\ (pending # <<>> => Len(pending) >= 1)
  BY <1>1, LenProperties, EmptySeq
<1>4. Append(pending, current) # <<>>
  BY <1>2, <1>3, EmptySeq
<1>5. pending # <<>> => Head(pending) = pending[1]
  BY <1>1, HeadTailProperties
<1>6. Requeued(current, reason) \in {pending, Append(pending, current)}
  BY DEF Requeued
<1>7. pending # <<>> => Requeued(current, reason)[1] = Head(pending)
  BY <1>2, <1>3, <1>5, <1>6
<1>8. ASSUME pending = <<>>, NEW k \in DOMAIN Requeued(current, reason)
      PROVE  Requeued(current, reason)[k] = current
  <2>1. DOMAIN pending = {} /\ Len(pending) = 0
    BY <1>8, EmptySeq
  <2>2. Requeued(current, reason) = Append(pending, current)
    BY <1>6, <1>8, <2>1
  <2>3. DOMAIN Append(pending, current) = 1..1
    BY <1>2, <2>1, LenProperties
  <2>4. QED
    BY <1>2, <1>8, <2>1, <2>2, <2>3
<1>9. QED
  BY <1>1, <1>2, <1>4, <1>6, <1>7, <1>8 DEF Requeued

(* Under /repeat all a track is followed by another unless it failed or    *)
(* the session was ended.                                                  *)
THEOREM RepeatAllCorrect == Spec => RepeatAllNeverRunsDry
<1>1. TypeOK /\ [Next]_vars
         => [repeat = "All" /\ current # None /\ current' = None
                => emitted'.directive \in Ending \/ TrackFinished(current, "Failed")]_vars
  <2> SUFFICES ASSUME TypeOK, Next, repeat = "All", current # None, current' = None
               PROVE  emitted'.directive \in Ending \/ TrackFinished(current, "Failed")
    OBVIOUS
  <2>1. CASE TrackLeaves
    <3>1. PICK reason \in Departure, start \in Starting : MovesOff(reason, start)
      BY <2>1 DEF TrackLeaves
    <3>2. ASSUME reason # "Failed"
          PROVE  FALSE
      <4>1. /\ Requeued(current, reason) \in Seq(Items)
            /\ Requeued(current, reason) # <<>>
        BY <3>2, RequeuedProperties
      <4>2. PICK k \in NextPositions(Requeued(current, reason)) :
               current' = Requeued(current, reason)[k]
        BY <3>1, <4>1 DEF MovesOff, Advance
      <4>3. current' \in Items
        BY <4>1, <4>2, LenProperties, ElementOfSeq DEF NextPositions
      <4>4. QED
        BY <4>3, ConstantsAssumption
    <3>3. QED
      BY <3>1, <3>2 DEF MovesOff
  <2>2. QED
    BY <2>1, NextMoves DEF PlaysOn, SessionEnds
<1>2. QED
  BY <1>1, TypeCorrect, PTL DEF Spec, RepeatAllNeverRunsDry

(* A track that is left and follows itself does so because a repeat mode   *)
(* owes it the next turn: it has ended under /repeat single, or nothing    *)
(* takes its place in the rotation.                                        *)
LEMMA FollowsItself ==
    ASSUME TypeOK, QueueIsSound, NEW reason \in Departure, NEW start \in Starting,
           MovesOff(reason, start), current' = current
    PROVE  /\ PlaysAgain(reason) \/ ComesRoundAtOnce
           /\ reason # "Failed"
<1>1. CASE PlaysAgain(reason)
  BY <1>1 DEF PlaysAgain
<1>2. CASE ~PlaysAgain(reason)
  <2>1. current' # None
    BY DEF MovesOff
  <2>2. PICK k \in NextPositions(Requeued(current, reason)) :
           current' = Requeued(current, reason)[k]
    BY <1>2, <2>1 DEF MovesOff, Advance
  <2>3. \A j \in DOMAIN pending : pending[j] # current
    BY DEF QueueIsSound, Range
  <2>4. Requeued(current, reason) # pending
    BY <2>2, <2>3 DEF NextPositions
  <2>5. repeat = "All" /\ reason # "Failed"
    BY <2>4 DEF Requeued
  <2>6. ASSUME ~shuffle, pending # <<>>
        PROVE  FALSE
    <3>1. current' = Requeued(current, reason)[1] /\ 1 \in DOMAIN pending
      BY <2>2, <2>6, EmptySeq DEF NextPositions, TypeOK
    <3>2. Requeued(current, reason)[1] = Head(pending)
      BY <2>6, RequeuedProperties DEF MovesOff
    <3>3. Head(pending) = pending[1]
      BY <2>6 DEF TypeOK
    <3>4. QED
      BY <2>3, <3>1, <3>2, <3>3
  <2>7. QED
    BY <2>5, <2>6 DEF ComesRoundAtOnce
<1>3. QED
  BY <1>1, <1>2

(* Unless the session shuffles, whatever plays next was first in line; and *)
(* a skip moves on to another track, unless /repeat all brings the skipped *)
(* one round at once.                                                      *)
THEOREM FirstInLineCorrect == Spec => FirstInLineIsNext
<1>1. TypeOK /\ QueueIsSound /\ [Next]_vars
         => [/\ ~shuffle /\ current # None /\ current' \notin {None, current}
                   => pending # <<>> /\ current' = Head(pending)
             /\ emitted'.directive = "Replace" /\ current' = current => ComesRoundAtOnce]_vars
  <2> SUFFICES ASSUME TypeOK, QueueIsSound, Next
               PROVE  /\ ~shuffle /\ current # None /\ current' \notin {None, current}
                            => pending # <<>> /\ current' = Head(pending)
                      /\ emitted'.directive = "Replace" /\ current' = current
                            => ComesRoundAtOnce
    OBVIOUS
  <2>1. ASSUME ~shuffle, current # None, current' \notin {None, current}
        PROVE  pending # <<>> /\ current' = Head(pending)
    <3>1. TrackLeaves
      BY <2>1, NextMoves DEF PlaysOn, SessionEnds
    <3>2. PICK reason \in Departure, start \in Starting : MovesOff(reason, start)
      BY <3>1 DEF TrackLeaves
    <3>3. PICK k \in NextPositions(Requeued(current, reason)) :
             current' = Requeued(current, reason)[k]
      BY <2>1, <3>2 DEF MovesOff, Advance
    <3>4. k = 1 /\ k \in DOMAIN Requeued(current, reason)
      BY <2>1, <3>3 DEF NextPositions
    <3>5. QED
      BY <2>1, <3>3, <3>4, RequeuedProperties
  <2>2. ASSUME emitted'.directive = "Replace", current' = current
        PROVE  ComesRoundAtOnce
    <3>1. TrackLeaves
      BY <2>2, NextMoves DEF PlaysOn, SessionEnds, Ending
    <3>2. PICK reason \in Departure, start \in Starting : MovesOff(reason, start)
      BY <3>1 DEF TrackLeaves
    <3>3. start = "Replace" /\ reason = "Skipped"
      BY <2>2, <3>2, DirectiveOf DEF MovesOff, Advance, Accept
    <3>4. QED
      BY <2>2, <3>2, <3>3, FollowsItself DEF PlaysAgain
  <2>3. QED
    BY <2>1, <2>2
<1>2. QED
  BY <1>1, TypeCorrect, QueueCorrect, PTL DEF Spec, FirstInLineIsNext

-----------------------------------------------------------------------------
(* The promise: the actor implements Jukebox, whatever it is asked and     *)
(* whichever modes are on.                                                 *)

(* The jukebox counts as its implementation does. *)
LEMMA SameCount == \A S : Promise!Cardinality(S) = Cardinality(S)
BY DEF Promise!Cardinality, Cardinality, Promise!IsFiniteSet, IsFiniteSet

(* A queue and the track before it hold no more tracks than they have      *)
(* places.                                                                 *)
LEMMA HeldIsBounded ==
    ASSUME NEW queue \in Seq(Items), NEW track,
           Len(queue) + (IF track = None THEN 0 ELSE 1) <= MaxTracks
    PROVE  Cardinality(Range(queue) \cup ({track} \ {None})) <= MaxTracks
<1>1. Len(queue) \in Nat /\ DOMAIN queue = 1..Len(queue) /\ MaxTracks \in Nat
  BY LenProperties, ConstantsAssumption
<1>2. IsFiniteSet(1..Len(queue)) /\ Cardinality(1..Len(queue)) = Len(queue)
  <2>1. IsFiniteSet(1..Len(queue))
    BY <1>1, FS_Interval
  <2>2. Cardinality(1..Len(queue)) = IF 1 > Len(queue) THEN 0 ELSE Len(queue) - 1 + 1
    <3>1. 1 \in Int /\ Len(queue) \in Int
      BY <1>1
    <3>2. QED
      BY <3>1, FS_Interval, Zenon
  <2>3. QED
    BY <1>1, <2>1, <2>2
<1>3. queue \in Surjection(1..Len(queue), Range(queue))
  <2>1. queue \in [1..Len(queue) -> Range(queue)]
    BY <1>1, SeqOfRange
  <2>2. \A e \in Range(queue) : \E i \in 1..Len(queue) : queue[i] = e
    BY <1>1 DEF Range
  <2>3. QED
    BY <2>1, <2>2 DEF Surjection
<1>4. IsFiniteSet(Range(queue)) /\ Cardinality(Range(queue)) <= Len(queue)
  BY <1>2, <1>3, FS_Surjection
<1>5. Cardinality(Range(queue)) \in Nat
  BY <1>4, FS_CardinalityType
<1>6. CASE track = None
  <2>1. Range(queue) \cup ({track} \ {None}) = Range(queue)
    BY <1>6
  <2>2. Len(queue) <= MaxTracks
    BY <1>1, <1>6
  <2>3. Cardinality(Range(queue)) <= MaxTracks
    BY <1>1, <1>4, <1>5, <2>2
  <2>4. QED
    BY <2>1, <2>3
<1>7. CASE track # None
  <2>1. Range(queue) \cup ({track} \ {None}) = Range(queue) \cup {track}
    BY <1>7
  <2>2. Cardinality(Range(queue) \cup {track}) <= Cardinality(Range(queue)) + 1
    <3>1. Cardinality(Range(queue) \cup {track})
             = IF track \in Range(queue) THEN Cardinality(Range(queue))
                                         ELSE Cardinality(Range(queue)) + 1
      BY <1>4, FS_AddElement
    <3>2. QED
      BY <1>5, <3>1
  <2>3. Cardinality(Range(queue) \cup {track}) \in Nat
    BY <1>4, FS_AddElement, FS_CardinalityType
  <2>4. Len(queue) + 1 <= MaxTracks
    BY <1>1, <1>7
  <2>5. Cardinality(Range(queue) \cup {track}) <= MaxTracks
    BY <1>1, <1>4, <1>5, <2>2, <2>3, <2>4
  <2>6. QED
    BY <2>1, <2>5
<1>8. QED
  BY <1>6, <1>7

-----------------------------------------------------------------------------
(* What each kind of step is to the jukebox. *)

LEMMA WithdrawingKeepsThePromise ==
    ASSUME OnlyWithdraws
    PROVE  Promise!Withdraw
<1>1. Range(pending') = Range(pending) \ (Range(pending) \ Range(pending'))
  BY DEF OnlyWithdraws
<1>2. QED
  BY <1>1 DEF OnlyWithdraws, Promise!Withdraw

LEMMA TakingInKeepsThePromise ==
    ASSUME TypeOK', QueueIsSound', TakesSomeIn
    PROVE  Promise!Admit
<1>1. PICK new \in SUBSET Fresh : new # {} /\ TakesIn(new)
  BY DEF TakesSomeIn
<1>2. new \in SUBSET (Items \ Promise!Held) /\ None \notin new
  BY ConstantsAssumption DEF Fresh, Remembered, Promise!Held
<1>3. Promise!Held \cup new = Range(pending') \cup ({current'} \ {None})
  BY <1>1, <1>2 DEF TakesIn, Promise!Held
<1>4. Cardinality(Promise!Held \cup new) <= MaxTracks
  <2>1. pending' \in Seq(Items)
    BY DEF TypeOK
  <2>2. Len(pending') + (IF current' = None THEN 0 ELSE 1) <= MaxTracks
    BY DEF QueueIsSound, Length
  <2>3. QED
    BY <1>3, <2>1, <2>2, HeldIsBounded
<1>5. CASE current # None /\ current' = current /\ Range(pending') = Range(pending) \cup new
  BY <1>1, <1>2, <1>4, <1>5, SameCount DEF Promise!Admit
<1>6. CASE /\ current = None
           /\ current' \in new
           /\ Range(pending') = Range(pending) \cup (new \ {current'})
  BY <1>1, <1>2, <1>4, <1>6, SameCount DEF Promise!Admit
<1>7. QED
  BY <1>1, <1>5, <1>6 DEF TakesIn

LEMMA GivingWayKeepsThePromise ==
    ASSUME current # None, GivesWay
    PROVE  Promise!MoveOn
BY DEF GivesWay, Promise!MoveOn

LEMMA EndingKeepsThePromise ==
    ASSUME ClearSession
    PROVE  Promise!Empty
BY DEF ClearSession, Promise!Empty, Range

(* Every step but a request either takes back what waits, moves the track  *)
(* off that plays, or ends the session.                                    *)
LEMMA OthersHold ==
    ASSUME TypeOK, QueueIsSound, Editing \/ Controlling \/ Completing \/ Shutdown \/ IdleTimeout
    PROVE  OnlyWithdraws \/ (current # None /\ GivesWay) \/ ClearSession
<1>f. FieldsOK
  BY TypeOKSplits
<1>u. CASE UNCHANGED <<current, pending>>
  BY <1>u DEF OnlyWithdraws
<1>r. ASSUME NEW error, Refuse(error)
      PROVE  UNCHANGED <<current, pending>>
  BY <1>r DEF Refuse, session
<1>s. ASSUME UNCHANGED session
      PROVE  UNCHANGED <<current, pending>>
  BY <1>s DEF session
<1>a. ASSUME current # None, NEW reason \in Departure, NEW start \in Starting,
             Advance(current, reason, start)
      PROVE  GivesWay
  BY <1>f, <1>a, AdvanceQueue
<1>1. CASE Editing
  BY <1>1, EditingQueue
<1>2. CASE Controlling
  <2>1. ASSUME current # None, Advance(current, "Skipped", "Replace")
        PROVE  GivesWay
    BY <1>a, <2>1 DEF Departure, Starting
  <2>2. CASE Skip
    BY <1>u, <1>s, <2>1, <2>2 DEF Skip
  <2>3. ASSUME NEW user, NEW needed, VoteSkip(user, needed)
        PROVE  (current # None /\ GivesWay) \/ UNCHANGED <<current, pending>>
    BY <1>r, <2>1, <2>3 DEF VoteSkip
  <2>4. CASE Stop
    BY <2>4 DEF Stop
  <2>5. ASSUME NEW reason, HoldPlayback(reason)
        PROVE  UNCHANGED <<current, pending>>
    BY <1>r, <2>5 DEF HoldPlayback
  <2>6. ASSUME NEW scope, ReleasePlayback(scope)
        PROVE  UNCHANGED <<current, pending>>
    BY <1>r, <1>s, <2>6 DEF ReleasePlayback
  <2>7. ASSUME Park
        PROVE  UNCHANGED <<current, pending>>
    BY <1>r, <2>7 DEF Park
  <2>8. ASSUME NEW channel, Join(channel)
        PROVE  UNCHANGED <<current, pending>>
    BY <1>r, <2>8 DEF Join
  <2>9. ASSUME NEW percent, SetVolume(percent)
        PROVE  UNCHANGED <<current, pending>>
    BY <1>r, <2>9 DEF SetVolume
  <2>10. QED
    BY <1>u, <1>2, <2>2, <2>3, <2>4, <2>5, <2>6, <2>7, <2>8, <2>9 DEF Controlling, Skipping
<1>3. CASE Completing
  <2>1. PICK item \in Items, reason \in Departure \ {"Skipped"} : TrackFinished(item, reason)
    BY <1>3 DEF Completing
  <2>2. CASE current = item /\ Advance(item, reason, "Play")
    BY <1>a, <2>2, ConstantsAssumption DEF Starting
  <2>3. QED
    BY <1>u, <1>s, <2>1, <2>2 DEF TrackFinished
<1>4. CASE Shutdown \/ IdleTimeout
  BY <1>4 DEF Shutdown, IdleTimeout
<1>5. QED
  BY <1>1, <1>2, <1>3, <1>4

(* Every step of the actor is one of the jukebox's, or leaves it as it is. *)
LEMMA StepKeepsThePromise ==
    ASSUME TypeOK, QueueIsSound, TypeOK', QueueIsSound', [Next]_vars
    PROVE  [Promise!Next]_Promise!jukebox
<1>1. CASE Requesting
  BY <1>1, RequestingQueue, WithdrawingKeepsThePromise, TakingInKeepsThePromise
     DEF Promise!Next
<1>2. CASE Editing \/ Controlling \/ Completing \/ Shutdown \/ Expire
  BY <1>2, OthersHold, WithdrawingKeepsThePromise, GivingWayKeepsThePromise,
     EndingKeepsThePromise
     DEF Expire, Promise!Next
<1>3. CASE AfterStopped \/ UNCHANGED vars
  BY <1>3 DEF AfterStopped, Refuse, vars, session, Promise!jukebox
<1>4. QED
  BY <1>1, <1>2, <1>3 DEF Next, Command

(* The actor keeps the queue's promise: no more tracks than it may hold,   *)
(* none in twice, none played that did not wait or come to silence, and    *)
(* nothing waiting behind silence.                                         *)
THEOREM PromiseCorrect == Spec => KeepsThePromise
<1>1. Init => Promise!Init
  BY DEF Init, Promise!Init, Range
<1>2. /\ TypeOK /\ QueueIsSound /\ TypeOK' /\ QueueIsSound' /\ [Next]_vars
      => [Promise!Next]_Promise!jukebox
  BY StepKeepsThePromise
<1>3. QED
  BY <1>1, <1>2, TypeCorrect, QueueCorrect, PTL DEF Spec, KeepsThePromise, Promise!Spec

=============================================================================
