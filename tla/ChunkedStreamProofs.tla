------------------------- MODULE ChunkedStreamProofs -------------------------
(***************************************************************************)
(* Theorems about ChunkedStream, for every length, span and limit.         *)
(***************************************************************************)
EXTENDS ChunkedStream, SequenceTheorems, TLAPS

-----------------------------------------------------------------------------
(* The stream has passed exactly the bytes before its position. *)
PassedUpToHere == position = Len(delivered)

(* What the stream believes about its end is true of the URL in hand. *)
EndIsKnown ==
    /\ url = None => total = None /\ pc \in {"Resolving", "GaveUp"}
    /\ pc = "Resolving" => position = 0 /\ fruitless = 0
    /\ url # None =>
          /\ total \in {None, Length[url]}
          /\ pc = "Spent" => position >= Length[url]
          /\ pc = "Ended" /\ ~emptied /\ ~cancelled => position >= Length[url]

(* No input is cancelled under its preparation or its user: playback's is  *)
(* out of its preparation's reach.  Whoever asked for it waits for its URL. *)
Custody ==
    /\ owner # "Nobody" => ~cancelled
    /\ pc = "Resolving" =>
          /\ delivered = <<>>
          /\ owner = IF purpose = "Reach" THEN "User" ELSE "Preparing"

(* What the byte at the position has cost before the URL in hand, and what *)
(* it has cost by now.                                                     *)
PaidBefore == IF position > start THEN 0 ELSE refreshes * ChunkAttempts

CostsAreBounded ==
    /\ pc \in {"Resolving", "Idle", "Spent"} => fruitless <= PaidBefore
    /\ pc = "Waiting" => fruitless <= PaidBefore + attempt
    /\ fruitless <= PaidBefore + ChunkAttempts
    /\ pc = "Refreshing" => Progressed \/ refreshes < MaxUrlRefreshes

IInv ==
    /\ StreamTypeOK
    /\ PassedUpToHere
    /\ EndIsKnown
    /\ Custody
    /\ CostsAreBounded

(* One more URL costs one more round of attempts. *)
LEMMA Rounds ==
    ASSUME NEW rounds \in Nat, NEW cost \in Nat
    PROVE  /\ rounds * cost \in Nat
           /\ (rounds + 1) * cost = rounds * cost + cost
           /\ \A limit \in Nat : rounds <= limit => rounds * cost <= limit * cost
OBVIOUS

(* A run of bytes is a sequence of them, as long as it says. *)
LEMMA RunIsSequence ==
    ASSUME NEW encoding \in Encodings, NEW from \in Nat, NEW count \in Nat
    PROVE  /\ Promise!Run(encoding, from, count) \in Seq([encoding: Encodings, offset: Nat])
           /\ Len(Promise!Run(encoding, from, count)) = count
<1>1. \A k \in 1..count : [encoding |-> encoding, offset |-> from + k - 1]
                              \in [encoding: Encodings, offset: Nat]
  OBVIOUS
<1>2. QED
  BY <1>1 DEF Promise!Run

(* Passing bytes on keeps the position at their end. *)
LEMMA PassKeepsUp ==
    ASSUME StreamTypeOK, PassedUpToHere, url # None, NEW count \in Nat, Pass(count)
    PROVE  /\ delivered' \in Seq([encoding: Encodings, offset: Nat])
           /\ Len(delivered') = Len(delivered) + count
           /\ delivered' = delivered \o Promise!Run(url, Len(delivered), count)
           /\ position' = position + count /\ position' \in Nat
           /\ PassedUpToHere'
           /\ fruitless' = 0
<1>1. url \in Encodings /\ position \in Nat
  BY DEF StreamTypeOK
<1> DEFINE passed == Promise!Run(url, position, count)
<1>2. passed \in Seq([encoding: Encodings, offset: Nat]) /\ Len(passed) = count
  BY <1>1, RunIsSequence
<1>3. delivered' = delivered \o passed /\ position' = position + count /\ fruitless' = 0
  BY DEF Pass
<1> HIDE DEF passed
<1>4. delivered \in Seq([encoding: Encodings, offset: Nat])
  BY DEF StreamTypeOK
<1>5. delivered' \in Seq([encoding: Encodings, offset: Nat])
  BY <1>2, <1>3, <1>4, ConcatProperties
<1>6. Len(delivered') = Len(delivered) + count
  BY <1>2, <1>3, <1>4, ConcatProperties
<1>7. QED
  BY <1>1, <1>3, <1>5, <1>6 DEF PassedUpToHere, passed
-----------------------------------------------------------------------------
LEMMA InitIInv ==
    ASSUME Init
    PROVE  IInv
<1>1. Length \in [Encodings -> Nat \ {0}] /\ ChunkAttempts \in Nat \ {0}
      /\ MaxUrlRefreshes \in Nat \ {0} /\ None \notin Encodings
  BY StreamAssumption
<1>2. StreamTypeOK
  <2>1. delivered \in Seq([encoding: Encodings, offset: Nat])
    BY DEF Init
  <2>2. purpose \in Purpose /\ owner \in Owner
    BY DEF Init, Purpose, Owner
  <2>3. attempt \in 1..ChunkAttempts /\ refreshes \in 0..MaxUrlRefreshes
    BY <1>1 DEF Init
  <2>4. /\ position \in Nat /\ start \in Nat /\ start <= position /\ fruitless \in Nat
        /\ url \in Encodings \cup {None} /\ total \in Nat \cup {None}
    BY DEF Init
  <2>5. pc = "Resolving" /\ cancelled = FALSE /\ emptied = FALSE
    BY DEF Init
  <2>6. QED
    BY <2>1, <2>2, <2>3, <2>4, <2>5 DEF StreamTypeOK, Reading, Resuming
<1>3. PassedUpToHere /\ EndIsKnown /\ Custody
  BY DEF Init, PassedUpToHere, EndIsKnown, Custody
<1>4. CostsAreBounded
  BY <1>1 DEF Init, CostsAreBounded, PaidBefore
<1>5. QED
  BY <1>2, <1>3, <1>4 DEF IInv

(* A stream opened where the last one stopped knows nothing of its end and *)
(* has been paid for, if its refreshes were counted.                       *)
LEMMA OpenKeepsIInv ==
    ASSUME IInv, NEW encoding \in Encodings, NEW spent \in 0..MaxUrlRefreshes,
           Open(encoding, position, spent),
           fruitless <= spent * ChunkAttempts,
           UNCHANGED <<purpose, owner, cancelled, emptied, delivered, fruitless>>
    PROVE  IInv'
<1>1. Length \in [Encodings -> Nat \ {0}] /\ ChunkAttempts \in Nat \ {0}
      /\ None \notin Encodings
  BY StreamAssumption
<1>2. StreamTypeOK'
  BY <1>1 DEF IInv, StreamTypeOK, Open, Reading, Resuming
<1>3. PassedUpToHere' /\ Custody'
  BY DEF IInv, PassedUpToHere, Custody, Open
<1>4. EndIsKnown'
  BY <1>1 DEF IInv, EndIsKnown, Open
<1>5. CostsAreBounded'
  <2>1. spent * ChunkAttempts \in Nat /\ position \in Nat /\ fruitless \in Nat
    BY <1>1, Rounds DEF IInv, StreamTypeOK
  <2>2. /\ pc' = "Idle" /\ PaidBefore' = spent * ChunkAttempts
        /\ fruitless' = fruitless
    BY <2>1 DEF Open, PaidBefore
  <2>3. QED
    BY <1>1, <2>1, <2>2 DEF CostsAreBounded
<1>6. QED
  BY <1>2, <1>3, <1>4, <1>5 DEF IInv

(* Steps that leave the stream's contents and costs alone. *)
QuietStep ==
    /\ UNCHANGED <<purpose, request, opening, progress, fruitless>>
    /\ \/ pc' = pc
       \/ pc' \in {"GaveUp", "Dropped"}
       \/ pc' = "Broken" /\ pc = "Waiting"
       \/ pc' = "Refreshing" /\ pc = "Broken" /\ (Progressed \/ refreshes < MaxUrlRefreshes)
       \/ pc' = "Ended" /\ (cancelled \/ position >= Length[url])
    /\ pc = "Resolving" => pc' = "GaveUp" \/ (pc' = pc /\ owner' = owner)
    /\ pc \in Closed => pc' = pc
    /\ owner' \in Owner /\ cancelled' \in BOOLEAN
    /\ cancelled => cancelled'
    /\ owner' # "Nobody" => ~cancelled'

LEMMA QuietKeepsIInv ==
    ASSUME IInv, QuietStep
    PROVE  IInv'
<1>1. StreamTypeOK'
  BY DEF QuietStep, IInv, StreamTypeOK, request, opening, progress, Reading, Resuming, Closed, EndIsKnown
<1>2. PassedUpToHere' /\ Custody'
  BY DEF QuietStep, IInv, PassedUpToHere, Custody, progress
<1>3. EndIsKnown'
  BY DEF QuietStep, IInv, StreamTypeOK, EndIsKnown, request, progress, Closed
<1>4. CostsAreBounded'
  <2>1. PaidBefore' = PaidBefore /\ Progressed' = Progressed
    BY DEF QuietStep, PaidBefore, Progressed, progress, opening
  <2>2. QED
    BY <2>1 DEF QuietStep, IInv, CostsAreBounded, opening, request
<1>5. QED
  BY <1>1, <1>2, <1>3, <1>4 DEF IInv
(* Bytes that arrive pay for themselves. *)
LEMMA PassKeepsIInv ==
    ASSUME IInv, pc = "Waiting", NEW count \in Nat \ {0}, Pass(count),
           total' \in {None, Length[url]}, pc' \in {"Idle", "Spent"},
           pc' = "Spent" => position + count >= Length[url],
           UNCHANGED <<purpose, owner, url, attempt, opening, cancelled, emptied>>
    PROVE  IInv'
<1>1. url # None /\ url \in Encodings /\ Length[url] \in Nat /\ ChunkAttempts \in Nat
  BY StreamAssumption DEF IInv, StreamTypeOK, Reading
<1>2. /\ delivered' \in Seq([encoding: Encodings, offset: Nat])
      /\ position' = position + count /\ position' \in Nat
      /\ PassedUpToHere' /\ fruitless' = 0
  BY <1>1, PassKeepsUp DEF IInv
<1>3. StreamTypeOK'
  BY <1>1, <1>2 DEF IInv, StreamTypeOK, opening, Reading, Resuming
<1>4. EndIsKnown' /\ Custody'
  BY <1>1, <1>2 DEF IInv, EndIsKnown, Custody
<1>5. CostsAreBounded'
  <2>1. refreshes \in Nat /\ refreshes' = refreshes
    BY StreamAssumption DEF IInv, StreamTypeOK, opening
  <2>2. refreshes * ChunkAttempts \in Nat
    BY <1>1, <2>1, Rounds
  <2>3. PaidBefore' \in Nat
    BY <2>1, <2>2 DEF PaidBefore
  <2>4. PICK paid \in Nat : PaidBefore' = paid
    BY <2>3
  <2>5. QED
    BY <1>1, <1>2, <2>4 DEF CostsAreBounded
<1>6. QED
  BY <1>2, <1>3, <1>4, <1>5 DEF IInv

(* A request more, while the attempts at this chunk last. *)
LEMMA RequestKeepsIInv ==
    ASSUME IInv, pc' = "Waiting", fruitless' = fruitless + 1,
           attempt' \in 1..ChunkAttempts,
           \/ pc \in {"Idle", "Spent"} /\ attempt' = 1
           \/ pc = "Waiting" /\ attempt' = attempt + 1,
           UNCHANGED <<purpose, owner, url, total, opening, progress, cancelled>>
    PROVE  IInv'
<1>1. ChunkAttempts \in Nat \ {0} /\ refreshes \in Nat /\ fruitless \in Nat
  BY StreamAssumption DEF IInv, StreamTypeOK
<1>2. StreamTypeOK'
  BY <1>1 DEF IInv, StreamTypeOK, opening, progress, Reading, Resuming
<1>3. PassedUpToHere' /\ EndIsKnown' /\ Custody'
  BY DEF IInv, PassedUpToHere, Custody, EndIsKnown, progress
<1>4. CostsAreBounded'
  <2>1. PaidBefore' = PaidBefore /\ PaidBefore \in Nat
    BY <1>1, Rounds DEF PaidBefore, progress, opening
  <2>2. PICK paid \in Nat : PaidBefore = paid /\ PaidBefore' = paid
    BY <2>1
  <2>3. PICK tried \in 1..ChunkAttempts : attempt' = tried
    OBVIOUS
  <2>4. PICK spent \in Nat : fruitless = spent /\ fruitless' = spent + 1
    BY <1>1
  <2>5. spent + 1 <= paid + tried
    BY <1>1, <2>2, <2>3, <2>4 DEF IInv, StreamTypeOK, CostsAreBounded
  <2>6. spent + 1 <= paid + ChunkAttempts
    BY <1>1, <2>5
  <2>7. QED
    BY <2>2, <2>3, <2>4, <2>5, <2>6 DEF CostsAreBounded
<1>5. QED
  BY <1>2, <1>3, <1>4 DEF IInv

LEMMA ReplyKeepsIInv ==
    ASSUME IInv, Reply
    PROVE  IInv'
<1>1. /\ url # None /\ url \in Encodings /\ Length[url] \in Nat \ {0}
      /\ pc = "Waiting" /\ ~cancelled
      /\ position \in Nat /\ total \in Nat \cup {None}
      /\ owner # "Nobody" => ~cancelled
      /\ pc = "Resolving" =>
            /\ delivered = <<>>
            /\ owner = IF purpose = "Reach" THEN "User" ELSE "Preparing"
      /\ owner \in Owner /\ cancelled \in BOOLEAN
  BY StreamAssumption
     DEF IInv, StreamTypeOK, Reading, Reply, Served, ServedNothing, ServedWhole, Exhausted,
         Refused, Lost, Awaited
<1>2. CASE Served
  <2>1. PICK last \in {Smaller(RangeEnd, Length[url] - 1)}, stated \in {None, Length[url]} :
          \E count \in 1..last - position + 1 :
             Pass(count) /\ total' = IF stated = None THEN total ELSE stated
    BY <1>2 DEF Served
  <2>2. PICK count \in 1..last - position + 1 :
          Pass(count) /\ total' = IF stated = None THEN total ELSE stated
    BY <2>1
  <2>3. ChunkSpan \in Nat
    BY StreamAssumption
  <2>4. last \in Int
    BY <1>1, <2>3 DEF Smaller, RangeEnd
  <2>5. count \in Nat \ {0}
    BY <1>1, <2>4
  <2>6. total' \in {None, Length[url]}
    BY <1>1, <2>2 DEF IInv, EndIsKnown
  <2>7. QED
    BY <1>1, <1>2, <2>2, <2>5, <2>6, PassKeepsIInv DEF Served
<1>3. CASE ServedNothing
  <2>1. StreamTypeOK'
    BY <1>1, <1>3 DEF IInv, StreamTypeOK, ServedNothing, request, opening, Reading, Resuming, Closed
  <2>2. PassedUpToHere' /\ EndIsKnown' /\ Custody'
    BY <1>1, <1>3
       DEF IInv, PassedUpToHere, EndIsKnown, Custody, ServedNothing, request
  <2>3. CostsAreBounded'
    <3>1. PaidBefore' = PaidBefore
      BY <1>3 DEF ServedNothing, PaidBefore, opening
    <3>2. QED
      BY <1>3, <3>1 DEF IInv, CostsAreBounded, ServedNothing
  <2>4. QED
    BY <2>1, <2>2, <2>3 DEF IInv
<1>4. CASE ServedWhole
  <2>1. CASE position < Length[url]
    <3>1. Length[url] - position \in Nat \ {0}
      BY <1>1, <2>1
    <3>2. total' \in {None, Length[url]}
      BY <1>1, <1>4 DEF IInv, EndIsKnown, ServedWhole, request
    <3>3. pc' = "Spent" /\ Pass(Length[url] - position)
      BY <1>4, <2>1 DEF ServedWhole
    <3>4. QED
      BY <1>1, <1>4, <3>1, <3>2, <3>3, PassKeepsIInv DEF ServedWhole, request
  <2>2. CASE ~(position < Length[url])
    <3>1. QuietStep
      BY <1>1, <1>4, <2>2 DEF QuietStep, ServedWhole, Closed, progress
    <3>2. QED
      BY <3>1, QuietKeepsIInv
  <2>3. QED
    BY <2>1, <2>2
<1>5. CASE Exhausted
  <2>1. QuietStep
    BY <1>1, <1>5 DEF QuietStep, Exhausted, Closed
  <2>2. QED
    BY <2>1, QuietKeepsIInv
<1>6. CASE Refused
  <2>1. QuietStep
    BY <1>1, <1>6 DEF QuietStep, Refused, Closed
  <2>2. QED
    BY <2>1, QuietKeepsIInv
<1>7. CASE Lost
  <2>1. CASE attempt >= ChunkAttempts
    <3>1. QuietStep
      BY <1>1, <1>7, <2>1 DEF QuietStep, Lost, Closed, request
    <3>2. QED
      BY <3>1, QuietKeepsIInv
  <2>2. CASE ~(attempt >= ChunkAttempts)
    <3>1. attempt + 1 \in 1..ChunkAttempts
      BY <2>2, StreamAssumption DEF IInv, StreamTypeOK
    <3>2. QED
      BY <1>1, <1>7, <2>2, <3>1, RequestKeepsIInv DEF Lost
  <2>3. QED
    BY <2>1, <2>2
<1>8. QED
  BY <1>2, <1>3, <1>4, <1>5, <1>6, <1>7 DEF Reply
LEMMA ReadKeepsIInv ==
    ASSUME IInv, Read
    PROVE  IInv'
<1>1. /\ owner \in Owner /\ cancelled \in BOOLEAN
      /\ MaxUrlRefreshes \in Nat \ {0} /\ ChunkAttempts \in Nat \ {0}
      /\ refreshes \in 0..MaxUrlRefreshes /\ fruitless \in Nat
      /\ position \in Nat /\ start \in Nat
      /\ owner # "Nobody" => ~cancelled
      /\ pc = "Resolving" =>
            /\ delivered = <<>>
            /\ owner = IF purpose = "Reach" THEN "User" ELSE "Preparing"
  BY StreamAssumption DEF IInv, StreamTypeOK, Custody
<1>2. CASE Resolve
  <2>1. position = 0 /\ fruitless = 0
    BY <1>2 DEF IInv, EndIsKnown, Resolve
  <2>2. fruitless <= 0 * ChunkAttempts
    BY <1>1, <2>1
  <2>3. 0 \in 0..MaxUrlRefreshes
    BY <1>1
  <2>4. PICK encoding \in Encodings : Open(encoding, position, 0)
    BY <1>2, <2>1 DEF Resolve
  <2>5. QED
    BY <1>2, <2>2, <2>3, <2>4, OpenKeepsIInv DEF Resolve
<1>3. CASE CannotResolve
  <2>1. QuietStep
    BY <1>1, <1>3 DEF QuietStep, CannotResolve, Closed, Owner
  <2>2. QED
    BY <2>1, QuietKeepsIInv
<1>4. CASE Pull
  <2>1. CASE AllRead
    <3>1. url # None /\ position >= Length[url]
      BY <1>4, <2>1 DEF Pull, AllRead, IInv, StreamTypeOK, EndIsKnown, Reading
    <3>2. QED
      <4>1. QuietStep
        BY <1>1, <1>4, <2>1, <3>1 DEF QuietStep, Pull, Closed, request
      <4>2. QED
        BY <4>1, QuietKeepsIInv
  <2>2. CASE ~AllRead
    <3>1. 1 \in 1..ChunkAttempts
      BY <1>1
    <3>2. QED
      BY <1>4, <2>2, <3>1, RequestKeepsIInv DEF Pull
  <2>3. QED
    BY <2>1, <2>2
<1>5. CASE Reply
  BY <1>5, ReplyKeepsIInv
<1>6. CASE Resume
  <2>1. QuietStep
    BY <1>1, <1>6 DEF QuietStep, Resume, Closed
  <2>2. QED
    BY <2>1, QuietKeepsIInv
<1>7. CASE Refresh
  <2> DEFINE spent == IF Progressed THEN 1 ELSE refreshes + 1
  <2>1. PICK encoding \in Encodings : Open(encoding, position, spent)
    BY <1>7 DEF Refresh
  <2>2. /\ fruitless <= PaidBefore + ChunkAttempts
        /\ Progressed \/ refreshes < MaxUrlRefreshes
    BY <1>7 DEF IInv, CostsAreBounded, Refresh
  <2>3. spent \in 0..MaxUrlRefreshes /\ fruitless <= spent * ChunkAttempts
    <3>1. CASE Progressed
      <4>1. position > start
        BY <1>1, <3>1, StreamAssumption DEF Progressed
      <4>2. PaidBefore = 0 /\ spent = 1
        BY <3>1, <4>1 DEF PaidBefore
      <4>3. QED
        BY <1>1, <2>2, <4>2
    <3>2. CASE ~Progressed
      <4>1. /\ refreshes * ChunkAttempts \in Nat
            /\ (refreshes + 1) * ChunkAttempts = refreshes * ChunkAttempts + ChunkAttempts
        BY <1>1, Rounds
      <4>2. PaidBefore \in Nat /\ PaidBefore <= refreshes * ChunkAttempts
        BY <4>1 DEF PaidBefore
      <4>3. spent = refreshes + 1
        BY <3>2
      <4>4. fruitless <= (refreshes + 1) * ChunkAttempts
        BY <1>1, <2>2, <4>1, <4>2
      <4>5. QED
        BY <1>1, <2>2, <3>2, <4>3, <4>4
    <3>3. QED
      BY <3>1, <3>2
  <2> HIDE DEF spent
  <2>4. QED
    BY <1>7, <2>1, <2>3, OpenKeepsIInv DEF Refresh
<1>8. CASE CannotRefresh
  <2>1. QuietStep
    BY <1>1, <1>8 DEF QuietStep, CannotRefresh, Closed
  <2>2. QED
    BY <2>1, QuietKeepsIInv
<1>9. CASE CutOff
  <2>1. QuietStep
    BY <1>1, <1>9 DEF QuietStep, CutOff, Closed, Reading, Resuming
  <2>2. QED
    BY <2>1, QuietKeepsIInv
<1>10. QED
  BY <1>2, <1>3, <1>4, <1>5, <1>6, <1>7, <1>8, <1>9 DEF Read

LEMMA UseKeepsIInv ==
    ASSUME IInv, Use
    PROVE  IInv'
<1>1. /\ owner \in Owner /\ cancelled \in BOOLEAN
      /\ owner # "Nobody" => ~cancelled
      /\ pc = "Resolving" =>
            /\ delivered = <<>>
            /\ owner = IF purpose = "Reach" THEN "User" ELSE "Preparing"
  BY DEF IInv, StreamTypeOK, Custody
<1>2. CASE Prepared
  <2>1. QuietStep
    BY <1>1, <1>2 DEF QuietStep, Prepared, Owner
  <2>2. QED
    BY <2>1, QuietKeepsIInv
<1>3. CASE PreparationFails
  <2>1. QuietStep
    BY <1>1, <1>3 DEF QuietStep, PreparationFails, Closed, Owner
  <2>2. QED
    BY <2>1, QuietKeepsIInv
<1>4. CASE ProbeEnds
  <2>1. QuietStep
    BY <1>1, <1>4 DEF QuietStep, ProbeEnds, Owner
  <2>2. QED
    BY <2>1, QuietKeepsIInv
<1>5. CASE PlaybackEnds
  <2>1. QuietStep
    BY <1>1, <1>5 DEF QuietStep, PlaybackEnds, Drop, Closed, Owner
  <2>2. QED
    BY <2>1, QuietKeepsIInv
<1>6. CASE ReachEnds
  <2>1. QuietStep
    BY <1>1, <1>6 DEF QuietStep, ReachEnds, Drop, Closed, Owner
  <2>2. QED
    BY <2>1, QuietKeepsIInv
<1>7. QED
  BY <1>2, <1>3, <1>4, <1>5, <1>6 DEF Use
LEMMA NextKeepsIInv ==
    ASSUME IInv, [Next]_vars
    PROVE  IInv'
<1>1. CASE Read
  BY <1>1, ReadKeepsIInv
<1>2. CASE Use
  BY <1>2, UseKeepsIInv
<1>3. CASE UNCHANGED vars
  <2>1. QuietStep
    BY <1>3 DEF QuietStep, vars, IInv, StreamTypeOK, Custody
  <2>2. QED
    BY <2>1, QuietKeepsIInv
<1>4. QED
  BY <1>1, <1>2, <1>3 DEF Next, Finished

LEMMA InvariantHolds == Spec => []IInv
<1>1. Init => IInv
  BY InitIInv
<1>2. IInv /\ [Next]_vars => IInv'
  BY NextKeepsIInv
<1>3. QED
  BY <1>1, <1>2, PTL DEF Spec

-----------------------------------------------------------------------------
(* The reader's variables hold what the code's types and limits allow:     *)
(* never more fresh URLs in a row than MAX_URL_REFRESHES, never more       *)
(* attempts than CHUNK_ATTEMPTS.                                           *)
THEOREM StreamTypeCorrect == Spec => []StreamTypeOK
<1>1. IInv => StreamTypeOK
  BY DEF IInv
<1>2. QED
  BY <1>1, InvariantHolds, PTL

(* Whatever the lengths and spans, a track that playback holds and that    *)
(* ends cleanly was read to the end of what its last URL serves, unless an *)
(* answer without bytes ended it.                                          *)
THEOREM EndsWholeAlways == Spec => []EndsWhole
<1>1. IInv => EndsWhole
  <2>1. SUFFICES ASSUME IInv, purpose = "Play", owner = "User", pc = "Ended", ~emptied
                 PROVE  Len(delivered) >= Length[url]
    BY DEF EndsWhole
  <2>2. ~cancelled /\ url # None
    BY <2>1 DEF IInv, Custody, EndIsKnown
  <2>3. QED
    BY <2>1, <2>2 DEF IInv, EndIsKnown, PassedUpToHere
<1>2. QED
  BY <1>1, InvariantHolds, PTL

(* No byte costs more requests than the limits multiply to, whatever the   *)
(* origin does and however long the track is.                              *)
THEOREM RequestsBounded == Spec => []RequestsPerByteAreBounded
<1>1. IInv => RequestsPerByteAreBounded
  <2>1. SUFFICES ASSUME IInv
                 PROVE  fruitless <= (MaxUrlRefreshes + 1) * ChunkAttempts
    BY DEF RequestsPerByteAreBounded
  <2>2. /\ refreshes \in Nat /\ refreshes <= MaxUrlRefreshes /\ fruitless \in Nat
        /\ MaxUrlRefreshes \in Nat /\ ChunkAttempts \in Nat
    BY <2>1, StreamAssumption DEF IInv, StreamTypeOK
  <2>3. /\ refreshes * ChunkAttempts \in Nat
        /\ refreshes * ChunkAttempts <= MaxUrlRefreshes * ChunkAttempts
        /\ MaxUrlRefreshes * ChunkAttempts \in Nat
        /\ (MaxUrlRefreshes + 1) * ChunkAttempts = MaxUrlRefreshes * ChunkAttempts + ChunkAttempts
    BY <2>2, Rounds
  <2>4. PaidBefore \in Nat /\ PaidBefore <= refreshes * ChunkAttempts
    BY <2>2, <2>3 DEF PaidBefore
  <2>5. fruitless <= PaidBefore + ChunkAttempts
    BY <2>1 DEF IInv, CostsAreBounded
  <2>6. QED
    BY <2>2, <2>3, <2>4, <2>5
<1>2. QED
  BY <1>1, InvariantHolds, PTL
-----------------------------------------------------------------------------
(* Bytes that arrive are a step of the promised stream. *)
LEMMA PassDelivers ==
    ASSUME IInv, pc = "Waiting", pc' \in {"Idle", "Spent"}, NEW count \in Nat \ {0}, Pass(count)
    PROVE  Promise!Deliver
<1>1. url \in Encodings /\ url # None
  BY DEF IInv, StreamTypeOK, Reading
<1>2. /\ Len(delivered') = Len(delivered) + count
      /\ delivered' = delivered \o Promise!Run(url, Len(delivered), count)
  BY <1>1, PassKeepsUp DEF IInv
<1>3. Len(delivered) \in Nat
  BY DEF IInv, StreamTypeOK
<1>4. Len(delivered') - Len(delivered) = count
  BY <1>2, <1>3
<1>5. pc \notin Closed /\ pc' \notin Closed
  BY DEF Closed
<1>6. \E encoding \in Encodings, step \in {Len(delivered') - Len(delivered)} :
         step > 0 /\ delivered' = delivered \o Promise!Run(encoding, Len(delivered), step)
  BY <1>1, <1>2, <1>4
<1>7. ~(pc \in Closed) /\ (pc' \in Closed) = (pc \in Closed)
  BY <1>5
<1>8. QED
  BY <1>6, <1>7, Zenon DEF Promise!Deliver

(* Any other step closes the stream or leaves it as it is. *)
LEMMA OthersStutter ==
    ASSUME UNCHANGED delivered, pc \in Closed => pc' \in Closed
    PROVE  [Promise!Deliver \/ Promise!Close]_Promise!streamVars
<1>1. CASE pc \notin Closed /\ pc' \in Closed
  <2>1. Promise!Close
    BY <1>1 DEF Promise!Close
  <2>2. QED
    BY <2>1
<1>2. CASE (pc \in Closed) = (pc' \in Closed)
  BY <1>2 DEF Promise!streamVars
<1>3. QED
  BY <1>1, <1>2

LEMMA NextRefines ==
    ASSUME IInv, [Next]_vars
    PROVE  [Promise!Deliver \/ Promise!Close]_Promise!streamVars
<1>1. CASE Served
  <2>1. PICK last \in {Smaller(RangeEnd, Length[url] - 1)}, stated \in {None, Length[url]} :
          \E count \in 1..last - position + 1 :
             Pass(count) /\ total' = IF stated = None THEN total ELSE stated
    BY <1>1 DEF Served
  <2>2. PICK count \in 1..last - position + 1 : Pass(count)
    BY <2>1
  <2>3. /\ Length[url] \in Nat /\ ChunkSpan \in Nat /\ position \in Nat
        /\ total \in Nat \cup {None}
    BY <1>1, StreamAssumption DEF IInv, StreamTypeOK, Served, Awaited, Reading
  <2>4. last \in Int
    BY <2>3 DEF Smaller, RangeEnd
  <2>5. count \in Nat \ {0}
    BY <2>3, <2>4
  <2>6. Promise!Deliver
    BY <1>1, <2>2, <2>5, PassDelivers DEF Served, Awaited
  <2>7. QED
    BY <2>6
<1>2. CASE ServedWhole /\ position < Length[url]
  <2>1. Length[url] \in Nat /\ position \in Nat
    BY <1>2, StreamAssumption DEF IInv, StreamTypeOK, ServedWhole, Awaited, Reading
  <2>2. Length[url] - position \in Nat \ {0}
    BY <1>2, <2>1
  <2>3. Promise!Deliver
    BY <1>2, <2>2, PassDelivers DEF ServedWhole, Awaited
  <2>4. QED
    BY <2>3
<1>3. CASE ServedWhole /\ ~(position < Length[url])
  BY <1>3, OthersStutter DEF ServedWhole, Awaited, Closed
<1>4. CASE ServedNothing \/ Exhausted \/ Refused \/ Lost
  BY <1>4, OthersStutter
     DEF ServedNothing, Exhausted, Refused, Lost, Awaited, progress, Closed
<1>5. CASE Resolve \/ CannotResolve \/ Pull \/ Resume \/ Refresh \/ CannotRefresh \/ CutOff
  BY <1>5, OthersStutter
     DEF Resolve, CannotResolve, Pull, Resume, Refresh, CannotRefresh, CutOff, Open, progress,
         Reading, Resuming, Closed
<1>6. CASE Use
  BY <1>6, OthersStutter
     DEF Use, Prepared, PreparationFails, ProbeEnds, PlaybackEnds, ReachEnds, Drop, progress, Closed
<1>7. CASE UNCHANGED vars
  BY <1>7, OthersStutter DEF vars, progress
<1>8. QED
  BY <1>1, <1>2, <1>3, <1>4, <1>5, <1>6, <1>7 DEF Next, Read, Reply, Finished

(* The fetched, retried and resumed stream is the stream its decoder is    *)
(* promised: every byte in its place, none missing, none twice, and none   *)
(* after the end, for every origin and every number of refreshes.          *)
THEOREM ImplementsByteStream == Spec => StreamIsOrdered
<1>1. Init => Promise!StreamInit
  BY DEF Init, Promise!StreamInit, Closed
<1>2. IInv /\ [Next]_vars => [Promise!Deliver \/ Promise!Close]_Promise!streamVars
  BY NextRefines
<1>3. QED
  BY <1>1, <1>2, InvariantHolds, PTL DEF Spec, StreamIsOrdered, Promise!StreamSpec

=============================================================================
