---------------------------- MODULE ChunkedStream ----------------------------
(***************************************************************************)
(* The audio pipeline's reader of one track (src/src/audio.rs): a resolved *)
(* URL read by ranged requests, each drained before the next is sent; a    *)
(* request that is lost tried again on the same URL; an error that reaches *)
(* Songbird's adapter answered by a fresh URL from where the reading       *)
(* stopped; and the cancellation that ends all of it when a preparation is *)
(* superseded or times out.                                                *)
(*                                                                         *)
(* Bytes carry the encoding and the offset they come from.  A fresh URL    *)
(* may serve another encoding: resume_at compares the source's identity    *)
(* and nothing else.  The origin answers each request as it likes within   *)
(* HTTP, but it does not lie about lengths or offsets.                     *)
(***************************************************************************)
EXTENDS Integers, Sequences

CONSTANTS
    None,                     \* Option::None
    Encodings,                \* the renderings of the track that URLs serve
    Length,                   \* bytes in each of them
    ChunkSpan,                \* CHUNK_SPAN
    ChunkAttempts,            \* CHUNK_ATTEMPTS
    MaxUrlRefreshes,          \* MAX_URL_REFRESHES
    ProgressResetsRefreshes,  \* PROGRESS_RESETS_REFRESHES
    Wanted                    \* the bytes a diagnostic asks reach() for

ASSUME StreamAssumption ==
    /\ Length \in [Encodings -> Nat \ {0}]
    /\ ChunkSpan \in Nat \ {0}
    /\ ChunkAttempts \in Nat \ {0}
    /\ MaxUrlRefreshes \in Nat \ {0}
    /\ ProgressResetsRefreshes \in Nat \ {0}
    /\ Wanted \in Nat
    /\ None \notin Nat /\ None \notin Encodings

VARIABLES
    purpose,     \* prepare(), probe() or reach()
    owner,       \* who holds the input: its preparation, its user, nobody
    pc,          \* where the reading of the stream is
    url,         \* the encoding that the URL in hand serves
    position,    \* the next byte to ask for
    total,       \* the length the origin has stated, if it has
    attempt,     \* which attempt at this chunk the request in flight is
    start,       \* where the stream in hand was opened
    refreshes,   \* how many fresh URLs that took
    cancelled,   \* the preparation's cancellation token
    emptied,     \* an answer without bytes has ended the stream
    delivered,   \* what the stream has passed to the adapter
    fruitless    \* requests sent since it last passed anything

request == <<url, total, attempt>>
opening == <<start, refreshes>>
progress == <<position, delivered, emptied>>
vars == <<purpose, owner, pc, request, opening, progress, cancelled, fruitless>>

Purpose == {"Play", "Probe", "Reach"}
Owner == {"Preparing", "User", "Nobody"}
Reading == {"Idle", "Spent", "Waiting"}
Resuming == {"Broken", "Refreshing"}
Closed == {"Ended", "GaveUp", "Dropped"}

StreamTypeOK ==
    /\ purpose \in Purpose /\ owner \in Owner
    /\ pc \in {"Resolving"} \cup Reading \cup Resuming \cup Closed
    /\ url \in Encodings \cup {None}
    /\ position \in Nat /\ start \in Nat /\ start <= position
    /\ total \in Nat \cup {None}
    /\ attempt \in 1..ChunkAttempts
    /\ refreshes \in 0..MaxUrlRefreshes
    /\ cancelled \in BOOLEAN /\ emptied \in BOOLEAN
    /\ delivered \in Seq([encoding: Encodings, offset: Nat])
    /\ fruitless \in Nat
    /\ pc \in Reading \cup Resuming => url # None

(* The stream that the decoder is promised. *)
Promise == INSTANCE ByteStream WITH closed <- pc \in Closed

Smaller(m, n) == IF m <= n THEN m ELSE n

Init ==
    /\ purpose \in Purpose
    /\ owner = (IF purpose = "Reach" THEN "User" ELSE "Preparing")
    /\ pc = "Resolving"
    /\ url = None /\ total = None /\ attempt = 1
    /\ position = 0 /\ start = 0 /\ refreshes = 0
    /\ cancelled = FALSE /\ emptied = FALSE
    /\ delivered = <<>> /\ fruitless = 0

-----------------------------------------------------------------------------
(* open: a stream at `offset`, which knows no length yet. *)
Open(encoding, offset, spent) ==
    /\ pc' = "Idle"
    /\ url' = encoding /\ total' = None /\ attempt' = 1
    /\ position' = offset /\ start' = offset /\ refreshes' = spent

(* prepare_input and reach: the URL just before it is read. *)
Resolve ==
    /\ pc = "Resolving"
    /\ \E encoding \in Encodings : Open(encoding, 0, 0)
    /\ UNCHANGED <<purpose, owner, cancelled, emptied, delivered, fruitless>>

(* The source is gone, or names headers or a protocol that cannot be read. *)
CannotResolve ==
    /\ pc = "Resolving"
    /\ pc' = "GaveUp" /\ owner' = "Nobody"
    /\ cancelled' = (purpose # "Reach")
    /\ UNCHANGED <<purpose, request, opening, progress, fruitless>>

(* range_end: a known length keeps the last chunk inside the resource. *)
RangeEnd ==
    LET span == position + ChunkSpan - 1
    IN  IF total = None THEN span ELSE Smaller(span, total - 1)

AllRead == pc = "Spent" \/ (total # None /\ position >= total)

(* The adapter asks the stream for more, while its ring buffer has room. *)
Pull ==
    /\ pc \in {"Idle", "Spent"} /\ ~cancelled
    /\ purpose = "Reach" => position < Wanted
    /\ IF AllRead
       THEN pc' = "Ended" /\ UNCHANGED <<attempt, fruitless>>
       ELSE pc' = "Waiting" /\ attempt' = 1 /\ fruitless' = fruitless + 1
    /\ UNCHANGED <<purpose, owner, url, total, opening, progress, cancelled>>

Awaited == pc = "Waiting" /\ ~cancelled

(* Mutant: the next request starts after the range that was asked for. *)
PassAdvertised(count) ==
    /\ delivered' = delivered \o Promise!Run(url, position, count)
    /\ position' = RangeEnd + 1
    /\ fruitless' = 0

(* The bytes that arrived, and the position after them. *)
Pass(count) ==
    /\ delivered' = delivered \o Promise!Run(url, position, count)
    /\ position' = position + count
    /\ fruitless' = 0

(* Mutant: a response that states no length forgets the one that did, and  *)
(* ends the stream when it is short.                                       *)
ServedShort ==
    /\ Awaited
    /\ \E last \in {Smaller(RangeEnd, Length[url] - 1)},
          stated \in {None, Length[url]} :
          \E count \in 1..last - position + 1 :
             /\ Pass(count)
             /\ total' = stated
             /\ pc' = (IF count < ChunkSpan THEN "Spent" ELSE "Idle")
    /\ UNCHANGED <<purpose, owner, url, attempt, opening, cancelled, emptied>>

(* 206: some of the range, and the length if the origin states it. *)
Served ==
    /\ Awaited
    /\ \E last \in {Smaller(RangeEnd, Length[url] - 1)},
          stated \in {None, Length[url]} :
          \E count \in 1..last - position + 1 :
             /\ Pass(count)
             /\ total' = IF stated = None THEN total ELSE stated
    /\ pc' = "Idle"
    /\ UNCHANGED <<purpose, owner, url, attempt, opening, cancelled, emptied>>

(* 206 without a byte: the same request for ever, if it were not the end. *)
ServedNothing ==
    /\ Awaited
    /\ pc' = "Ended" /\ emptied' = TRUE
    /\ UNCHANGED <<purpose, owner, request, opening, position, delivered, cancelled, fruitless>>

(* 200: the whole resource, of which the part already played is cut off. *)
ServedWhole ==
    /\ Awaited
    /\ IF position < Length[url]
       THEN pc' = "Spent" /\ Pass(Length[url] - position)
       ELSE pc' = "Ended" /\ UNCHANGED <<position, delivered, fruitless>>
    /\ UNCHANGED <<purpose, owner, request, opening, emptied, cancelled>>

(* 416: past the end of the resource. *)
Exhausted ==
    /\ Awaited /\ position >= Length[url]
    /\ pc' = "Ended"
    /\ UNCHANGED <<purpose, owner, request, opening, progress, cancelled, fruitless>>

(* Any other status is the origin's answer, and is not asked for again. *)
Refused ==
    /\ Awaited
    /\ pc' = "Broken"
    /\ UNCHANGED <<purpose, owner, request, opening, progress, cancelled, fruitless>>

(* No answer, a body cut short, or the chunk's deadline: the same request  *)
(* once more, while this URL has attempts left.                            *)
Lost ==
    /\ Awaited
    /\ IF attempt >= ChunkAttempts
       THEN pc' = "Broken" /\ UNCHANGED <<attempt, fruitless>>
       ELSE attempt' = attempt + 1 /\ fruitless' = fruitless + 1 /\ UNCHANGED pc
    /\ UNCHANGED <<purpose, owner, url, total, opening, progress, cancelled>>

-----------------------------------------------------------------------------
Progressed == position - start >= ProgressResetsRefreshes

(* try_resume: the adapter hands a read error back; the diagnostic, which  *)
(* reads the stream itself, reports it.                                    *)
Resume ==
    /\ pc = "Broken" /\ ~cancelled
    /\ pc' = IF purpose = "Reach" \/ (~Progressed /\ refreshes >= MaxUrlRefreshes)
             THEN "GaveUp" ELSE "Refreshing"
    /\ UNCHANGED <<purpose, owner, request, opening, progress, cancelled, fruitless>>

(* Mutant: the resumed stream forgets what its URL cost. *)
RefreshForgetful ==
    /\ pc = "Refreshing" /\ ~cancelled
    /\ \E encoding \in Encodings : Open(encoding, position, 0)
    /\ UNCHANGED <<purpose, owner, cancelled, emptied, delivered, fruitless>>

(* resume_at: a fresh URL for the same source, read from where it stopped. *)
Refresh ==
    /\ pc = "Refreshing" /\ ~cancelled
    /\ \E encoding \in Encodings :
          Open(encoding, position, IF Progressed THEN 1 ELSE refreshes + 1)
    /\ UNCHANGED <<purpose, owner, cancelled, emptied, delivered, fruitless>>

(* The source cannot be resolved, or names another recording. *)
CannotRefresh ==
    /\ pc = "Refreshing" /\ ~cancelled
    /\ pc' = "GaveUp"
    /\ UNCHANGED <<purpose, owner, request, opening, progress, cancelled, fruitless>>

(* Mutant: only the stream of bytes hears the cancellation. *)
CutOffReading ==
    /\ cancelled
    /\ \/ pc \in Reading /\ pc' = "Ended"
       \/ pc \in Resuming /\ UNCHANGED pc
    /\ UNCHANGED <<purpose, owner, request, opening, progress, cancelled, fruitless>>

(* take_until and run_until_cancelled: a cancelled stream simply ends, and *)
(* a cancelled resumption fails.                                           *)
CutOff ==
    /\ cancelled
    /\ \/ pc \in Reading /\ pc' = "Ended"
       \/ pc \in Resuming /\ pc' = "GaveUp"
    /\ UNCHANGED <<purpose, owner, request, opening, progress, cancelled, fruitless>>

-----------------------------------------------------------------------------
(* The container parses: the input belongs to its user from here on, and   *)
(* the guard that would have cancelled it is disarmed.                     *)
Prepared ==
    /\ owner = "Preparing" /\ delivered # <<>>
    /\ owner' = "User"
    /\ UNCHANGED <<purpose, pc, request, opening, progress, cancelled, fruitless>>

(* The preparation times out, cannot parse what it reads, or is dropped    *)
(* for a newer one: its guard cancels every read it started.               *)
PreparationFails ==
    /\ owner = "Preparing"
    /\ owner' = "Nobody" /\ cancelled' = TRUE
    /\ pc' = IF pc = "Resolving" THEN "GaveUp" ELSE pc
    /\ UNCHANGED <<purpose, request, opening, progress, fruitless>>

(* decode_sample has its packets, meets an error, or runs out of time. *)
ProbeEnds ==
    /\ purpose = "Probe" /\ owner = "User"
    /\ owner' = "Nobody" /\ cancelled' = TRUE
    /\ UNCHANGED <<purpose, pc, request, opening, progress, fruitless>>

Drop ==
    /\ owner' = "Nobody"
    /\ pc' = IF pc \in Closed THEN pc ELSE "Dropped"
    /\ UNCHANGED <<purpose, request, opening, progress, cancelled, fruitless>>

(* Songbird drops a track it has played to its end, or was told to stop. *)
PlaybackEnds == purpose = "Play" /\ owner = "User" /\ Drop

(* reach: enough has arrived, or the stream has closed. *)
ReachEnds ==
    /\ purpose = "Reach" /\ owner = "User"
    /\ pc \in Closed \/ (pc \in {"Idle", "Spent"} /\ position >= Wanted)
    /\ Drop

Reply == Served \/ ServedNothing \/ ServedWhole \/ Exhausted \/ Refused \/ Lost
Read == Resolve \/ CannotResolve \/ Pull \/ Reply \/ Resume \/ Refresh \/ CannotRefresh \/ CutOff
Use == Prepared \/ PreparationFails \/ ProbeEnds \/ PlaybackEnds \/ ReachEnds

(* A stream that nobody holds and nobody reads is at rest. *)
Finished == owner = "Nobody" /\ pc \in Closed /\ UNCHANGED vars

Next == Read \/ Use \/ Finished

(* Every request is answered within CHUNK_TIMEOUT and every pause ends,    *)
(* and a cancelled stream is woken, or goes with the adapter it fills.     *)
(* Nothing bounds how long resolving mid-track takes, and the adapter      *)
(* pulls only while playback makes room.                                   *)
Fairness == WF_vars(Reply) /\ WF_vars(Resume) /\ WF_vars(CutOff)

Spec == Init /\ [][Next]_vars /\ Fairness

-----------------------------------------------------------------------------
(* The decoder gets the track's bytes in order, without a gap or a         *)
(* repetition, whatever the origin answers and however often the URL is    *)
(* refreshed, and nothing after the end (ByteStream).                      *)
StreamIsOrdered == Promise!StreamSpec

(* A track that ends cleanly while playback holds it has been played to    *)
(* the end of what its last URL serves: neither a short body nor a resumed *)
(* stream nor a cancellation reads as the end of the track.  Only an       *)
(* answer without bytes does.                                              *)
EndsWhole ==
    purpose = "Play" /\ owner = "User" /\ pc = "Ended" /\ ~emptied
        => Len(delivered) >= Length[url]

(* However the origin fails, no byte costs more requests than every        *)
(* attempt on the first URL and on each fresh one.                         *)
RequestsPerByteAreBounded == fruitless <= (MaxUrlRefreshes + 1) * ChunkAttempts

(* A preparation that is given up leaves no reading behind, even one that  *)
(* is waiting for a resolver that never answers.                           *)
AbandonedReadsEnd == cancelled ~> pc \in Closed

=============================================================================
