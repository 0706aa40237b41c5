---------------------------- MODULE FramingProofs ----------------------------
(***************************************************************************)
(* Framing for streams of any number of frames of any length, cut into chunks *)
(* in any way.                                                                *)
(***************************************************************************)
EXTENDS Framing, WireLemmas, FiniteSetTheorems

\* What parse_message has checked of a frame it yields.
Passed(frame) ==
  /\ HeaderOk(frame) /\ ~TooShortForTrailer(frame) /\ ~ChecksumMismatch(frame)
  /\ ParsedBody(frame)

\* The frame the loop has to deal with next.
Upcoming == Len(dispatched) + 1

\* The connection fails for a reason: the next frame is not acceptable, or the stream
\* ended inside it.
FailureHasCause ==
  pc = "failed" =>
    /\ Upcoming \in DOMAIN stream
    /\ \/ ~Acceptable(stream[Upcoming])
       \/ eof /\ Start(Upcoming) < read /\ read < End(Upcoming)

\* The strengthening: the buffer begins with the frame that comes next; the one in
\* between has been checked.
FrameInv ==
  /\ stream \in Streams /\ read \in Nat /\ read <= StreamLen
  /\ Len(dispatched) \in Nat /\ dispatched \in Seq({dispatched[i] : i \in DOMAIN dispatched})
  /\ ChunkingInvisible
  /\ pc \in {"decode", "fill", "item", "failed", "ended"}
  /\ pc \in {"decode", "fill", "ended"} => consumed = Start(Upcoming) /\ consumed <= read
  /\ pc = "item" =>
       /\ Upcoming \in DOMAIN stream /\ item = stream[Upcoming] /\ Passed(item)
       /\ consumed = Start(Upcoming + 1) /\ consumed <= read
  /\ pc = "ended" => read = consumed
  /\ FailureHasCause

-----------------------------------------------------------------------------
(* The frames of a stream *)

\* What a frame occupies.
LEMMA OccupiesFacts ==
  ASSUME stream \in Streams, NEW k \in DOMAIN stream
  PROVE  /\ Occupies(stream[k]) \in Nat /\ Occupies(stream[k]) >= MSG_HEADER_LEN
         /\ HeaderOk(stream[k]) => Occupies(stream[k]) = stream[k].length
<1> DEFINE n == stream[k].length
<1>1. n \in Int
  BY StreamsAssumption
<1>2. HeaderOk(stream[k]) => n >= 16
  BY DEF HeaderOk, MSG_HEADER_LEN
<1>3. Occupies(stream[k]) = IF HeaderOk(stream[k]) THEN n ELSE 16
  BY DEF Occupies, MSG_HEADER_LEN
<1> HIDE DEF n
<1>4. Occupies(stream[k]) \in Nat /\ Occupies(stream[k]) >= 16
  BY <1>1, <1>2, <1>3
<1> QED BY <1>3, <1>4 DEF n, MSG_HEADER_LEN

\* Frames begin one behind the other.
LEMMA StartFacts ==
  ASSUME stream \in Streams
  PROVE  /\ Len(stream) \in Nat /\ DOMAIN stream = 1..Len(stream)
         /\ Start(1) = 0
         /\ \A k \in 1..(Len(stream) + 1) : Start(k) \in Nat /\ Start(k) <= StreamLen
         /\ \A k \in DOMAIN stream : Start(k + 1) = Start(k) + Occupies(stream[k])
         /\ \A j, k \in 1..(Len(stream) + 1) : j < k => Start(j) < Start(k)
<1> DEFINE s == [i \in DOMAIN stream |-> Occupies(stream[i])]
           n == Len(stream)
<1>1. n \in Nat /\ DOMAIN stream = 1..n
  BY StreamsAssumption
<1>2. \A k : Start(k) = TotalOf(s, k - 1)
  BY DEF Start
<1>3. \A k \in 1..n : s[k] = Occupies(stream[k]) /\ s[k] \in Nat /\ s[k] >= 16
  BY <1>1, OccupiesFacts DEF MSG_HEADER_LEN
<1> HIDE DEF s, n
<1>4. Start(1) = 0
  BY <1>2, TotalOfStep
<1>5. \A k \in 0..n : TotalOf(s, k) \in Nat /\ TotalOf(s, k) <= TotalOf(s, n)
  BY <1>1, <1>3, TotalOfNat
<1>6. \A k \in 1..(n + 1) : Start(k) \in Nat /\ Start(k) <= StreamLen
  BY <1>1, <1>2, <1>5 DEF StreamLen, n
<1>7. \A k \in 1..n : TotalOf(s, k) = TotalOf(s, k - 1) + s[k]
  <2> TAKE k \in 1..n
  <2>1. k - 1 \in Nat /\ (k - 1) + 1 = k
    BY <1>1
  <2> QED BY <2>1, TotalOfStep
<1>8. \A k \in 1..n : Start(k + 1) = Start(k) + Occupies(stream[k])
  BY <1>1, <1>2, <1>3, <1>7
<1>9. ASSUME NEW j \in 1..(n + 1), NEW k \in 1..(n + 1), j < k
      PROVE  Start(j) < Start(k)
  <2>1. j - 1 \in 0..n /\ k - 1 \in 0..n /\ j - 1 < k - 1
    BY <1>1, <1>9
  <2>2. \A i \in 1..n : s[i] \in Nat /\ s[i] > 0
    BY <1>3
  <2> QED BY <1>1, <1>2, <2>1, <2>2, TotalOfGrows, Zenon
<1> QED BY <1>1, <1>4, <1>6, <1>8, <1>9 DEF n

\* What the buffer begins with, between two frames.
LEMMA CurrentFacts ==
  ASSUME stream \in Streams, NEW k \in 1..(Len(stream) + 1), consumed = Start(k)
  PROVE  /\ k \in DOMAIN stream => Current = stream[k]
         /\ k \notin DOMAIN stream => Current = Garbage /\ consumed = StreamLen
<1> DEFINE here == {j \in DOMAIN stream : Start(j) = consumed}
<1>1. \A j \in DOMAIN stream : Start(j) = consumed => j = k
  <2> SUFFICES ASSUME NEW j \in DOMAIN stream, Start(j) = consumed, j # k
               PROVE  FALSE
    OBVIOUS
  <2>1. j \in 1..(Len(stream) + 1) /\ (j < k \/ k < j) /\ Len(stream) \in Nat
    BY StartFacts
  <2>2. Start(j) \in Nat /\ Start(k) \in Nat /\ (Start(j) < Start(k) \/ Start(k) < Start(j))
    BY <2>1, StartFacts
  <2> QED BY <2>2
<1>2. CASE k \in DOMAIN stream
  <2>1. here = {k}
    BY <1>1, <1>2
  <2>2. Current = stream[CHOOSE j \in {k} : TRUE]
    BY <2>1 DEF Current
  <2> QED BY <1>2, <2>2
<1>3. CASE k \notin DOMAIN stream
  <2>1. here = {}
    BY <1>1, <1>3
  <2>2. k = Len(stream) + 1
    BY <1>3, StartFacts
  <2> QED BY <1>3, <2>1, <2>2 DEF Current, StreamLen
<1> QED BY <1>2, <1>3

\* Nothing but the bytes read distinguishes two states with the same stream.
LEMMA StartsKept ==
  ASSUME UNCHANGED stream
  PROVE  /\ \A k : Start(k)' = Start(k) /\ End(k)' = End(k)
         /\ StreamLen' = StreamLen
  BY DEF Start, End, StreamLen
-----------------------------------------------------------------------------
(* The invariant *)

\* The dispatched frames come from the front of the stream.
LEMMA UpcomingFacts ==
  ASSUME FrameInv
  PROVE  /\ Len(dispatched) \in Nat /\ Upcoming \in 1..(Len(stream) + 1)
         /\ stream \in Streams /\ Len(stream) \in Nat /\ DOMAIN stream = 1..Len(stream)
  BY StartFacts DEF FrameInv, ChunkingInvisible, Upcoming

\* Nothing has been read.
LEMMA InitFrame == Init => FrameInv
<1> SUFFICES ASSUME Init PROVE FrameInv
  OBVIOUS
<1>1. stream \in Streams /\ read = 0 /\ consumed = 0 /\ pc = "decode" /\ dispatched = << >>
  BY DEF Init
<1>2. Len(stream) \in Nat /\ Start(1) = 0 /\ StreamLen \in Nat
  BY <1>1, StartFacts DEF StreamLen
<1>3. Len(dispatched) = 0 /\ DOMAIN dispatched = {} /\ Upcoming = 1
  BY <1>1 DEF Upcoming
<1>4. ChunkingInvisible
  BY <1>2, <1>3 DEF ChunkingInvisible
<1>5. dispatched \in Seq({dispatched[i] : i \in DOMAIN dispatched})
  BY <1>1
<1> QED BY <1>1, <1>2, <1>3, <1>4, <1>5 DEF FrameInv, FailureHasCause

\* A step that leaves the stream and the history alone leaves what they say alone.
LEMMA HistoryKept ==
  ASSUME FrameInv, UNCHANGED <<stream, dispatched>>
  PROVE  /\ stream' \in Streams /\ Len(dispatched)' \in Nat
         /\ dispatched' \in Seq({dispatched[i] : i \in DOMAIN dispatched})'
         /\ ChunkingInvisible' /\ Upcoming' = Upcoming
         /\ (DOMAIN stream)' = DOMAIN stream /\ stream' = stream
<1>1. stream' = stream /\ dispatched' = dispatched
  OBVIOUS
<1>2. ChunkingInvisible' <=> ChunkingInvisible
  BY <1>1 DEF ChunkingInvisible, Acceptable, Body, HeaderOk, TooShortForTrailer,
              ChecksumMismatch, ParsedBody, BodyParses, UnwrapFails, DecompressFails
<1> QED BY <1>1, <1>2 DEF FrameInv, Upcoming

\* Acceptable, at another time.
LEMMA AcceptableKept ==
  ASSUME UNCHANGED stream
  PROVE  \A k : Acceptable(stream[k])' <=> Acceptable(stream[k])
  BY DEF Acceptable, HeaderOk, TooShortForTrailer, ChecksumMismatch, ParsedBody, BodyParses,
         UnwrapFails, DecompressFails

\* A buffer parse_message can judge begins with the next frame.
LEMMA NextFrame ==
  ASSUME FrameInv, pc = "decode", ~Incomplete
  PROVE  /\ Upcoming \in DOMAIN stream /\ Current = stream[Upcoming]
         /\ consumed = Start(Upcoming) /\ read \in Nat /\ read <= StreamLen
<1>1. consumed = Start(Upcoming) /\ read \in Nat /\ read <= StreamLen
  BY DEF FrameInv
<1>2. Upcoming \in DOMAIN stream
  <2> SUFFICES ASSUME Upcoming \notin DOMAIN stream PROVE FALSE
    OBVIOUS
  <2>1. consumed = StreamLen
    BY <1>1, UpcomingFacts, CurrentFacts
  <2>2. StreamLen \in Nat
    BY UpcomingFacts, StartFacts DEF StreamLen
  <2> QED BY <1>1, <2>1, <2>2 DEF Incomplete, Buffered, MSG_HEADER_LEN
<1>3. Current = stream[Upcoming]
  BY <1>1, <1>2, UpcomingFacts, CurrentFacts
<1> QED BY <1>1, <1>2, <1>3

\* A failure with a frame that is not acceptable.
LEMMA FailsFrame ==
  ASSUME FrameInv, UNCHANGED <<stream, read, dispatched>>, pc' = "failed",
         Upcoming \in DOMAIN stream, ~Acceptable(stream[Upcoming])
  PROVE  FrameInv'
<1>1. ~Acceptable(stream[Upcoming])'
  <2>1. stream'[Upcoming'] = stream[Upcoming]
    BY HistoryKept
  <2> QED BY <2>1 DEF Acceptable, HeaderOk, TooShortForTrailer, ChecksumMismatch, ParsedBody,
                      BodyParses, UnwrapFails, DecompressFails
<1>2. FailureHasCause'
  BY <1>1, HistoryKept DEF FailureHasCause
<1>3. read' = read /\ read \in Nat /\ read <= StreamLen /\ StreamLen' = StreamLen
  BY StartsKept DEF FrameInv
<1> QED BY <1>2, <1>3, HistoryKept DEF FrameInv

\* parse_message fails on the next frame.
LEMMA ParseFailsFrame == FrameInv /\ ParseFails => FrameInv'
<1> SUFFICES ASSUME FrameInv, ParseFails PROVE FrameInv'
  OBVIOUS
<1>1. /\ pc = "decode" /\ ~Incomplete /\ pc' = "failed"
      /\ UNCHANGED <<stream, read, consumed, eof, item, dispatched>>
      /\ ~HeaderOk(Current) \/ TooShortForTrailer(Current) \/ ChecksumMismatch(Current)
  BY DEF ParseFails
<1>2. Upcoming \in DOMAIN stream /\ ~Acceptable(stream[Upcoming])
  BY <1>1, NextFrame DEF Acceptable
<1> QED BY <1>1, <1>2, FailsFrame

\* parse_message splits the next frame off the buffer, and its body parses or not.
LEMMA ParseMessageFrame == FrameInv /\ ParseMessage => FrameInv'
<1> SUFFICES ASSUME FrameInv, ParseMessage PROVE FrameInv'
  OBVIOUS
<1>1. /\ pc = "decode" /\ ~Incomplete
      /\ HeaderOk(Current) /\ ~TooShortForTrailer(Current) /\ ~ChecksumMismatch(Current)
      /\ consumed' = consumed + Current.length
      /\ UNCHANGED <<stream, read, eof, dispatched>>
  BY DEF ParseMessage, Consume
<1>2. /\ Upcoming \in DOMAIN stream /\ Current = stream[Upcoming]
      /\ consumed = Start(Upcoming) /\ read \in Nat /\ read <= StreamLen
  BY <1>1, NextFrame
<1>3. CASE ~ParsedBody(Current)
  <2>1. pc' = "failed"
    BY <1>3 DEF ParseMessage
  <2>2. ~Acceptable(stream[Upcoming])
    BY <1>2, <1>3 DEF Acceptable
  <2> QED BY <1>1, <1>2, <2>1, <2>2, FailsFrame
<1>4. CASE ParsedBody(Current)
  <2>1. pc' = "item" /\ item' = Current
    BY <1>4 DEF ParseMessage
  <2>2. Passed(Current)
    BY <1>1, <1>4 DEF Passed
  <2>3. Passed(item)'
    BY <2>1, <2>2 DEF Passed, HeaderOk, TooShortForTrailer, ChecksumMismatch, ParsedBody, BodyParses
  <2>4. Start(Upcoming + 1) = consumed + Current.length
    BY <1>1, <1>2, UpcomingFacts, StartFacts, OccupiesFacts
  <2>5. consumed + Current.length <= read
    <3>1. Current.length \in Int /\ consumed \in Nat
      BY <1>2, UpcomingFacts, StartFacts, StreamsAssumption
    <3>2. ~(read - consumed < Current.length)
      BY <1>1 DEF Incomplete, Buffered
    <3> QED BY <3>1, <3>2, <1>2
  <2>6. Upcoming' = Upcoming /\ Start(Upcoming + 1)' = Start(Upcoming + 1) /\ StreamLen' = StreamLen
    BY <1>1, HistoryKept, StartsKept
  <2>7. FailureHasCause'
    BY <2>1 DEF FailureHasCause
  <2>8. consumed' = Start(Upcoming + 1)' /\ consumed' <= read'
    BY <1>1, <2>4, <2>5, <2>6, StartsKept
  <2> QED BY <1>1, <1>2, <2>1, <2>3, <2>6, <2>7, <2>8, HistoryKept DEF FrameInv
<1> QED BY <1>3, <1>4

\* Framed waits for more bytes, or meets the end of the stream.
LEMMA NeedMoreFrame == FrameInv /\ NeedMore => FrameInv'
<1> SUFFICES ASSUME FrameInv, NeedMore PROVE FrameInv'
  OBVIOUS
<1>1. /\ pc = "decode" /\ Incomplete
      /\ pc' = IF ~eof THEN "fill" ELSE IF Buffered = 0 THEN "ended" ELSE "failed"
      /\ UNCHANGED <<stream, read, consumed, eof, item, dispatched>>
  BY DEF NeedMore
<1>2. consumed = Start(Upcoming) /\ consumed <= read /\ read \in Nat /\ read <= StreamLen
  BY <1>1 DEF FrameInv
<1>3. consumed \in Nat /\ StreamLen \in Nat
  BY <1>2, UpcomingFacts, StartFacts DEF StreamLen
<1>4. /\ Upcoming' = Upcoming /\ Start(Upcoming)' = Start(Upcoming) /\ End(Upcoming)' = End(Upcoming)
      /\ StreamLen' = StreamLen /\ stream' = stream
  BY <1>1, HistoryKept, StartsKept
<1>5. pc' = "failed" => eof /\ read > consumed
  BY <1>1, <1>2, <1>3 DEF Buffered
<1>6. ASSUME read > consumed
      PROVE  Upcoming \in DOMAIN stream /\ read < End(Upcoming)
  <2>1. Upcoming \in DOMAIN stream
    BY <1>2, <1>3, <1>6, UpcomingFacts, CurrentFacts
  <2>2. Current = stream[Upcoming]
    BY <1>2, <2>1, UpcomingFacts, CurrentFacts
  <2>3. /\ Occupies(stream[Upcoming]) \in Nat /\ Occupies(stream[Upcoming]) >= 16
        /\ HeaderOk(stream[Upcoming]) => Occupies(stream[Upcoming]) = stream[Upcoming].length
    BY <2>1, UpcomingFacts, OccupiesFacts DEF MSG_HEADER_LEN
  <2>4. read - consumed < Occupies(stream[Upcoming])
    BY <1>1, <1>2, <1>3, <2>2, <2>3 DEF Incomplete, Buffered, MSG_HEADER_LEN
  <2> QED BY <1>2, <1>3, <2>1, <2>3, <2>4 DEF End
<1>7. FailureHasCause'
  BY <1>1, <1>2, <1>4, <1>5, <1>6 DEF FailureHasCause
<1>8. pc' = "ended" => read = consumed
  BY <1>1, <1>2, <1>3 DEF Buffered
<1>9. pc' \in {"fill", "ended", "failed"}
  BY <1>1
<1>10. consumed' = Start(Upcoming)' /\ consumed' <= read'
  BY <1>1, <1>2, <1>4
<1> QED BY <1>1, <1>2, <1>4, <1>7, <1>8, <1>9, <1>10, HistoryKept DEF FrameInv

\* The socket yields bytes of the stream.
LEMMA FillFrame == ASSUME FrameInv, NEW n \in Nat, Fill(n) PROVE FrameInv'
<1>1. /\ pc = "fill" /\ n <= StreamLen - read /\ read' = read + n /\ pc' = "decode"
      /\ UNCHANGED <<stream, consumed, eof, item, dispatched>>
  BY DEF Fill
<1>2. consumed = Start(Upcoming) /\ consumed <= read /\ read \in Nat
  BY <1>1 DEF FrameInv
<1>3. StreamLen \in Nat /\ consumed \in Nat
  BY <1>2, UpcomingFacts, StartFacts DEF StreamLen
<1>4. /\ Upcoming' = Upcoming /\ Start(Upcoming)' = Start(Upcoming)
      /\ StreamLen' = StreamLen /\ stream' = stream
  BY <1>1, HistoryKept, StartsKept
<1>5. read' \in Nat /\ read' <= StreamLen' /\ consumed' <= read' /\ consumed' = Start(Upcoming)'
  BY <1>1, <1>2, <1>3, <1>4
<1>6. FailureHasCause'
  BY <1>1 DEF FailureHasCause
<1> QED BY <1>1, <1>4, <1>5, <1>6, HistoryKept DEF FrameInv

\* The socket reports its end.
LEMMA PeerClosesFrame == FrameInv /\ PeerCloses => FrameInv'
<1> SUFFICES ASSUME FrameInv, PeerCloses PROVE FrameInv'
  OBVIOUS
<1>1. pc = "fill" /\ pc' = "decode" /\ UNCHANGED <<stream, read, consumed, item, dispatched>>
  BY DEF PeerCloses
<1>2. /\ consumed = Start(Upcoming) /\ consumed <= read /\ read \in Nat /\ read <= StreamLen
      /\ Upcoming' = Upcoming /\ Start(Upcoming)' = Start(Upcoming) /\ StreamLen' = StreamLen
  BY <1>1, HistoryKept, StartsKept DEF FrameInv
<1>3. FailureHasCause'
  BY <1>1 DEF FailureHasCause
<1> QED BY <1>1, <1>2, <1>3, HistoryKept DEF FrameInv

\* The loop hands a frame's body to its match.
LEMMA DispatchFrame == FrameInv /\ Dispatch => FrameInv'
<1> SUFFICES ASSUME FrameInv, Dispatch PROVE FrameInv'
  OBVIOUS
<1> DEFINE d == Len(dispatched)
           S == {dispatched[i] : i \in DOMAIN dispatched} \cup {Body(item)}
<1>1. /\ pc = "item" /\ ~(item.op = "Compressed" /\ UnwrapFails(item.inner))
      /\ dispatched' = Append(dispatched, Body(item)) /\ pc' = "decode"
      /\ UNCHANGED <<stream, read, consumed, eof, item>>
  BY DEF Dispatch
<1>2. /\ Upcoming \in DOMAIN stream /\ item = stream[Upcoming] /\ Passed(item)
      /\ consumed = Start(Upcoming + 1) /\ consumed <= read /\ read \in Nat /\ read <= StreamLen
  BY <1>1 DEF FrameInv
<1>3. d \in Nat /\ Upcoming = d + 1
  BY UpcomingFacts DEF Upcoming
<1>4. /\ dispatched' \in Seq(S) /\ Len(dispatched') = d + 1
      /\ DOMAIN dispatched = 1..d /\ DOMAIN dispatched' = 1..(d + 1)
      /\ dispatched'[d + 1] = Body(item)
      /\ \A i \in 1..d : dispatched'[i] = dispatched[i]
  <2>1. dispatched \in Seq(S) /\ Body(item) \in S
    BY DEF FrameInv
  <2> HIDE DEF S
  <2> QED BY <1>1, <2>1
<1> HIDE DEF S, d
<1>5. Upcoming' = d + 2
  BY <1>3, <1>4 DEF Upcoming
<1>6. Acceptable(stream[d + 1]) /\ Body(stream[d + 1]).op # "Compressed"
  <2>1. Acceptable(item)
    BY <1>1, <1>2 DEF Acceptable, Passed
  <2>2. Body(item).op # "Compressed"
    <3>1. CASE item.op = "Compressed"
      <4>1. Body(item).op = item.inner.op
        BY <3>1 DEF Body
      <4>2. item.inner.op # "Compressed"
        BY <1>1, <3>1 DEF UnwrapFails
      <4> QED BY <4>1, <4>2
    <3>2. CASE item.op # "Compressed"
      BY <3>2 DEF Body
    <3> QED BY <3>1, <3>2
  <2> QED BY <1>2, <1>3, <2>1, <2>2
<1>7. ChunkingInvisible'
  <2>1. ChunkingInvisible /\ d + 1 <= Len(stream)
    BY <1>2, <1>3, UpcomingFacts DEF FrameInv
  <2>2. \A k \in 1..(d + 1) :
          /\ Acceptable(stream[k]) /\ dispatched'[k] = Body(stream[k])
          /\ dispatched'[k].op # "Compressed"
    <3> TAKE k \in 1..(d + 1)
    <3>1. CASE k \in 1..d
      BY <2>1, <3>1, <1>4 DEF ChunkingInvisible
    <3>2. CASE k = d + 1
      BY <3>2, <1>2, <1>3, <1>4, <1>6
    <3> QED BY <1>3, <3>1, <3>2
  <2>3. \A k : Body(stream[k])' = Body(stream[k])
    BY <1>1 DEF Body
  <2> QED BY <1>1, <1>4, <2>1, <2>2, <2>3, AcceptableKept DEF ChunkingInvisible
<1>8. consumed' = Start(Upcoming)' /\ consumed' <= read' /\ StreamLen' = StreamLen
  BY <1>1, <1>2, <1>3, <1>5, StartsKept
<1>9. FailureHasCause'
  BY <1>1 DEF FailureHasCause
<1>10. dispatched' \in Seq({dispatched[i] : i \in DOMAIN dispatched})'
  BY <1>4
<1>11. stream' \in Streams /\ read' \in Nat /\ read' <= StreamLen' /\ Len(dispatched') \in Nat
  BY <1>1, <1>2, <1>3, <1>4, <1>8, UpcomingFacts
<1> QED BY <1>1, <1>7, <1>8, <1>9, <1>10, <1>11, Zenon DEF FrameInv

\* unwrap_body refuses the frame.
LEMMA RejectCompressedFrame == FrameInv /\ RejectCompressed => FrameInv'
<1> SUFFICES ASSUME FrameInv, RejectCompressed PROVE FrameInv'
  OBVIOUS
<1>1. /\ pc = "item" /\ item.op = "Compressed" /\ UnwrapFails(item.inner) /\ pc' = "failed"
      /\ UNCHANGED <<stream, read, consumed, eof, item, dispatched>>
  BY DEF RejectCompressed
<1>2. Upcoming \in DOMAIN stream /\ ~Acceptable(stream[Upcoming])
  BY <1>1 DEF FrameInv, Acceptable
<1> QED BY <1>1, <1>2, FailsFrame

\* Every step.
LEMMA StepFrame == FrameInv /\ [Next]_vars => FrameInv'
<1> SUFFICES ASSUME FrameInv, [Next]_vars PROVE FrameInv'
  OBVIOUS
<1>1. CASE Server
  BY <1>1, ParseFailsFrame, ParseMessageFrame, NeedMoreFrame, DispatchFrame, RejectCompressedFrame
     DEF Server
<1>2. ASSUME NEW n \in 1..StreamLen, Fill(n) PROVE FrameInv'
  BY <1>2, FillFrame
<1>3. CASE PeerCloses
  BY <1>3, PeerClosesFrame
<1>4. CASE UNCHANGED vars
  <2>1. UNCHANGED <<stream, read, consumed, eof, pc, item, dispatched>>
    BY <1>4 DEF vars
  <2>2. FailureHasCause'
    BY <2>1, HistoryKept, StartsKept, AcceptableKept DEF FailureHasCause, FrameInv
  <2>3. Passed(item)' <=> Passed(item)
    BY <2>1 DEF Passed, HeaderOk, TooShortForTrailer, ChecksumMismatch, ParsedBody, BodyParses
  <2> QED BY <2>1, <2>2, <2>3, HistoryKept, StartsKept DEF FrameInv
<1> QED BY <1>1, <1>2, <1>3, <1>4 DEF Next

\* FrameInv holds in every state.
LEMMA FrameInvariance == Spec => []FrameInv
  BY InitFrame, StepFrame, PTL DEF Spec

-----------------------------------------------------------------------------
(* Results *)

\* Framing loses, repeats and invents nothing, whatever the chunks: the loop of
\* process_socket (mod.rs) sees the bodies of the first frames, in order.
THEOREM Chunking == Spec => []ChunkingInvisible
<1>1. FrameInv => ChunkingInvisible
  BY DEF FrameInv
<1> QED BY <1>1, FrameInvariance, PTL

\* decode_eof ends the stream without an error only where every frame of which a byte
\* arrived has been dispatched.
THEOREM CleanEnd == Spec => []CleanEndAtBoundary
<1>1. FrameInv => CleanEndAtBoundary
  <2> SUFFICES ASSUME FrameInv, pc = "ended"
               PROVE  Len(dispatched) = Cardinality({k \in DOMAIN stream : Start(k) < read})
    BY DEF CleanEndAtBoundary
  <2> DEFINE d == Len(dispatched)
  <2>1. read = Start(d + 1) /\ d \in Nat /\ d + 1 \in 1..(Len(stream) + 1) /\ Len(stream) \in Nat
    BY UpcomingFacts DEF FrameInv, Upcoming
  <2>2. DOMAIN stream = 1..Len(stream)
    BY UpcomingFacts
  <2>3. ASSUME NEW k \in 1..Len(stream)
        PROVE  Start(k) < Start(d + 1) <=> k <= d
    <3>1. k \in 1..(Len(stream) + 1) /\ stream \in Streams
      BY <2>1, UpcomingFacts
    <3>2. Start(k) \in Nat /\ Start(d + 1) \in Nat
      BY <2>1, <3>1, StartFacts
    <3>3. CASE k <= d
      BY <2>1, <3>1, <3>3, StartFacts
    <3>4. CASE k = d + 1
      BY <2>1, <3>2, <3>4
    <3>5. CASE k > d + 1
      <4>1. Start(d + 1) < Start(k)
        BY <2>1, <3>1, <3>5, StartFacts
      <4> QED BY <2>1, <3>2, <3>5, <4>1
    <3> QED BY <2>1, <3>3, <3>4, <3>5
  <2>4. {k \in DOMAIN stream : Start(k) < read} = 1..d
    BY <2>1, <2>2, <2>3
  <2>5. Cardinality(1..d) = d
    <3> HIDE DEF d
    <3>1. Cardinality(1..d) = IF 1 > d THEN 0 ELSE d - 1 + 1
      BY <2>1, FS_Interval
    <3> QED BY <2>1, <3>1
  <2> QED BY <2>4, <2>5, Zenon
<1> QED BY <1>1, FrameInvariance, PTL

\* parse_message verifies every trailer that is not inside OP_COMPRESSED: a flagged
\* message too short for the comparison is too short for parse_body.
THEOREM DirectTrailers == Spec => []DirectTrailersVerified
<1>1. FrameInv => DirectTrailersVerified
  <2> SUFFICES ASSUME FrameInv, NEW k \in DOMAIN dispatched,
                      dispatched[k].direct, dispatched[k].trailer
               PROVE  dispatched[k].crc
    BY DEF DirectTrailersVerified
  <2> DEFINE f == stream[k]
  <2>1. Acceptable(f) /\ dispatched[k] = Body(f)
    BY DEF FrameInv, ChunkingInvisible
  <2>2. k \in 1..Len(stream)
    <3>1. DOMAIN dispatched = 1..Len(dispatched)
      BY DEF FrameInv
    <3> QED BY <3>1, UpcomingFacts DEF FrameInv, ChunkingInvisible
  <2>3. f.length \in Int
    BY <2>2, UpcomingFacts, StreamsAssumption
  <2> HIDE DEF f
  <2>4. f.op = "Msg" /\ f.flagged /\ dispatched[k].crc = f.crc
    <3>1. Body(f).direct /\ Body(f).trailer /\ Body(f) = dispatched[k]
      BY <2>1
    <3>2. f.op # "Compressed"
      BY <3>1, Zenon DEF Body
    <3>3. Body(f) = [op |-> f.op, trailer |-> f.op = "Msg" /\ f.flagged, crc |-> f.crc,
                     direct |-> TRUE]
      BY <3>2, Zenon DEF Body
    <3>4. Body(f).trailer = (f.op = "Msg" /\ f.flagged) /\ Body(f).crc = f.crc
      BY <3>3
    <3>5. f.op = "Msg" /\ f.flagged
      BY <3>1, <3>4, Zenon
    <3>6. dispatched[k].crc = f.crc
      BY <3>1, <3>4
    <3> QED BY <3>5, <3>6
  <2>5. f.length - 16 >= 10
    BY <2>1, <2>4 DEF Acceptable, ParsedBody, BodyParses, MSG_HEADER_LEN
  <2> QED BY <2>1, <2>3, <2>4, <2>5 DEF Acceptable, ChecksumMismatch, MSG_HEADER_LEN
<1> QED BY <1>1, FrameInvariance, PTL

\* process_socket gives a connection up over framing only when the next frame itself is
\* not acceptable or the stream ended inside it: how the bytes were cut, and what was
\* sent before or behind that frame, is never the reason.
THEOREM FailsWithCause == Spec => []FailureHasCause
<1>1. FrameInv => FailureHasCause
  BY DEF FrameInv
<1> QED BY <1>1, FrameInvariance, PTL
=============================================================================
