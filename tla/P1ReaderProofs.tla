--------------------------- MODULE P1ReaderProofs ---------------------------
(***************************************************************************)
(* Proofs about P1Reader, first alone (P1Reader), for every set of bytes,  *)
(* CRC function, number of CRC digits and size of the receive queue; what  *)
(* an application may do while a telegram is received, and the room of the *)
(* heap, are hypotheses of the theorems that need them.  Then in its place *)
(* (P1Link), with the sketch, the meter and the line, for every sequence   *)
(* of telegrams and every noise besides.                                   *)
(***************************************************************************)
EXTENDS P1Link, ReaderLemmas

(***************************************************************************)
(* Type correctness                                                        *)
(***************************************************************************)
\* The sequences that a start, a reset and a clear leave behind.
LEMMA EmptyValues ==
  /\ <<>> \in Seq(Byte) /\ <<"/">> \in Seq(Byte)
  /\ <<>> \in Seq(BOOLEAN)
BY ByteAssumption

\* The first byte of the queue, and what loop() leaves behind it.
LEMMA QueueParts ==
  ASSUME rx \in Seq(Byte), rx # <<>>
  PROVE  /\ Head(rx) \in Byte /\ <<Head(rx)>> \in Seq(Byte)
         /\ Tail(rx) \in Seq(Byte)
BY HeadTailProperties

\* A whole CRC and the rest of the queue.
LEMMA CrcParts ==
  ASSUME rx \in Seq(Byte), Len(rx) >= CRC_LEN
  PROVE  /\ SubSeq(rx, 1, CRC_LEN) \in Seq(Byte)
         /\ Len(SubSeq(rx, 1, CRC_LEN)) = CRC_LEN
         /\ SubSeq(rx, CRC_LEN + 1, Len(rx)) \in Seq(Byte)
BY CrcLenAssumption

\* accept keeps the types, for whatever suffix is cut off the queue.
LEMMA AcceptTypes ==
  ASSUME TypeOK, NEW p \in BOOLEAN, NEW tail \in Seq(Byte), NEW rest \in Seq(Byte),
         Accept(p, tail, rest)
  PROVE  TypeOK'
<1>1. diag' \in Tracker /\ last_crc_present' \in BOOLEAN
  BY TrackerVotes, Zenon DEF Accept, TypeOK
<1>2. seen' \in Seq(BOOLEAN)
  <2>1. WithVote(seen, p) \in Seq(BOOLEAN)
    BY AppendProperties, Zenon DEF WithVote, TypeOK
  <2>2. QED
    BY <2>1, Zenon DEF Accept
<1>3. /\ state' \in {"DISABLED_STATE", "WAITING_STATE"}
      /\ req_pin' \in {"LOW", "HIGH"} /\ once' \in BOOLEAN
      /\ rx' \in Seq(Byte)
  BY EmptyValues DEF Accept, AfterTelegram, StopRequest, request, TypeOK
<1>4. available' \in BOOLEAN /\ pc' \in {"app", "loop"} /\ ret' \in BOOLEAN
  BY DEF Accept, Return
<1>5. buffer' = buffer /\ crc' = crc /\ framed' = framed /\ suffix' = tail
  BY DEF Accept
<1>6. QED
  BY <1>1, <1>2, <1>3, <1>4, <1>5 DEF TypeOK

\* A refused telegram: the tracker counts, the buffer is emptied.
LEMMA RefuseTypes ==
  ASSUME TypeOK, RecordCrcError, Return(TRUE) \/ Return(FALSE), rx' \in Seq(Byte)
  PROVE  TypeOK'
<1>1. diag' \in Tracker
  BY TrackerCounters, 0 \in Nat DEF RecordCrcError, TypeOK
<1>2. QED
  BY <1>1, EmptyValues DEF RecordCrcError, Return, TypeOK, request

\* Every step keeps the types (P1Reader).
LEMMA TypeStep == TypeOK /\ [Next]_vars => TypeOK'
<1> SUFFICES ASSUME TypeOK, [Next]_vars PROVE TypeOK'
  OBVIOUS
<1> USE ByteAssumption, EmptyValues DEF telegram, request, control, history
<1>1. ASSUME NEW c \in Byte, Arrive(c) PROVE TypeOK'
  BY <1>1 DEF Arrive, TypeOK
<1>2. CASE CallLoop
  BY <1>2 DEF CallLoop, TypeOK
<1>3. CASE LoopIdle
  BY <1>3 DEF LoopIdle, Return, TypeOK
<1>4. CASE LoopToss
  BY <1>4, QueueParts DEF LoopToss, Reads, TypeOK
<1>5. CASE StartTelegram
  BY <1>5, QueueParts DEF StartTelegram, Reads, Clear, TypeOK
<1>6. CASE EndMarker
  BY <1>6, QueueParts DEF EndMarker, Reads, Digest, TypeOK
<1>7. CASE StoreByte
  BY <1>7, QueueParts DEF StoreByte, Reads, Digest, TypeOK
<1>8. CASE SuffixLineEnd
  <2>1. /\ Head(rx) \in Byte /\ <<Head(rx)>> \in Seq(Byte) /\ Tail(rx) \in Seq(Byte)
    BY <1>8, QueueParts DEF SuffixLineEnd, AtSuffix, Reads, TypeOK
  <2>2. CASE Accept(FALSE, <<Head(rx)>>, Tail(rx))
    BY <2>1, <2>2, AcceptTypes, FALSE \in BOOLEAN
  <2>3. CASE RecordCrcError /\ rx' = Tail(rx) /\ Return(TRUE)
    BY <2>1, <2>3, RefuseTypes
  <2>4. QED
    BY <1>8, <2>2, <2>3 DEF SuffixLineEnd
<1>9. CASE SuffixUnexpected
  BY <1>9, RefuseTypes DEF SuffixUnexpected, TypeOK
<1>10. CASE SuffixIncomplete
  BY <1>10 DEF SuffixIncomplete, Return, TypeOK
<1>11. CASE SuffixCrc
  <2> DEFINE digits == SubSeq(rx, 1, CRC_LEN)
             rest   == SubSeq(rx, CRC_LEN + 1, Len(rx))
  <2>1. digits \in Seq(Byte) /\ rest \in Seq(Byte)
    BY <1>11, CrcParts DEF SuffixCrc, TypeOK
  <2>2. Accept(TRUE, digits, rest) \/ (RecordCrcError /\ rx' = rest /\ Return(TRUE))
    BY <1>11 DEF SuffixCrc
  <2> HIDE DEF digits, rest
  <2>3. QED
    BY <2>1, <2>2, AcceptTypes, RefuseTypes, TRUE \in BOOLEAN
<1>12. ASSUME NEW o \in BOOLEAN, Enable(o) PROVE TypeOK'
  BY <1>12, Zenon DEF Enable, TypeOK
<1>13. CASE Disable
  BY <1>13 DEF Disable, StopRequest, DiscardPartial, TypeOK
<1>14. CASE CallClear
  BY <1>14 DEF CallClear, Clear, TypeOK
<1>15. ASSUME NEW n \in 0 .. MaxFieldErrors, Parse(n) PROVE TypeOK'
  <2>0. n \in Nat
    BY BoundAssumption
  <2>1. AddSkipped(diag, n) \in Tracker
    BY <2>0, TrackerCounters DEF TypeOK
  <2>2. QED
    BY <1>15, <2>1 DEF Parse, Clear, TypeOK
<1>16. CASE CallClearAll
  BY <1>16 DEF CallClearAll, ClearAll, TypeOK
<1>17. CASE DoChecksum
  BY <1>17, TrackerReset DEF DoChecksum, ResetDiagnostics, ClearAll, TypeOK
<1>18. CASE ChangeStream
  BY <1>18, TrackerReset DEF ChangeStream, ResetDiagnostics, ClearAll, TypeOK
<1>19. CASE UNCHANGED vars
  BY <1>19 DEF vars, TypeOK
<1>20. QED
  BY <1>1, <1>2, <1>3, <1>4, <1>5, <1>6, <1>7, <1>8, <1>9, <1>10, <1>11, <1>12,
     <1>13, <1>14, <1>15, <1>16, <1>17, <1>18, <1>19 DEF Next, Loop

\* Every variable keeps its type, whatever the application does and however
\* little room the heap has (P1Reader's members).
THEOREM TypeCorrect == Spec => []TypeOK
<1>1. Init => TypeOK
  BY TrackerReset, EmptyValues DEF Init, TypeOK
<1>2. QED
  BY <1>1, TypeStep, PTL DEF Spec

(***************************************************************************)
(* The detected mode                                                       *)
(***************************************************************************)
\* The votes counted are the votes cast, in every step.
LEMMA VotesStep == TypeOK /\ VotesInv /\ [Next]_vars => VotesInv'
<1> SUFFICES ASSUME TypeOK, VotesInv, [Next]_vars PROVE VotesInv'
  OBVIOUS
<1>1. ASSUME UNCHANGED <<diag, seen>> PROVE VotesInv'
  BY <1>1 DEF VotesInv
<1>2. CASE RecordCrcError
  BY <1>2, CountersKeepVotes DEF RecordCrcError, VotesInv, TypeOK
<1>3. ASSUME NEW p \in BOOLEAN, NEW tail, NEW rest, Accept(p, tail, rest) PROVE VotesInv'
  BY <1>3, VoteCounts DEF VotesInv, TypeOK, Accept
<1>4. CASE Loop
  <2>1. CASE SuffixLineEnd
    BY <1>2, <1>3, <2>1, FALSE \in BOOLEAN DEF SuffixLineEnd
  <2>2. CASE SuffixUnexpected
    BY <1>2, <2>2 DEF SuffixUnexpected
  <2>3. CASE SuffixCrc
    BY <1>2, <1>3, <2>3, TRUE \in BOOLEAN DEF SuffixCrc
  <2>4. QED
    BY <1>1, <1>4, <2>1, <2>2, <2>3 DEF Loop, LoopIdle, LoopToss, StartTelegram, EndMarker,
       StoreByte, SuffixIncomplete, history
<1>5. ASSUME NEW n \in 0 .. MaxFieldErrors, Parse(n) PROVE VotesInv'
  BY <1>5, CountersKeepVotes DEF Parse, history, VotesInv, TypeOK
<1>6. CASE DoChecksum \/ ChangeStream
  BY <1>6, NoVotes DEF DoChecksum, ChangeStream, ResetDiagnostics, VotesInv
<1>7. QED
  BY <1>1, <1>4, <1>5, <1>6 DEF Next, vars, history, Arrive, CallLoop, Enable, Disable,
     CallClear, CallClearAll

\* The detected mode is the majority of the first three telegrams that
\* loop() accepted, whatever the application does in between
\* (P1DiagnosticsTracker::observeCrc).
THEOREM CrcModeAlwaysMajority == Spec => []CrcModeIsMajority
<1>1. Init => VotesInv
  BY NoVotes DEF Init, VotesInv
<1>2. VotesInv => CrcModeIsMajority
  BY DEF VotesInv, VotesCounted, CrcModeIsMajority
<1>3. QED
  BY <1>1, <1>2, VotesStep, TypeCorrect, PTL DEF Spec

(***************************************************************************)
(* What a step may never do                                                *)
(***************************************************************************)
\* A telegram read to its end is announced or counted as a CRC error, and
\* not both, even when it arrives in pieces and whatever the application did
\* while it was received (P1Reader::loop, CHECKSUM_STATE).
THEOREM NothingEverLostSilently == Spec => NothingLostSilently
<1> DEFINE Judged ==
      pc = "loop" /\ state = "CHECKSUM_STATE" /\ state' # state =>
        (available' <=> diag'.crc_errors = diag.crc_errors)
<1>1. TypeOK /\ [Next]_vars => [Judged]_vars
  <2> SUFFICES ASSUME TypeOK, Next, pc = "loop", state = "CHECKSUM_STATE", state' # state
               PROVE  available' <=> diag'.crc_errors = diag.crc_errors
    OBVIOUS
  <2>1. CASE RecordCrcError
    BY <2>1, CountShows DEF RecordCrcError, TypeOK
  <2>2. ASSUME NEW p \in BOOLEAN, NEW tail, NEW rest, Accept(p, tail, rest)
        PROVE  available' /\ diag'.crc_errors = diag.crc_errors
    BY <2>2, VoteKeepsErrors DEF Accept, TypeOK
  <2>3. SuffixLineEnd \/ SuffixUnexpected \/ SuffixCrc
    BY DEF Next, Loop, Arrive, CallLoop, LoopIdle, LoopToss, StartTelegram, EndMarker, StoreByte,
       SuffixIncomplete, Reads, Enable, Disable, CallClear, Parse, CallClearAll, DoChecksum,
       ChangeStream, May
  <2>4. CASE SuffixLineEnd
    BY <2>1, <2>2, <2>4, FALSE \in BOOLEAN DEF SuffixLineEnd
  <2>5. CASE SuffixUnexpected
    BY <2>1, <2>5 DEF SuffixUnexpected
  <2>6. CASE SuffixCrc
    BY <2>1, <2>2, <2>6, TRUE \in BOOLEAN DEF SuffixCrc
  <2>7. QED
    BY <2>3, <2>4, <2>5, <2>6
<1>2. QED
  BY <1>1, TypeCorrect, PTL DEF Spec, NothingLostSilently

(***************************************************************************)
(* The buffer between two telegrams                                        *)
(***************************************************************************)
\* clear() in any state in which the buffer follows it.
LEMMA ClearFollows ==
  ASSUME BufferFollowsState, Clear
  PROVE  /\ available' = FALSE
         /\ ~Receiving => buffer' = <<>>
         /\ Receiving => buffer' = buffer
BY DEF BufferFollowsState, Clear

\* Every step leaves the buffer as its state says, if it is no call of enable()
\* in the middle of a telegram.
LEMMA BufferStep ==
  ASSUME TypeOK, BufferFollowsState, [Next]_vars,
         ASSUME NEW o \in BOOLEAN, Enable(o) PROVE ~Receiving
  PROVE  BufferFollowsState'
<1>1. ASSUME UNCHANGED <<state, buffer, available>> PROVE BufferFollowsState'
  BY <1>1 DEF BufferFollowsState, Receiving
<1>2. CASE RecordCrcError
  BY <1>2 DEF RecordCrcError, BufferFollowsState, Receiving
<1>3. ASSUME NEW p, NEW tail, NEW rest, Accept(p, tail, rest) PROVE BufferFollowsState'
  BY <1>3 DEF Accept, AfterTelegram, StopRequest, BufferFollowsState, Receiving
<1>4. ASSUME Clear, UNCHANGED state PROVE BufferFollowsState'
  BY <1>4, ClearFollows DEF BufferFollowsState, Receiving
<1>5. CASE Loop
  <2>1. CASE StartTelegram
    BY <2>1 DEF StartTelegram, Reads, Clear, BufferFollowsState, Receiving
  <2>2. CASE EndMarker \/ StoreByte
    BY <2>2 DEF EndMarker, StoreByte, Reads, BufferFollowsState, Receiving
  <2>3. CASE SuffixLineEnd \/ SuffixUnexpected \/ SuffixCrc
    BY <1>2, <1>3, <2>3 DEF SuffixLineEnd, SuffixUnexpected, SuffixCrc
  <2>4. QED
    BY <1>1, <1>5, <2>1, <2>2, <2>3 DEF Loop, LoopIdle, LoopToss, SuffixIncomplete, telegram
<1>6. ASSUME NEW o \in BOOLEAN, Enable(o) PROVE BufferFollowsState'
  BY <1>6 DEF Enable, telegram, BufferFollowsState, Receiving
<1>7. CASE Disable
  BY <1>7 DEF Disable, StopRequest, DiscardPartial, BufferFollowsState, Receiving
<1>8. ASSUME NEW n \in 0 .. MaxFieldErrors, Parse(n) PROVE BufferFollowsState'
  BY <1>4, <1>8 DEF Parse
<1>9. ASSUME ClearAll, UNCHANGED state PROVE BufferFollowsState'
  BY <1>9 DEF ClearAll, BufferFollowsState
<1>10. QED
  BY <1>1, <1>4, <1>5, <1>6, <1>7, <1>8, <1>9 DEF Next, vars, telegram, Arrive, CallLoop,
     CallClear, CallClearAll, DoChecksum, ChangeStream, ResetDiagnostics

\* Unless enable() is called in the middle of a telegram, a telegram that is
\* being read is not announced, and between telegrams nothing unannounced is
\* left to be prepended to the next one; clearAll(), doChecksum() and
\* ChangeStream() may be called at any time (P1Reader).
THEOREM BufferAlwaysFollowsState ==
  ASSUME "enable" \notin MidTelegram
  PROVE  Spec => []BufferFollowsState
<1>1. Init => BufferFollowsState
  BY DEF Init, BufferFollowsState, Receiving
<1>2. ASSUME NEW o \in BOOLEAN, Enable(o) PROVE ~Receiving
  BY <1>2 DEF Enable, May
<1>3. TypeOK /\ BufferFollowsState /\ [Next]_vars => BufferFollowsState'
  BY <1>2, BufferStep
<1>4. QED
  BY <1>1, <1>3, TypeCorrect, PTL DEF Spec

(***************************************************************************)
(* The telegram an undisturbed reader announces                            *)
(***************************************************************************)
\* A byte that is no '!' still finds room in the buffer.
LEMMA RoomForByte ==
  ASSUME MaxBody <= HeapLimit, TypeOK, RoomInv,
         state = "READING_STATE", rx # <<>>, Head(rx) # "!"
  PROVE  Len(buffer) < HeapLimit
<1>1. 1 \in DOMAIN rx /\ Head(rx) = rx[1]
  BY DEF TypeOK
<1>2. Len(buffer) + 1 <= MaxBody /\ Len(buffer) \in Nat
  BY <1>1 DEF RoomInv, TypeOK
<1>3. QED
  BY <1>2, BoundAssumption

\* A body never outgrows the bytes that were sent.
LEMMA RoomStep ==
  ASSUME TypeOK, BufferFollowsState, RoomInv, [Next]_vars
  PROVE  RoomInv'
<1> DEFINE body == IF state = "READING_STATE" THEN Len(buffer) ELSE 0
<1>0. body \in Nat /\ MaxBody \in Nat
  BY BoundAssumption DEF TypeOK
<1>1. ASSUME rx' = rx, body' <= body, body' \in Nat PROVE RoomInv'
  BY <1>0, <1>1 DEF RoomInv, TypeOK
<1>2. ASSUME rx # <<>>, rx' = Tail(rx), body' <= body + 1, body' \in Nat PROVE RoomInv'
  <2>1. \A i \in DOMAIN rx' : i + 1 \in DOMAIN rx /\ rx'[i] = rx[i + 1] /\ i \in Nat
    BY <1>2 DEF TypeOK
  <2>2. QED
    BY <1>0, <1>2, <2>1 DEF RoomInv
<1>3. ASSUME rx' = <<>> PROVE RoomInv'
  BY <1>3 DEF RoomInv
<1>4. ASSUME rx' = SubSeq(rx, CRC_LEN + 1, Len(rx)), body' = 0 PROVE RoomInv'
  <2>1. \A i \in DOMAIN rx' : /\ i + CRC_LEN \in DOMAIN rx /\ rx'[i] = rx[i + CRC_LEN]
                            /\ i \in Nat /\ CRC_LEN \in Nat
    BY <1>4, CrcLenAssumption DEF TypeOK
  <2>2. QED
    BY <1>0, <1>4, <2>1 DEF RoomInv
<1>5. ASSUME NEW c \in Byte, Arrive(c) PROVE RoomInv'
  <2>1. /\ DOMAIN rx' = 1 .. Len(rx) + 1 /\ DOMAIN rx = 1 .. Len(rx) /\ Len(rx) \in Nat
        /\ \A i \in 1 .. Len(rx) : rx'[i] = rx[i]
        /\ rx'[Len(rx) + 1] = c
    BY <1>5 DEF Arrive, TypeOK
  <2>2. body' = body /\ (body + Len(rx) < MaxBody \/ c = "!")
    BY <1>5 DEF Arrive, telegram
  <2>3. QED
    BY <1>0, <2>1, <2>2 DEF RoomInv
<1>6. CASE LoopToss
  BY <1>2, <1>6 DEF LoopToss, Reads, telegram
<1>7. CASE StartTelegram
  <2>1. buffer' = <<>>
    BY <1>7, ClearFollows DEF StartTelegram, Reads, Receiving
  <2>2. QED
    BY <1>0, <1>2, <1>7, <2>1 DEF StartTelegram, Reads
<1>8. CASE EndMarker
  BY <1>0, <1>2, <1>8 DEF EndMarker, Reads
<1>9. CASE StoreByte
  <2>1. Len(buffer') \in {Len(buffer), Len(buffer) + 1} /\ Len(buffer) \in Nat
    BY <1>9, QueueParts DEF StoreByte, Reads, TypeOK
  <2>2. QED
    BY <1>2, <1>9, <2>1 DEF StoreByte, Reads
<1>10. ASSUME RecordCrcError, rx' \in {rx, Tail(rx), SubSeq(rx, CRC_LEN + 1, Len(rx))}, rx # <<>>
       PROVE  RoomInv'
  BY <1>0, <1>1, <1>2, <1>4, <1>10 DEF RecordCrcError
<1>11. ASSUME NEW p, NEW tail, NEW rest, Accept(p, tail, rest), rx # <<>>,
              rest \in {Tail(rx), SubSeq(rx, CRC_LEN + 1, Len(rx))}
       PROVE  RoomInv'
  BY <1>0, <1>2, <1>3, <1>4, <1>11 DEF Accept, AfterTelegram, StopRequest
<1>12. CASE SuffixLineEnd \/ SuffixUnexpected \/ SuffixCrc
  BY <1>10, <1>11, <1>12 DEF SuffixLineEnd, SuffixUnexpected, SuffixCrc, AtCrc, AtSuffix, Reads
<1>13. ASSUME NEW o \in BOOLEAN, Enable(o) PROVE RoomInv'
  BY <1>0, <1>1, <1>13 DEF Enable
<1>14. CASE Disable \/ ChangeStream
  BY <1>3, <1>14 DEF Disable, StopRequest, ChangeStream
<1>15. ASSUME Clear, UNCHANGED <<state, rx>> PROVE RoomInv'
  <2>1. buffer' \in {buffer, <<>>}
    BY <1>15 DEF Clear
  <2>2. body' \in {body, 0}
    BY <1>15, <2>1
  <2>3. QED
    BY <1>0, <1>1, <1>15, <2>2
<1>16. ASSUME ClearAll, UNCHANGED <<state, rx>> PROVE RoomInv'
  <2>1. body' = 0
    BY <1>16 DEF ClearAll
  <2>2. QED
    BY <1>0, <1>1, <1>16, <2>1
<1>17. CASE UNCHANGED <<state, buffer, rx>>
  BY <1>0, <1>1, <1>17
<1>18. CASE Loop
  BY <1>6, <1>7, <1>8, <1>9, <1>12, <1>17, <1>18 DEF Loop, LoopIdle, SuffixIncomplete, telegram
<1>19. QED
  BY <1>5, <1>13, <1>14, <1>15, <1>16, <1>17, <1>18 DEF Next, vars, telegram, CallLoop, CallClear,
     Parse, CallClearAll, DoChecksum, ResetDiagnostics

\* The pin and the state agree in every step.
LEMMA RequestStep ==
  ASSUME RequestInv, [Next]_vars
  PROVE  RequestInv'
<1>1. CASE UNCHANGED <<state, request>>
  BY <1>1 DEF RequestInv, request
<1>2. CASE StopRequest
  BY <1>2 DEF StopRequest, RequestInv
<1>3. ASSUME RecordCrcError, state # "DISABLED_STATE" PROVE RequestInv'
  BY <1>3 DEF RecordCrcError, request, RequestInv
<1>4. ASSUME NEW p, NEW tail, NEW rest, Accept(p, tail, rest), state # "DISABLED_STATE"
      PROVE  RequestInv'
  BY <1>2, <1>4 DEF Accept, AfterTelegram, request, RequestInv
<1>5. CASE StartTelegram \/ EndMarker
  BY <1>5 DEF StartTelegram, EndMarker, Reads, request, RequestInv
<1>6. CASE SuffixLineEnd \/ SuffixUnexpected \/ SuffixCrc
  BY <1>3, <1>4, <1>6 DEF SuffixLineEnd, SuffixUnexpected, SuffixCrc, AtCrc, AtSuffix, Reads
<1>7. ASSUME NEW o \in BOOLEAN, Enable(o) PROVE RequestInv'
  BY <1>7 DEF Enable, RequestInv
<1>8. QED
  BY <1>1, <1>2, <1>5, <1>6, <1>7 DEF Next, Loop, vars, Arrive, CallLoop, LoopIdle, LoopToss,
     StoreByte, SuffixIncomplete, Disable, CallClear, Parse, CallClearAll, DoChecksum,
     ChangeStream, ResetDiagnostics

\* What the frame speaks of, apart from the counters of the tracker.
FrameKept ==
  /\ UNCHANGED <<state, buffer, crc, last_crc_present, available, framed, suffix>>
  /\ diag'.crc_mode = diag.crc_mode

\* A step that touches neither the buffer nor the frame keeps the invariant.
LEMMA FrameInvKept == FrameInv /\ FrameKept => FrameInv'
BY DEF FrameInv, FrameKept, AvailableIsIntact, SuffixVerified, BufferFollowsState, Receiving,
   CrcSkipped

\* Nothing is received and nothing is announced: there is nothing to frame.
LEMMA NothingFramed ==
  (~Receiving)' /\ available' = FALSE /\ BufferFollowsState' => FrameInv'
BY DEF FrameInv, AvailableIsIntact, Receiving

\* The suffix of an accepted telegram ends the frame that was read.
LEMMA AcceptFrames ==
  ASSUME FrameInv, state = "CHECKSUM_STATE", BufferFollowsState',
         NEW p \in BOOLEAN, NEW tail, NEW rest, Accept(p, tail, rest),
         p => /\ Len(tail) = CRC_LEN /\ ParseCrc(tail).ok
              /\ ParseCrc(tail).value = CrcOf(framed),
         ~p => \E c \in EndOfLine : tail = <<c>>
  PROVE  FrameInv'
<1>1. framed' = <<"/">> \o buffer' \o <<"!">> /\ framed' = framed
  BY DEF Accept, FrameInv
<1>2. SuffixVerified'
  BY <1>1 DEF Accept, SuffixVerified
<1>3. (~Receiving)'
  BY DEF Accept, AfterTelegram, StopRequest, Receiving
<1>4. QED
  BY <1>1, <1>2, <1>3 DEF FrameInv, AvailableIsIntact, Receiving

\* Every step keeps the buffer and the telegram on the wire together, if nobody
\* interferes with a telegram that is being received.
LEMMA FrameStep ==
  ASSUME MidTelegram = {}, MaxBody <= HeapLimit,
         TypeOK, FrameInv, RoomInv, [Next]_vars
  PROVE  FrameInv'
<1>0. BufferFollowsState /\ BufferFollowsState'
  <2>1. ASSUME NEW o \in BOOLEAN, Enable(o) PROVE ~Receiving
    BY <2>1 DEF Enable, May
  <2>2. QED
    BY <2>1, BufferStep DEF FrameInv
<1>1. CASE FrameKept
  BY <1>1, FrameInvKept
<1>2. CASE RecordCrcError
  BY <1>0, <1>2, NothingFramed DEF RecordCrcError, Receiving
<1>3. CASE StartTelegram
  <2>1. buffer' = <<>> /\ available' = FALSE
    BY <1>0, <1>3, ClearFollows DEF StartTelegram, Reads, Receiving
  <2>2. framed' = <<"/">> \o buffer'
    BY <1>3, <2>1, BeginFrames, ByteAssumption DEF StartTelegram
  <2>3. QED
    BY <1>0, <1>3, <2>1, <2>2
       DEF StartTelegram, FrameInv, AvailableIsIntact, Receiving, CrcSkipped
<1>4. CASE EndMarker
  <2>1. available = FALSE /\ framed = <<"/">> \o buffer /\ (~CrcSkipped => crc = framed)
    BY <1>0, <1>4 DEF EndMarker, Reads, FrameInv, BufferFollowsState, Receiving, TypeOK
  <2>2. Append(<<"/">> \o buffer, "!") = <<"/">> \o buffer \o <<"!">>
    BY EndClosesFrame, ByteAssumption DEF TypeOK
  <2>3. framed' = <<"/">> \o buffer' \o <<"!">> /\ (~CrcSkipped => crc' = framed')
    BY <1>4, <2>1, <2>2 DEF EndMarker, Digest
  <2>4. QED
    BY <1>0, <1>4, <2>1, <2>3
       DEF EndMarker, FrameInv, AvailableIsIntact, Receiving, CrcSkipped
<1>5. CASE StoreByte
  <2>1. available = FALSE /\ framed = <<"/">> \o buffer /\ (~CrcSkipped => crc = framed)
    BY <1>0, <1>5 DEF StoreByte, Reads, FrameInv, BufferFollowsState, Receiving, TypeOK
  <2>2. buffer' = Append(buffer, Head(rx))
    BY <1>5, RoomForByte DEF StoreByte, Reads
  <2>3. Append(<<"/">> \o buffer, Head(rx)) = <<"/">> \o Append(buffer, Head(rx))
    <3>1. Head(rx) \in Byte
      BY <1>5, QueueParts DEF StoreByte, Reads, TypeOK
    <3>2. ASSUME NEW c \in Byte
          PROVE  Append(<<"/">> \o buffer, c) = <<"/">> \o Append(buffer, c)
      BY StoreExtendsFrame, ByteAssumption DEF TypeOK
    <3>3. QED
      BY <3>1, <3>2, Zenon
  <2>4. framed' = <<"/">> \o buffer' /\ (~CrcSkipped => crc' = framed')
    BY <1>5, <2>1, <2>2, <2>3 DEF StoreByte, Digest
  <2>5. QED
    BY <1>0, <1>5, <2>1, <2>4
       DEF StoreByte, Reads, FrameInv, AvailableIsIntact, Receiving, CrcSkipped
<1>6. CASE SuffixLineEnd
  BY <1>0, <1>2, <1>6, AcceptFrames, FALSE \in BOOLEAN DEF SuffixLineEnd, AtSuffix, Reads
<1>7. CASE SuffixCrc
  <2> DEFINE digits == SubSeq(rx, 1, CRC_LEN)
             rest   == SubSeq(rx, CRC_LEN + 1, Len(rx))
  <2>1. state = "CHECKSUM_STATE" /\ Len(digits) = CRC_LEN /\ crc = framed
    BY <1>7, CrcParts DEF SuffixCrc, AtCrc, AtSuffix, Reads, FrameInv, Receiving, TypeOK
  <2>2. (CrcMatches(digits) /\ Accept(TRUE, digits, rest)) \/ RecordCrcError
    BY <1>7 DEF SuffixCrc
  <2> HIDE DEF digits, rest
  <2>3. CASE CrcMatches(digits) /\ Accept(TRUE, digits, rest)
    BY <1>0, <2>1, <2>3, AcceptFrames, TRUE \in BOOLEAN DEF CrcMatches
  <2>4. QED
    BY <1>2, <2>2, <2>3
<1>8. ASSUME NEW o \in BOOLEAN, Enable(o) PROVE FrameInv'
  BY <1>0, <1>8 DEF Enable, May, telegram, history, FrameInv, AvailableIsIntact, SuffixVerified,
     Receiving
<1>9. CASE Disable
  BY <1>0, <1>9 DEF Disable, StopRequest, DiscardPartial, history, FrameInv, AvailableIsIntact,
     SuffixVerified, Receiving
<1>10. ASSUME Clear, UNCHANGED <<state, crc, last_crc_present, framed, suffix>>,
              diag'.crc_mode = diag.crc_mode
       PROVE  FrameInv'
  <2>1. CASE Receiving
    BY <1>1, <1>10, <2>1 DEF Clear, FrameKept, FrameInv, BufferFollowsState
  <2>2. CASE ~Receiving
    BY <1>0, <1>10, <2>2, ClearFollows, NothingFramed DEF Receiving
  <2>3. QED
    BY <2>1, <2>2
<1>11. ASSUME NEW n \in 0 .. MaxFieldErrors, Parse(n) PROVE FrameInv'
  BY <1>10, <1>11 DEF Parse, AddSkipped, history, TypeOK, Tracker
<1>12. ASSUME ClearAll, ~Receiving, UNCHANGED state PROVE FrameInv'
  BY <1>0, <1>12, NothingFramed DEF ClearAll, Receiving
<1>13. CASE CallClearAll \/ DoChecksum \/ ChangeStream
  BY <1>12, <1>13 DEF CallClearAll, DoChecksum, ChangeStream, ResetDiagnostics, May
<1>14. CASE Loop
  BY <1>1, <1>2, <1>3, <1>4, <1>5, <1>6, <1>7, <1>14 DEF Loop, LoopIdle, LoopToss,
     SuffixUnexpected, SuffixIncomplete, telegram, history, FrameKept
<1>15. QED
  BY <1>1, <1>8, <1>9, <1>10, <1>11, <1>13, <1>14 DEF Next, vars, telegram, history, Arrive,
     CallLoop, CallClear, FrameKept

\* The inductive invariant as TLC checks it, of an application that leaves
\* the reader alone while a telegram is received, and bodies that fit the
\* heap (P1Reader).
THEOREM InductiveInvariant ==
  ASSUME MidTelegram = {}, MaxBody <= HeapLimit
  PROVE  Spec => []IInv
<1>1. Init => FrameInv /\ RoomInv /\ RequestInv /\ VotesInv
  BY NoVotes DEF Init, FrameInv, AvailableIsIntact, BufferFollowsState, Receiving, RoomInv,
     RequestInv, VotesInv
<1>2. TypeOK /\ FrameInv /\ RoomInv /\ [Next]_vars => FrameInv' /\ RoomInv'
  BY FrameStep, RoomStep DEF FrameInv
<1>3. RequestInv /\ [Next]_vars => RequestInv'
  BY RequestStep
<1>4. FrameInv /\ RoomInv /\ RequestInv /\ VotesInv => IInv
  BY DEF IInv
<1>5. QED
  BY <1>1, <1>2, <1>3, <1>4, VotesStep, TypeCorrect, PTL DEF Spec

\* While available() says so, raw() is the whole body of one telegram of the
\* wire whose suffix was verified (P1Reader).
THEOREM AvailableAlwaysIntact ==
  ASSUME MidTelegram = {}, MaxBody <= HeapLimit
  PROVE  Spec => []AvailableIsIntact
<1>1. IInv => AvailableIsIntact
  BY DEF IInv, FrameInv
<1>2. QED
  BY <1>1, InductiveInvariant, PTL

(***************************************************************************)
(* The reader implements the mailbox                                       *)
(***************************************************************************)
slot  == IF available THEN <<buffer>> ELSE <<>>
asked == IF req_pin = "LOW" THEN "off" ELSE IF once THEN "once" ELSE "always"

\* At first nothing is announced and nothing asked for.
LEMMA InitRefines == Init => Mailbox!Init
BY DEF Init, Mailbox!Init

\* A step that neither announces nor clears is invisible to the mailbox.
LEMMA MailboxKept ==
  ASSUME available' = available, available => buffer' = buffer
  PROVE  slot' = slot
BY DEF slot

\* clear() and clearAll() empty the mailbox.
LEMMA TakenOut ==
  ASSUME available' = FALSE
  PROVE  slot' = <<>>
BY DEF slot

\* disable() stops asking.
LEMMA StopAsks == StopRequest => asked' = "off"
BY DEF StopRequest, asked

\* What Ended says of an accepted suffix.
LEMMA AcceptDelivers ==
  ASSUME TypeOK, FrameInv, RequestInv, state = "CHECKSUM_STATE",
         NEW p \in BOOLEAN, NEW tail, NEW rest, Accept(p, tail, rest),
         Ended(framed, tail)
  PROVE  Mailbox!Deliver
<1>1. slot = <<>> /\ asked # "off"
  BY DEF slot, asked, FrameInv, BufferFollowsState, Receiving, RequestInv, TypeOK
<1>2. framed' = <<"/">> \o buffer \o <<"!">> /\ buffer' = buffer /\ suffix' = tail
  BY DEF Accept, FrameInv
<1>3. Mailbox!IsTelegram(framed') /\ Mailbox!Body(framed') = buffer'
  <2>1. /\ Len(framed') = Len(buffer) + 2 /\ Len(buffer) \in Nat
        /\ framed'[1] = "/" /\ framed'[Len(framed')] = "!"
        /\ SubSeq(framed', 2, Len(framed') - 1) = buffer
    BY <1>2, FrameBody, ByteAssumption DEF TypeOK
  <2>2. QED
    BY <1>2, <2>1 DEF Mailbox!IsTelegram, Mailbox!Body
<1>4. Ended(framed', suffix')
  BY <1>2 DEF Accept
<1>5. slot' = <<buffer'>>
  BY DEF slot, Accept
<1>6. asked' = IF asked = "once" THEN "off" ELSE asked
  BY DEF asked, Accept, AfterTelegram, StopRequest, request, RequestInv, TypeOK
<1>7. QED
  BY <1>1, <1>3, <1>4, <1>5, <1>6 DEF Mailbox!Deliver, slot, asked

\* Every step of an undisturbed reader is a step of the mailbox, or
\* invisible to it.
LEMMA StepRefines ==
  ASSUME TypeOK, FrameInv, RequestInv, [Next]_vars
  PROVE  [Mailbox!Next]_(Mailbox!mailbox)
<1>1. ASSUME slot' = slot, asked' = asked PROVE UNCHANGED Mailbox!mailbox
  BY <1>1 DEF Mailbox!mailbox, slot, asked
<1>2. ASSUME slot' = <<>>, asked' = asked PROVE Mailbox!Next
  BY <1>2 DEF Mailbox!Next, Mailbox!TakeOut, slot, asked
<1>3. ASSUME slot' = slot, asked' = "off" PROVE Mailbox!Next
  BY <1>3 DEF Mailbox!Next, Mailbox!StopAsking, slot, asked
<1>4. ASSUME Clear \/ ClearAll, UNCHANGED request PROVE Mailbox!Next
  <2>1. available' = FALSE
    BY <1>4 DEF Clear, ClearAll, TypeOK
  <2>2. QED
    BY <1>4, <1>2, <2>1, TakenOut DEF request, asked
<1>5. CASE UNCHANGED <<buffer, available, request>>
  BY <1>1, <1>5, MailboxKept DEF request, asked
<1>6. CASE StartTelegram
  BY <1>4, <1>6 DEF StartTelegram
<1>7. CASE StoreByte
  <2>1. available = FALSE
    BY <1>7 DEF StoreByte, Reads, FrameInv, BufferFollowsState, Receiving, TypeOK
  <2>2. QED
    BY <1>1, <1>7, <2>1, MailboxKept DEF StoreByte, request, asked
<1>8. CASE RecordCrcError
  BY <1>2, <1>8, TakenOut DEF RecordCrcError, request, asked
<1>9. ASSUME NEW p \in BOOLEAN, NEW tail, NEW rest, Accept(p, tail, rest),
             state = "CHECKSUM_STATE", Ended(framed, tail)
      PROVE  Mailbox!Next
  BY <1>9, AcceptDelivers DEF Mailbox!Next
<1>10. CASE SuffixLineEnd
  BY <1>8, <1>9, <1>10, FALSE \in BOOLEAN DEF SuffixLineEnd, AtSuffix, Reads, Ended
<1>11. CASE SuffixCrc
  <2> DEFINE digits == SubSeq(rx, 1, CRC_LEN)
             rest   == SubSeq(rx, CRC_LEN + 1, Len(rx))
  <2>1. state = "CHECKSUM_STATE" /\ Len(digits) = CRC_LEN /\ crc = framed
    BY <1>11, CrcParts DEF SuffixCrc, AtCrc, AtSuffix, Reads, FrameInv, Receiving, TypeOK
  <2>2. (CrcMatches(digits) /\ Accept(TRUE, digits, rest)) \/ RecordCrcError
    BY <1>11 DEF SuffixCrc
  <2> HIDE DEF digits, rest
  <2>3. CASE CrcMatches(digits) /\ Accept(TRUE, digits, rest)
    BY <1>9, <2>1, <2>3, TRUE \in BOOLEAN DEF CrcMatches, Ended
  <2>4. QED
    BY <1>8, <2>2, <2>3
<1>12. ASSUME NEW o \in BOOLEAN, Enable(o) PROVE Mailbox!Next
  <2>1. asked' \in {"once", "always"} /\ slot' = slot
    BY <1>12, MailboxKept DEF Enable, telegram, asked
  <2>2. QED
    BY <2>1 DEF Mailbox!Next, Mailbox!Ask, slot, asked
<1>13. CASE Disable
  BY <1>3, <1>13, StopAsks, MailboxKept DEF Disable, DiscardPartial
<1>14. CASE Loop
  BY <1>5, <1>6, <1>7, <1>8, <1>10, <1>11, <1>14 DEF Loop, LoopIdle, LoopToss, EndMarker,
     SuffixUnexpected, SuffixIncomplete, telegram
<1>15. QED
  BY <1>4, <1>5, <1>12, <1>13, <1>14 DEF Next, vars, telegram, Arrive, CallLoop, CallClear,
     Parse, CallClearAll, DoChecksum, ChangeStream, ResetDiagnostics

\* P1Reader implements TelegramMailbox: only whole, verified telegrams are
\* delivered, each into an empty mailbox and only while one was asked for.
THEOREM ReaderIsMailbox ==
  ASSUME MidTelegram = {}, MaxBody <= HeapLimit
  PROVE  Spec => IsMailbox
<1>1. TypeOK /\ IInv /\ [Next]_vars => [Mailbox!Next]_(Mailbox!mailbox)
  BY StepRefines DEF IInv
<1>2. QED
  BY <1>1, InitRefines, InductiveInvariant, TypeCorrect, PTL DEF Spec, IsMailbox, Mailbox!Spec

(***************************************************************************)
(* The telegrams of the meter                                              *)
(***************************************************************************)
\* Where the '!' is, and how many bytes follow it: the digits and CR LF.
Bang(i) == Len(Bodies[i]) + 2
Behind  == CRC_LEN + 2

\* What follows the '!' is neither the beginning nor the end of anything.
Trailing == ToSet(UpperHex) \cup EndOfLine

\* The bytes of a telegram, by their places (the P1 companion standard, as
\* parse() takes a telegram apart).
LEMMA TelegramIs ==
  ASSUME NEW i \in DOMAIN Bodies
  PROVE  /\ Bodies[i] \in Seq(Byte \ {"!"}) /\ Len(Bodies[i]) \in Nat
         /\ Telegrams[i] \in Seq(Byte)
         /\ Len(Telegrams[i]) = Bang(i) + Behind
         /\ Telegrams[i][1] = "/" /\ Telegrams[i][Bang(i)] = "!"
         /\ \A k \in 2 .. Bang(i) - 1 : Telegrams[i][k] = Bodies[i][k - 1]
         /\ \A k \in Bang(i) + 1 .. Bang(i) + Behind : Telegrams[i][k] \in Trailing
         /\ \A k \in 1 .. CRC_LEN :
              Telegrams[i][Bang(i) + k] = FormatCrc(MeterCrc(Bodies[i]))[k]
<1> DEFINE body == Bodies[i]
           w == Frame(body)
           digits == FormatCrc(MeterCrc(body))
           s == digits \o <<"CR", "LF">>
           t == w \o s
<1>1. body \in Seq(Byte \ {"!"}) /\ Len(body) \in Nat
  BY MeterAssumption
<1>2. /\ digits \in Seq(ToSet(UpperHex)) /\ Len(digits) = CRC_LEN
  BY MeterAssumption, UpperDigitsAre DEF FormatCrc
<1>3. CRC_LEN \in Nat
  BY CrcLenAssumption
<1>4. /\ w \in Seq(Byte) /\ Len(w) = Len(body) + 2 /\ w[1] = "/" /\ w[Len(w)] = "!"
      /\ \A k \in 2 .. Len(body) + 1 : w[k] = body[k - 1]
  <2>1. "/" \in Byte /\ "!" \in Byte /\ body \in Seq(Byte)
    BY <1>1, ByteAssumption
  <2>2. w \in Seq(Byte) /\ Len(w) = Len(body) + 2 /\ w[1] = "/" /\ w[Len(w)] = "!"
        /\ SubSeq(w, 2, Len(w) - 1) = body
    BY <2>1, FrameBody DEF Frame
  <2> HIDE DEF w
  <2>3. \A k \in 2 .. Len(body) + 1 : SubSeq(w, 2, Len(w) - 1)[k - 1] = w[k]
    BY <1>1, <2>2
  <2>4. QED
    BY <2>2, <2>3
<1> HIDE DEF w, digits, body
<1>5. /\ s \in Seq(Trailing) /\ Len(s) = CRC_LEN + 2
      /\ \A k \in 1 .. CRC_LEN : s[k] = digits[k]
  <2>1. digits \in Seq(Trailing) /\ <<"CR", "LF">> \in Seq(Trailing)
    BY <1>2 DEF Trailing, EndOfLine
  <2>2. QED
    BY <1>2, <1>3, <2>1
<1> HIDE DEF s
<1>6. Trailing \subseteq Byte
  BY MeterAssumption DEF Trailing
<1>7. /\ t \in Seq(Byte) /\ Len(t) = Len(w) + Len(s)
      /\ \A k \in 1 .. Len(w) : t[k] = w[k]
      /\ \A k \in Len(w) + 1 .. Len(w) + Len(s) : t[k] = s[k - Len(w)]
  <2>1. w \in Seq(Byte) /\ s \in Seq(Byte) /\ Len(w) \in Nat /\ Len(s) \in Nat
    BY <1>4, <1>5, <1>6
  <2>2. QED
    BY <2>1
<1>8. Telegrams[i] = t
  <2>1. Telegrams[i] = (w \o digits) \o <<"CR", "LF">>
    BY DEF Telegrams, Telegram, w, digits, body
  <2>2. digits \in Seq(Byte) /\ <<"CR", "LF">> \in Seq(Byte)
    BY <1>2, <1>6 DEF Trailing, EndOfLine
  <2>3. QED
    BY <1>4, <2>1, <2>2, ConcatAssociative DEF s
<1> HIDE DEF t
<1>9. Bang(i) = Len(w) /\ Behind = Len(s) /\ Len(w) \in Nat /\ Len(s) \in Nat /\ Len(w) >= 2
  BY <1>1, <1>3, <1>4, <1>5 DEF Bang, Behind, body
<1>10. /\ t[1] = "/" /\ t[Len(w)] = "!"
       /\ \A k \in 2 .. Len(w) - 1 : t[k] = body[k - 1]
  <2>1. 1 \in 1 .. Len(w) /\ Len(w) \in 1 .. Len(w) /\ Len(w) - 1 = Len(body) + 1
    BY <1>1, <1>4, <1>9
  <2>2. t[1] = "/" /\ t[Len(w)] = "!"
    BY <1>4, <1>7, <2>1
  <2>3. \A k \in 2 .. Len(w) - 1 : k \in 1 .. Len(w)
    BY <1>9
  <2>4. \A k \in 2 .. Len(w) - 1 : t[k] = w[k]
    BY <1>7, <2>3
  <2>5. QED
    BY <1>4, <2>1, <2>2, <2>4
<1>11. \A k \in Len(w) + 1 .. Len(w) + Len(s) : t[k] \in Trailing
  BY <1>5, <1>7, <1>9
<1>12. \A k \in 1 .. CRC_LEN : t[Len(w) + k] = digits[k]
  BY <1>3, <1>5, <1>7, <1>9
<1>13. QED
  BY <1>1, <1>7, <1>8, <1>9, <1>10, <1>11, <1>12 DEF body, digits

\* No byte behind the '!' is taken for a start or an end.
LEMMA TrailingIs ==
  \A c \in Trailing : c # "/" /\ c # "!" /\ c \in HexDigit \cup EndOfLine
BY PrintedValues DEF Trailing, EndOfLine, HexDigit

\* Only the '!' of a telegram is one.
LEMMA BytesOfTelegram ==
  ASSUME NEW i \in DOMAIN Bodies, NEW k \in 1 .. Len(Telegrams[i]), k # Bang(i)
  PROVE  Telegrams[i][k] # "!"
<1>1. Len(Telegrams[i]) = Bang(i) + Behind /\ Bang(i) = Len(Bodies[i]) + 2 /\ Len(Bodies[i]) \in Nat
  BY TelegramIs DEF Bang
<1>2. Behind \in Nat
  BY CrcLenAssumption DEF Behind
<1>3. CASE k = 1
  BY <1>3, TelegramIs
<1>4. CASE k \in 2 .. Bang(i) - 1
  <2>1. Telegrams[i][k] = Bodies[i][k - 1] /\ Bodies[i] \in Seq(Byte \ {"!"})
    BY <1>4, TelegramIs
  <2>2. k - 1 \in 1 .. Len(Bodies[i])
    BY <1>1, <1>4
  <2>3. QED
    BY <2>1, <2>2, ElementOfSeq
<1>5. CASE k \in Bang(i) + 1 .. Bang(i) + Behind
  BY <1>5, TelegramIs, TrailingIs
<1>6. QED
  BY <1>1, <1>2, <1>3, <1>4, <1>5

(***************************************************************************)
(* The reader in its place                                                 *)
(***************************************************************************)
\* Every variable of the meter, the line and the sketch keeps its type; a
\* burst is a disturbance of the telegram on its way.
LinkTypeOK ==
  /\ turn \in DOMAIN Bodies /\ at \in 0 .. Len(Telegrams[turn])
  /\ faults \in Nat /\ burst \in BOOLEAN
  /\ burst => faults > 0 /\ at > 0
  /\ missed \in Nat

\* The sketch asks for telegrams before anything else, and the polling one
\* never again.
SketchInv ==
  /\ app_pc = "setup" => state = "DISABLED_STATE" /\ pc = "app"
  /\ sketch = "poll" => app_pc # "enable"

\* What the sketch, the meter and the line do is something the reader may be
\* faced with (P1Reader), byte for byte and call for call.
LEMMA LinkStepIsStep == LinkTypeOK /\ [LinkNext]_allVars => [Next]_vars
<1> SUFFICES ASSUME LinkTypeOK, [LinkNext]_allVars PROVE [Next]_vars
  OBVIOUS
<1>1. CASE BeginTelegram
  BY <1>1 DEF BeginTelegram
<1>2. CASE SendByte
  <2>1. at \in 1 .. Len(Telegrams[turn]) /\ Telegrams[turn] \in Seq(Byte)
    BY <1>2, TelegramIs DEF SendByte, Advance, LinkTypeOK
  <2>2. Telegrams[turn][at] \in Byte
    BY <2>1, ElementOfSeq
  <2>3. QED
    BY <1>2, <2>2 DEF SendByte, Next
<1>3. CASE LoseByte
  BY <1>3 DEF LoseByte
<1>4. ASSUME NEW c \in Noise, GarbleByte(c) PROVE Next
  BY <1>4, NoiseAssumption DEF GarbleByte, Next
<1>5. CASE Setup \/ EnableAgain
  BY <1>5, TRUE \in BOOLEAN, FALSE \in BOOLEAN DEF Setup, EnableAgain, Request, Next
<1>6. CASE SketchCallsLoop
  BY <1>6 DEF SketchCallsLoop, Next
<1>7. CASE ParseTelegram
  BY <1>7, BoundAssumption DEF ParseTelegram, Next
<1>8. CASE NotYetAgain \/ NothingToParse
  BY <1>8 DEF NotYetAgain, NothingToParse, Continue
<1>9. CASE ReaderStep
  BY <1>9 DEF ReaderStep, Next
<1>10. CASE UNCHANGED allVars
  BY <1>10 DEF allVars
<1>11. QED
  BY <1>1, <1>2, <1>3, <1>4, <1>5, <1>6, <1>7, <1>8, <1>9, <1>10 DEF LinkNext, Sketch

\* The sketch and the reader leave the meter and the line alone.
LEMMA OtherSteps ==
  ASSUME Sketch \/ EnableAgain \/ ReaderStep \/ UNCHANGED allVars
  PROVE  /\ UNCHANGED <<turn, at, faults, burst, sketch>>
         /\ missed' = missed \/ missed' = 0
<1>1. CASE Setup \/ EnableAgain
  BY <1>1 DEF Setup, EnableAgain, Request, meter, line
<1>2. CASE SketchCallsLoop
  BY <1>2 DEF SketchCallsLoop, meter, line
<1>3. CASE NotYetAgain \/ NothingToParse
  BY <1>3 DEF NotYetAgain, NothingToParse, Continue, meter, line
<1>4. CASE ParseTelegram
  BY <1>4 DEF ParseTelegram, meter, line
<1>5. CASE ReaderStep
  BY <1>5 DEF ReaderStep, meter, line
<1>6. CASE UNCHANGED allVars
  BY <1>6 DEF allVars, link, meter, line
<1>7. QED
  BY <1>1, <1>2, <1>3, <1>4, <1>5, <1>6 DEF Sketch

\* The meter sends some telegram or other.
LEMMA BodiesAre == Len(Bodies) \in Nat \ {0} /\ DOMAIN Bodies = 1 .. Len(Bodies)
BY MeterAssumption

\* A telegram has a byte to begin with.
LEMMA TelegramLength ==
  ASSUME NEW i \in DOMAIN Bodies
  PROVE  /\ Bang(i) \in Nat /\ Bang(i) >= 2 /\ Behind \in Nat /\ Behind >= 3
         /\ Behind = CRC_LEN + 2 /\ Len(Telegrams[i]) = Bang(i) + Behind
         /\ Len(Telegrams[i]) \in Nat
<1>1. Len(Bodies[i]) \in Nat /\ Len(Telegrams[i]) = Bang(i) + Behind
  BY TelegramIs
<1>2. QED
  BY <1>1, CrcLenAssumption DEF Bang, Behind

\* The meter goes from byte to byte and from telegram to telegram.
LEMMA AdvanceTypes ==
  ASSUME LinkTypeOK, NEW arrived \in BOOLEAN, Advance(arrived)
  PROVE  /\ turn' \in DOMAIN Bodies /\ at' \in 0 .. Len(Telegrams[turn'])
         /\ missed' \in Nat
         /\ at \in 1 .. Len(Telegrams[turn])
         /\ at < Len(Telegrams[turn]) => at' = at + 1 /\ turn' = turn
         /\ ~(at < Len(Telegrams[turn])) => at = Len(Telegrams[turn]) /\ at' = 0
<1>1. /\ turn \in DOMAIN Bodies /\ at \in 0 .. Len(Telegrams[turn]) /\ at > 0
      /\ Len(Telegrams[turn]) \in Nat
  BY TelegramLength DEF LinkTypeOK, Advance
<1>2. missed' \in Nat
  BY DEF Advance, LinkTypeOK
<1>3. CASE at < Len(Telegrams[turn])
  <2>1. at' = at + 1 /\ turn' = turn
    BY <1>3 DEF Advance
  <2>2. QED
    BY <1>1, <1>2, <1>3, <2>1
<1>4. CASE ~(at < Len(Telegrams[turn]))
  <2>1. at' = 0 /\ turn' = (turn % Len(Bodies)) + 1
    BY <1>4 DEF Advance
  <2>2. turn' \in DOMAIN Bodies
    BY <1>1, <2>1, BodiesAre
  <2>3. Len(Telegrams[turn']) \in Nat
    BY <2>2, TelegramLength
  <2>4. QED
    BY <1>1, <1>2, <1>4, <2>1, <2>2, <2>3
<1>5. QED
  BY <1>3, <1>4

\* Every step keeps the types.
LEMMA LinkTypeStep == LinkTypeOK /\ [LinkNext]_allVars => LinkTypeOK'
<1> SUFFICES ASSUME LinkTypeOK, [LinkNext]_allVars PROVE LinkTypeOK'
  OBVIOUS
<1>1. ASSUME NEW arrived \in BOOLEAN, Advance(arrived), faults' \in Nat, burst' \in BOOLEAN,
             burst' => faults' > 0 /\ at' # 0
      PROVE  LinkTypeOK'
  <2>1. /\ turn' \in DOMAIN Bodies /\ at' \in 0 .. Len(Telegrams[turn'])
        /\ missed' \in Nat /\ Len(Telegrams[turn']) \in Nat
    BY <1>1, AdvanceTypes, TelegramLength
  <2>2. QED
    BY <1>1, <2>1 DEF LinkTypeOK
<1>2. CASE SendByte
  BY <1>1, <1>2, TRUE \in BOOLEAN DEF SendByte, LinkTypeOK
<1>3. CASE LoseByte
  <2>1. Advance(FALSE)
    BY <1>3, Zenon DEF LoseByte
  <2>2. burst' \in BOOLEAN /\ (burst' => at' # 0)
    BY <1>3, Zenon DEF LoseByte
  <2>3. faults' = (IF burst THEN faults ELSE faults + 1)
    BY <1>3, Zenon DEF LoseByte
  <2>4. faults' \in Nat /\ faults' > 0
    BY <2>3 DEF LinkTypeOK
  <2>5. QED
    BY <1>1, <2>1, <2>2, <2>4, FALSE \in BOOLEAN
<1>4. ASSUME NEW c \in Noise, GarbleByte(c) PROVE LinkTypeOK'
  <2>1. Advance(FALSE) /\ burst' = FALSE /\ faults' = faults + 1
    BY <1>4, Zenon DEF GarbleByte
  <2>2. faults' \in Nat
    BY <2>1 DEF LinkTypeOK
  <2>3. QED
    BY <1>1, <2>1, <2>2, FALSE \in BOOLEAN
<1>5. CASE BeginTelegram
  <2>1. Len(Telegrams[turn]) \in Nat /\ Len(Telegrams[turn]) >= 1
    BY TelegramLength DEF LinkTypeOK
  <2>2. QED
    BY <1>5, <2>1 DEF BeginTelegram, LinkTypeOK, line
<1>6. ASSUME UNCHANGED <<turn, at, faults, burst>>, missed' \in Nat PROVE LinkTypeOK'
  BY <1>6 DEF LinkTypeOK
<1>7. CASE Sketch \/ EnableAgain \/ ReaderStep \/ UNCHANGED allVars
  <2>1. UNCHANGED <<turn, at, faults, burst>> /\ (missed' = missed \/ missed' = 0)
    BY <1>7, OtherSteps
  <2>2. missed' \in Nat
    BY <2>1 DEF LinkTypeOK
  <2>3. QED
    BY <1>6, <2>1, <2>2
<1>8. QED
  BY <1>2, <1>3, <1>4, <1>5, <1>7 DEF LinkNext

\* The sketch keeps its order of calls.
LEMMA SketchStep == SketchInv /\ [LinkNext]_allVars => SketchInv'
<1> SUFFICES ASSUME SketchInv, [LinkNext]_allVars PROVE SketchInv'
  OBVIOUS
<1>1. CASE UNCHANGED <<sketch, app_pc>>
  <2>1. CASE ReaderStep
    BY <1>1, <2>1 DEF ReaderStep, Loop, LoopIdle, LoopToss, Reads, StartTelegram, EndMarker,
       StoreByte, AtSuffix, SuffixLineEnd, SuffixUnexpected, SuffixIncomplete, SuffixCrc,
       AtCrc, SketchInv
  <2>2. CASE UNCHANGED <<state, pc>>
    BY <1>1, <2>2 DEF SketchInv
  <2>3. CASE Sketch \/ EnableAgain
    BY <1>1, <2>3 DEF Sketch, EnableAgain, Setup, Request, SketchCallsLoop, NotYetAgain,
       NothingToParse, Continue, ParseTelegram, At, SketchInv
  <2>4. QED
    BY <2>1, <2>2, <2>3 DEF LinkNext, BeginTelegram, SendByte, LoseByte, GarbleByte, Arrive,
       control, vars, allVars
<1>2. CASE Setup
  BY <1>2 DEF Setup, Request, Enable, SketchInv
<1>3. CASE SketchCallsLoop
  BY <1>3 DEF SketchCallsLoop, SketchInv
<1>4. CASE EnableAgain
  BY <1>4 DEF EnableAgain, Request, At, SketchInv
<1>5. CASE NotYetAgain \/ NothingToParse \/ ParseTelegram
  BY <1>5 DEF NotYetAgain, NothingToParse, Continue, ParseTelegram, SketchInv
<1>6. QED
  BY <1>1, <1>2, <1>3, <1>4, <1>5 DEF LinkNext, Sketch, BeginTelegram, SendByte, LoseByte,
     GarbleByte, Advance, ReaderStep, allVars, link

(***************************************************************************)
(* The inductive invariant of the buffer's bound: the bytes between two    *)
(* '!', those in the buffer with those that are queued                     *)
(***************************************************************************)
\* Nobody calls enable() in the middle of a telegram.
LeftAlone == sketch = "poll" \/ "enable" \notin MidTelegram

LongestTelegram ==
  CHOOSE n \in {Len(Telegrams[i]) : i \in DOMAIN Bodies} :
    \A i \in DOMAIN Bodies : Len(Telegrams[i]) <= n

\* So many telegrams may have run on into one another.
Joined(n) == n * LongestTelegram

\* What has been stored of the telegram that is being received.
Held == IF state = "READING_STATE" THEN Len(buffer) ELSE 0

\* What has been sent, and may have come through, since the last '!' that
\* did: up to now every disturbance cost one '!', but a burst that goes on
\* makes up for it with the bytes it takes.
Trail ==
  IF at = 0 THEN Joined(faults) + Behind
  ELSE IF burst THEN Joined(faults - 1) + Behind + (at - 1)
  ELSE IF at - 1 < Bang(turn) THEN Joined(faults) + Behind + (at - 1)
  ELSE Joined(faults) + (at - 1 - Bang(turn))

\* No '!' among the bytes of q behind the first a and up to the b-th: they
\* are limit bytes at most, with the held ones if they begin the queue, and
\* trail bytes if they end it.
Bounded(limit, trail, q, held) ==
  \A a, b \in 0 .. Len(q) :
    a <= b /\ (\A i \in a + 1 .. b : q[i] # "!") =>
      LET run == (IF a = 0 THEN held ELSE 0) + (b - a)
      IN  run <= limit /\ (b = Len(q) => run <= trail)

RunsBounded ==
  /\ Len(buffer) <= Joined(faults + 1)
  /\ Bounded(Joined(faults + 1), Trail, rx, Held)

RunInv == LeftAlone => RunsBounded

(***************************************************************************)
(* The runs of a queue                                                     *)
(***************************************************************************)
\* A byte that is no '!' makes the last run longer ...
LEMMA RunGrows ==
  ASSUME NEW q \in Seq(Byte), NEW c \in Byte, c # "!", NEW held \in Nat,
         NEW limit \in Nat, NEW trail \in Nat, NEW limit2 \in Nat, NEW trail2 \in Nat,
         Bounded(limit, trail, q, held),
         limit <= limit2, trail + 1 <= trail2, trail + 1 <= limit2
  PROVE  Bounded(limit2, trail2, Append(q, c), held)
<1> DEFINE n == Len(q)
           u == Append(q, c)
<1>1. /\ Len(u) = n + 1 /\ n \in Nat /\ u[n + 1] = c
      /\ \A i \in 1 .. n : u[i] = q[i]
  OBVIOUS
<1> SUFFICES ASSUME NEW a \in 0 .. n + 1, NEW b \in 0 .. n + 1, a <= b,
                    \A i \in a + 1 .. b : u[i] # "!"
             PROVE  LET run == (IF a = 0 THEN held ELSE 0) + (b - a)
                    IN  run <= limit2 /\ (b = n + 1 => run <= trail2)
  BY <1>1 DEF Bounded
<1> HIDE DEF u
<1>2. CASE b <= n
  <2>1. a \in 0 .. n /\ b \in 0 .. n /\ \A i \in a + 1 .. b : q[i] # "!"
    BY <1>1, <1>2
  <2>2. QED
    BY <1>1, <1>2, <2>1 DEF Bounded
<1>3. CASE b = n + 1 /\ a <= n
  <2>1. a \in 0 .. n /\ n \in 0 .. n /\ \A i \in a + 1 .. n : q[i] # "!"
    BY <1>1, <1>3
  <2>2. (IF a = 0 THEN held ELSE 0) + (n - a) <= trail
    BY <1>1, <1>3, <2>1 DEF Bounded
  <2>3. QED
    BY <1>1, <1>3, <2>1, <2>2
<1>4. CASE a = n + 1 /\ b = n + 1
  BY <1>1, <1>4
<1>5. QED
  BY <1>1, <1>2, <1>3, <1>4

\* ... and a '!' begins the next one.
LEMMA RunEnds ==
  ASSUME NEW q \in Seq(Byte), "!" \in Byte, NEW held \in Nat,
         NEW limit \in Nat, NEW trail \in Nat, NEW limit2 \in Nat, NEW trail2 \in Nat,
         Bounded(limit, trail, q, held), limit <= limit2
  PROVE  Bounded(limit2, trail2, Append(q, "!"), held)
<1> DEFINE n == Len(q)
           u == Append(q, "!")
<1>1. /\ Len(u) = n + 1 /\ n \in Nat /\ u[n + 1] = "!"
      /\ \A i \in 1 .. n : u[i] = q[i]
  OBVIOUS
<1> SUFFICES ASSUME NEW a \in 0 .. n + 1, NEW b \in 0 .. n + 1, a <= b,
                    \A i \in a + 1 .. b : u[i] # "!"
             PROVE  LET run == (IF a = 0 THEN held ELSE 0) + (b - a)
                    IN  run <= limit2 /\ (b = n + 1 => run <= trail2)
  BY <1>1 DEF Bounded
<1> HIDE DEF u
<1>2. CASE b <= n
  <2>1. a \in 0 .. n /\ b \in 0 .. n /\ \A i \in a + 1 .. b : q[i] # "!"
    BY <1>1, <1>2
  <2>2. QED
    BY <1>1, <1>2, <2>1 DEF Bounded
<1>3. CASE b = n + 1
  <2>1. a = n + 1
    BY <1>1, <1>3
  <2>2. QED
    BY <1>1, <1>3, <2>1
<1>4. QED
  BY <1>1, <1>2, <1>3

\* The first byte is read: a '!' ends what is held, another byte may be held.
LEMMA RunRead ==
  ASSUME NEW q \in Seq(Byte), q # <<>>, NEW held \in Nat, NEW held2 \in Nat,
         NEW limit \in Nat, NEW trail \in Nat, Bounded(limit, trail, q, held),
         held2 <= held + 1, q[1] = "!" => held2 = 0
  PROVE  Bounded(limit, trail, Tail(q), held2)
<1> DEFINE n == Len(q)
           u == Tail(q)
<1>1. /\ Len(u) = n - 1 /\ n \in Nat /\ n >= 1
      /\ \A i \in 1 .. n - 1 : u[i] = q[i + 1]
  BY EmptySeq
<1> SUFFICES ASSUME NEW a \in 0 .. n - 1, NEW b \in 0 .. n - 1, a <= b,
                    \A i \in a + 1 .. b : u[i] # "!"
             PROVE  LET run == (IF a = 0 THEN held2 ELSE 0) + (b - a)
                    IN  run <= limit /\ (b = n - 1 => run <= trail)
  BY <1>1 DEF Bounded
<1> HIDE DEF u
<1>2. \A i \in a + 2 .. b + 1 : q[i] # "!"
  <2>1. \A i \in a + 2 .. b + 1 : i - 1 \in a + 1 .. b /\ i - 1 \in 1 .. n - 1 /\ (i - 1) + 1 = i
    BY <1>1
  <2>2. QED
    BY <1>1, <2>1
<1>3. /\ a + 1 \in 0 .. n /\ b + 1 \in 0 .. n /\ a + 1 <= b + 1 /\ a + 1 # 0
      /\ \A i \in (a + 1) + 1 .. b + 1 : q[i] # "!"
  BY <1>1, <1>2
<1>4. (b + 1) - (a + 1) <= limit /\ (b + 1 = n => (b + 1) - (a + 1) <= trail)
  BY <1>1, <1>3 DEF Bounded
<1>5. CASE a # 0 \/ q[1] = "!"
  BY <1>1, <1>4, <1>5
<1>6. CASE a = 0 /\ q[1] # "!"
  <2>1. /\ 0 \in 0 .. n /\ b + 1 \in 0 .. n /\ 0 <= b + 1
        /\ \A i \in 0 + 1 .. b + 1 : q[i] # "!"
    BY <1>1, <1>2, <1>6
  <2>2. held + (b + 1) <= limit /\ (b + 1 = n => held + (b + 1) <= trail)
    BY <1>1, <2>1 DEF Bounded
  <2>3. QED
    BY <1>1, <1>6, <2>2
<1>7. QED
  BY <1>5, <1>6

\* The first n bytes are cut off: nothing is held any more.
LEMMA RunCut ==
  ASSUME NEW q \in Seq(Byte), NEW m \in Nat, m <= Len(q), NEW held \in Nat,
         NEW limit \in Nat, NEW trail \in Nat, Bounded(limit, trail, q, held)
  PROVE  Bounded(limit, trail, SubSeq(q, m + 1, Len(q)), 0)
<1> DEFINE n == Len(q)
           u == SubSeq(q, m + 1, n)
<1>1. /\ Len(u) = n - m /\ n \in Nat
      /\ \A i \in 1 .. n - m : u[i] = q[i + m]
  OBVIOUS
<1> SUFFICES ASSUME NEW a \in 0 .. n - m, NEW b \in 0 .. n - m, a <= b,
                    \A i \in a + 1 .. b : u[i] # "!"
             PROVE  LET run == (IF a = 0 THEN 0 ELSE 0) + (b - a)
                    IN  run <= limit /\ (b = n - m => run <= trail)
  BY <1>1 DEF Bounded
<1> HIDE DEF u
<1>2. \A i \in a + m + 1 .. b + m : q[i] # "!"
  <2>1. \A i \in a + m + 1 .. b + m : i - m \in a + 1 .. b /\ i - m \in 1 .. n - m /\ (i - m) + m = i
    BY <1>1
  <2>2. QED
    BY <1>1, <2>1
<1>3. a + m \in 0 .. n /\ b + m \in 0 .. n /\ a + m <= b + m
  BY <1>1
<1>4. (b + m) - (a + m) <= limit /\ (b + m = n => (b + m) - (a + m) <= trail)
  BY <1>1, <1>2, <1>3 DEF Bounded
<1>5. QED
  BY <1>1, <1>4

\* A greater bound holds as well, and so it does if less is held.
LEMMA RunWeaker ==
  ASSUME NEW q \in Seq(Byte), NEW held \in Nat, NEW held2 \in Nat,
         NEW limit \in Nat, NEW trail \in Nat, NEW limit2 \in Nat, NEW trail2 \in Nat,
         Bounded(limit, trail, q, held), held2 <= held, limit <= limit2, trail <= trail2
  PROVE  Bounded(limit2, trail2, q, held2)
<1>1. Len(q) \in Nat
  OBVIOUS
<1>2. QED
  BY <1>1 DEF Bounded

(***************************************************************************)
(* The bound of the buffer                                                 *)
(***************************************************************************)
\* There is a longest telegram, and it is no shorter than the one on its way.
LEMMA LongestIs ==
  /\ LongestTelegram \in Nat
  /\ \E i \in DOMAIN Bodies : LongestTelegram = Len(Telegrams[i])
  /\ \A i \in DOMAIN Bodies : Len(Telegrams[i]) <= LongestTelegram
<1> DEFINE n == Len(Bodies)
           length(i) == Len(Telegrams[i])
           Longest(i, m) == \A j \in 1 .. m : length(j) <= length(i)
           S == {m \in 0 .. n : \E i \in 1 .. n : Longest(i, m)}
<1>1. n \in Nat \ {0} /\ DOMAIN Bodies = 1 .. n /\ \A i \in 1 .. n : length(i) \in Nat
  BY BodiesAre, TelegramLength
<1> HIDE DEF n, length
<1>2. 0 \in S
  <2>1. 1 \in 1 .. n /\ Longest(1, 0) /\ 0 \in 0 .. n
    BY <1>1
  <2>2. QED
    BY <2>1
<1>3. ASSUME NEW m \in 0 .. n - 1, m \in S PROVE m + 1 \in S
  <2>1. PICK i \in 1 .. n : Longest(i, m)
    BY <1>3
  <2>2. m + 1 \in 1 .. n /\ m + 1 \in 0 .. n
    BY <1>1
  <2>3. CASE length(m + 1) <= length(i)
    <3>1. Longest(i, m + 1)
      BY <2>1, <2>2, <2>3
    <3>2. QED
      BY <2>2, <3>1
  <2>4. CASE ~(length(m + 1) <= length(i))
    <3>1. length(i) \in Nat /\ length(m + 1) \in Nat /\ \A j \in 1 .. m : length(j) \in Nat
      BY <1>1, <2>2
    <3>2. Longest(m + 1, m + 1)
      BY <2>1, <2>2, <2>4, <3>1
    <3>3. QED
      BY <2>2, <3>2
  <2>5. QED
    BY <2>3, <2>4
<1>4. n \in S
  <2>1. \A m \in 0 .. n - 1 : m \in S => m + 1 \in S
    BY <1>3
  <2> HIDE DEF S
  <2>2. 0 .. n \subseteq S
    BY <1>1, <1>2, <2>1, UpTo
  <2>3. QED
    BY <1>1, <2>2
<1>5. PICK i \in 1 .. n : Longest(i, n)
  BY <1>4
<1> DEFINE Is(k) == \A j \in DOMAIN Bodies : Len(Telegrams[j]) <= k
<1>6. Is(Len(Telegrams[i])) /\ Len(Telegrams[i]) \in {Len(Telegrams[j]) : j \in DOMAIN Bodies}
  BY <1>1, <1>5 DEF length
<1>7. LongestTelegram = CHOOSE k \in {Len(Telegrams[j]) : j \in DOMAIN Bodies} : Is(k)
  BY DEF LongestTelegram
<1> HIDE DEF Is
<1>8. LongestTelegram \in {Len(Telegrams[j]) : j \in DOMAIN Bodies} /\ Is(LongestTelegram)
  BY <1>6, <1>7
<1>9. QED
  BY <1>8, TelegramLength DEF Is

\* One telegram more.
LEMMA JoinedIs ==
  ASSUME NEW n \in Nat
  PROVE  /\ Joined(n) \in Nat /\ Joined(n + 1) = Joined(n) + LongestTelegram
         /\ n > 0 => Joined(n) = Joined(n - 1) + LongestTelegram /\ Joined(n - 1) \in Nat
<1>1. \A l, k \in Nat : k * l \in Nat /\ (k + 1) * l = k * l + l
  OBVIOUS
<1>2. n > 0 => n - 1 \in Nat /\ (n - 1) + 1 = n
  OBVIOUS
<1>3. LongestTelegram \in Nat
  BY LongestIs
<1>4. QED
  BY <1>1, <1>2, <1>3 DEF Joined

(***************************************************************************)
(* What is proved of the reader holds in its place                         *)
(***************************************************************************)
\* In its place, the reader behaves as P1Reader says: every property proved
\* of every application and every byte holds of the three sketches, of the
\* meter's telegrams and of the disturbed line (the calls of the examples and
\* of the README, P1Reader).
THEOREM ReaderInPlace == LinkSpec => Spec /\ []TypeOK /\ []LinkTypeOK /\ []SketchInv
<1>1. LinkInit => Init /\ LinkTypeOK /\ SketchInv
  <2> SUFFICES ASSUME LinkInit PROVE LinkTypeOK /\ SketchInv
    BY DEF LinkInit
  <2>1. 1 \in DOMAIN Bodies /\ turn = 1
    BY BodiesAre DEF LinkInit
  <2>2. Len(Telegrams[1]) \in Nat
    BY <2>1, TelegramLength
  <2>3. at \in 0 .. Len(Telegrams[turn])
    BY <2>1, <2>2 DEF LinkInit
  <2>4. LinkTypeOK
    BY <2>1, <2>3 DEF LinkInit, LinkTypeOK
  <2>5. QED
    BY <2>4 DEF LinkInit, Init, SketchInv
<1>2. QED
  BY <1>1, LinkStepIsStep, LinkTypeStep, SketchStep, TypeCorrect, PTL DEF LinkSpec, Spec

\* Nobody calls enable() while a telegram is received.
LEMMA EnablesBetween ==
  ASSUME LeftAlone, SketchInv, [LinkNext]_allVars, NEW o \in BOOLEAN, Enable(o)
  PROVE  ~Receiving
<1>1. state' = "WAITING_STATE" /\ pc = "app" /\ pc' = "app" /\ May("enable")
  BY DEF Enable, May, control
<1>2. CASE UNCHANGED state
  BY <1>1, <1>2 DEF Receiving
<1>3. CASE Setup
  BY <1>3 DEF Setup, At, SketchInv, Receiving
<1>4. CASE EnableAgain
  BY <1>1, <1>4 DEF EnableAgain, At, SketchInv, LeftAlone, May
<1>5. CASE ReaderStep
  BY <1>1, <1>5 DEF ReaderStep, Loop, LoopIdle, LoopToss, Reads, StartTelegram, EndMarker,
     StoreByte, AtSuffix, SuffixLineEnd, SuffixUnexpected, SuffixIncomplete, SuffixCrc, AtCrc
<1>6. QED
  BY <1>2, <1>3, <1>4, <1>5 DEF LinkNext, Sketch, BeginTelegram, SendByte, LoseByte,
     GarbleByte, Arrive, SketchCallsLoop, CallLoop, NotYetAgain, NothingToParse, Continue,
     ParseTelegram, Parse, vars, allVars

\* The sketch stays the same one.
LEMMA SameSketch == [LinkNext]_allVars => UNCHANGED sketch
BY DEF LinkNext, Sketch, BeginTelegram, SendByte, LoseByte, GarbleByte, Advance, Setup,
   EnableAgain, Request, SketchCallsLoop, NotYetAgain, NothingToParse, Continue, ParseTelegram,
   ReaderStep, allVars, link

\* The buffer follows the state of a reader that is left alone.
LEMMA LinkBufferStep ==
  ASSUME TypeOK, LinkTypeOK, SketchInv, LeftAlone => BufferFollowsState, [LinkNext]_allVars
  PROVE  (LeftAlone => BufferFollowsState)'
<1> SUFFICES ASSUME LeftAlone' PROVE BufferFollowsState'
  OBVIOUS
<1>1. LeftAlone
  BY SameSketch DEF LeftAlone
<1>2. [Next]_vars
  BY LinkStepIsStep
<1>3. ASSUME NEW o \in BOOLEAN, Enable(o) PROVE ~Receiving
  BY <1>1, <1>3, EnablesBetween
<1>4. QED
  BY <1>1, <1>2, <1>3, BufferStep

\* In the hands of the polling sketch of the README, and of every sketch that
\* does not call enable() in the middle of a telegram, nothing unannounced is
\* left in the buffer between two telegrams (P1Reader).
THEOREM BufferFollowsStateInPlace == LinkSpec => [](LeftAlone => BufferFollowsState)
<1>1. LinkInit => (LeftAlone => BufferFollowsState)
  BY DEF LinkInit, Init, BufferFollowsState, Receiving
<1>2. TypeOK /\ LinkTypeOK /\ SketchInv /\ (LeftAlone => BufferFollowsState) /\ [LinkNext]_allVars
      => (LeftAlone => BufferFollowsState)'
  BY LinkBufferStep
<1>3. QED
  BY <1>1, <1>2, ReaderInPlace, PTL DEF LinkSpec

(***************************************************************************)
(* The bound of the buffer, step by step                                   *)
(***************************************************************************)
\* What the arithmetic of the trail rests on.
LEMMA TrailFacts ==
  ASSUME LinkTypeOK
  PROVE  /\ faults \in Nat /\ at \in Nat /\ at <= Len(Telegrams[turn])
         /\ Bang(turn) \in Nat /\ Bang(turn) >= 2 /\ Behind \in Nat /\ Behind >= 3
         /\ Len(Telegrams[turn]) = Bang(turn) + Behind
         /\ LongestTelegram \in Nat /\ Len(Telegrams[turn]) <= LongestTelegram
         /\ Joined(faults) \in Nat /\ Joined(faults + 1) = Joined(faults) + LongestTelegram
         /\ Joined(faults + 2) = Joined(faults) + LongestTelegram + LongestTelegram
         /\ burst => /\ Joined(faults) = Joined(faults - 1) + LongestTelegram
                     /\ Joined(faults - 1) \in Nat
<1>1. /\ turn \in DOMAIN Bodies /\ faults \in Nat /\ faults + 1 \in Nat
      /\ at \in 0 .. Len(Telegrams[turn]) /\ (burst => faults > 0)
  BY DEF LinkTypeOK
<1>2. /\ Joined(faults) \in Nat /\ Joined(faults + 1) = Joined(faults) + LongestTelegram
      /\ faults > 0 => /\ Joined(faults) = Joined(faults - 1) + LongestTelegram
                       /\ Joined(faults - 1) \in Nat
  BY <1>1, JoinedIs
<1>3. Joined((faults + 1) + 1) = Joined(faults + 1) + LongestTelegram
  BY <1>1, JoinedIs
<1>4. (faults + 1) + 1 = faults + 2
  BY <1>1
<1>5. /\ Bang(turn) \in Nat /\ Bang(turn) >= 2 /\ Behind \in Nat /\ Behind >= 3
      /\ Len(Telegrams[turn]) = Bang(turn) + Behind
  BY <1>1, TelegramLength
<1>6. LongestTelegram \in Nat /\ Len(Telegrams[turn]) <= LongestTelegram
  BY <1>1, LongestIs
<1>7. at \in Nat /\ at <= Len(Telegrams[turn])
  BY <1>1, <1>5
<1>8. Joined(faults + 2) = Joined(faults) + LongestTelegram + LongestTelegram
  BY <1>2, <1>3, <1>4
<1>9. QED
  BY <1>1, <1>2, <1>5, <1>6, <1>7, <1>8

\* The trail is a number of bytes, and one disturbance less accounts for it.
LEMMA TrailTypes ==
  ASSUME LinkTypeOK
  PROVE  /\ Trail \in Nat
         /\ at > 0 => Trail <= Joined(faults) + Behind + (at - 1)
<1>1. /\ at \in Nat
      /\ Bang(turn) \in Nat /\ Behind \in Nat
      /\ LongestTelegram \in Nat /\ Joined(faults) \in Nat
      /\ burst => /\ Joined(faults) = Joined(faults - 1) + LongestTelegram
                  /\ Joined(faults - 1) \in Nat
  BY TrailFacts
<1>2. CASE at = 0
  <2>1. Trail = Joined(faults) + Behind
    BY <1>2 DEF Trail
  <2>2. QED
    BY <1>1, <1>2, <2>1
<1>3. CASE at # 0 /\ burst
  <2>1. Trail = Joined(faults - 1) + Behind + (at - 1)
    BY <1>3 DEF Trail
  <2>2. QED
    BY <1>1, <1>3, <2>1
<1>4. CASE at # 0 /\ ~burst
  <2>1. Trail = IF at - 1 < Bang(turn) THEN Joined(faults) + Behind + (at - 1)
                ELSE Joined(faults) + (at - 1 - Bang(turn))
    BY <1>4 DEF Trail
  <2>2. QED
    BY <1>1, <1>4, <2>1
<1>5. QED
  BY <1>2, <1>3, <1>4

LEMMA TrailNext == LinkTypeOK' => (Trail \in Nat)'
<1>1. LinkTypeOK => Trail \in Nat
  BY TrailTypes
<1>2. QED
  BY <1>1, PTL

\* The numbers of a step of the meter: those of the trail, and what follows.
LEMMA ByteOfMeter ==
  ASSUME LinkTypeOK, NEW arrived \in BOOLEAN, Advance(arrived)
  PROVE  /\ at >= 1
         /\ \/ at < Bang(turn) + Behind /\ at' = at + 1 /\ turn' = turn
            \/ at = Bang(turn) + Behind /\ at' = 0
         /\ Trail \in Nat /\ Trail <= Joined(faults) + Behind + (at - 1)
<1>1. at > 0
  BY DEF Advance
<1>2. /\ at < Len(Telegrams[turn]) => at' = at + 1 /\ turn' = turn
      /\ ~(at < Len(Telegrams[turn])) => at = Len(Telegrams[turn]) /\ at' = 0
  BY AdvanceTypes
<1>3. at \in Nat /\ Len(Telegrams[turn]) = Bang(turn) + Behind
  BY TrailFacts
<1>4. Trail \in Nat /\ Trail <= Joined(faults) + Behind + (at - 1)
  BY <1>1, TrailTypes
<1>5. QED
  BY <1>1, <1>2, <1>3, <1>4

\* The trail behind a byte that came through, in whatever form.
LEMMA TrailBehind ==
  ASSUME LinkTypeOK, NEW arrived \in BOOLEAN, Advance(arrived), burst' = FALSE,
         faults' \in {faults, faults + 1}
  PROVE  Trail' = IF at' = 0 THEN Joined(faults') + Behind
                  ELSE IF at < Bang(turn) THEN Joined(faults') + Behind + at
                  ELSE Joined(faults') + (at - Bang(turn))
<1>1. at \in Nat
  BY TrailFacts
<1>2. CASE at' = at + 1 /\ turn' = turn
  <2>1. at' # 0 /\ at' - 1 = at
    BY <1>1, <1>2
  <2>2. QED
    BY <1>2, <2>1 DEF Trail
<1>3. CASE at' = 0
  BY <1>3 DEF Trail
<1>4. QED
  BY <1>2, <1>3, ByteOfMeter

\* A byte that comes through, no '!', makes the trail longer ...
LEMMA TrailGrows ==
  ASSUME LinkTypeOK, SendByte, at # Bang(turn)
  PROVE  Trail + 1 <= Trail' /\ Trail + 1 <= Joined(faults + 1)
<1>1. Advance(TRUE) /\ burst' = FALSE /\ faults' = faults
  BY DEF SendByte
<1>2. /\ at >= 1
      /\ \/ at < Bang(turn) + Behind /\ at' = at + 1
         \/ at = Bang(turn) + Behind /\ at' = 0
  BY <1>1, ByteOfMeter, TRUE \in BOOLEAN
<1>3. Trail' = IF at' = 0 THEN Joined(faults) + Behind
               ELSE IF at < Bang(turn) THEN Joined(faults) + Behind + at
               ELSE Joined(faults) + (at - Bang(turn))
  BY <1>1, TrailBehind, TRUE \in BOOLEAN
<1>4. Trail = IF burst THEN Joined(faults - 1) + Behind + (at - 1)
              ELSE IF at - 1 < Bang(turn) THEN Joined(faults) + Behind + (at - 1)
              ELSE Joined(faults) + (at - 1 - Bang(turn))
  <2>1. at # 0
    BY <1>1 DEF Advance
  <2>2. QED
    BY <2>1 DEF Trail
<1>5. /\ at \in Nat
      /\ Bang(turn) \in Nat /\ Bang(turn) >= 2 /\ Behind \in Nat /\ Behind >= 3
      /\ LongestTelegram \in Nat /\ Bang(turn) + Behind <= LongestTelegram
      /\ Joined(faults) \in Nat /\ Joined(faults + 1) = Joined(faults) + LongestTelegram
      /\ burst => /\ Joined(faults) = Joined(faults - 1) + LongestTelegram
                  /\ Joined(faults - 1) \in Nat
  BY TrailFacts
<1>6. burst \in BOOLEAN
  BY DEF LinkTypeOK
<1>7. CASE burst
  <2>1. Trail = Joined(faults - 1) + Behind + (at - 1)
    BY <1>4, <1>7
  <2>2. QED
    BY <1>2, <1>3, <1>5, <1>7, <2>1
<1>8. CASE ~burst /\ at < Bang(turn)
  <2>1. at - 1 < Bang(turn)
    BY <1>5, <1>8
  <2>2. Trail = Joined(faults) + Behind + (at - 1)
    BY <1>4, <1>8, <2>1
  <2>3. QED
    BY <1>2, <1>3, <1>5, <1>8, <2>2
<1>9. CASE ~burst /\ ~(at < Bang(turn))
  <2>1. ~(at - 1 < Bang(turn)) /\ at > Bang(turn)
    BY <1>5, <1>9
  <2>2. Trail = Joined(faults) + (at - 1 - Bang(turn))
    BY <1>4, <1>9, <2>1
  <2>3. Trail' = IF at' = 0 THEN Joined(faults) + Behind
                 ELSE Joined(faults) + (at - Bang(turn))
    BY <1>3, <1>9
  <2>4. QED
    BY <1>2, <1>5, <2>1, <2>2, <2>3
<1>10. QED
  BY <1>7, <1>8, <1>9

\* ... so does one that was garbled ...
LEMMA TrailGarbled ==
  ASSUME LinkTypeOK, NEW c \in Noise, GarbleByte(c)
  PROVE  Trail + 1 <= Trail' /\ Trail + 1 <= Joined(faults + 2)
<1>1. Advance(FALSE) /\ burst' = FALSE /\ faults' = faults + 1
  BY Zenon DEF GarbleByte
<1>2. /\ at >= 1 /\ (at < Bang(turn) + Behind \/ (at = Bang(turn) + Behind /\ at' = 0))
      /\ Trail \in Nat /\ Trail <= Joined(faults) + Behind + (at - 1)
  BY <1>1, ByteOfMeter, FALSE \in BOOLEAN
<1>3. Trail' = IF at' = 0 THEN Joined(faults + 1) + Behind
               ELSE IF at < Bang(turn) THEN Joined(faults + 1) + Behind + at
               ELSE Joined(faults + 1) + (at - Bang(turn))
  BY <1>1, TrailBehind, FALSE \in BOOLEAN
<1>4. /\ at \in Nat
      /\ Bang(turn) \in Nat /\ Behind \in Nat
      /\ LongestTelegram \in Nat /\ Bang(turn) + Behind <= LongestTelegram
      /\ Joined(faults) \in Nat /\ Joined(faults + 1) = Joined(faults) + LongestTelegram
      /\ Joined(faults + 2) = Joined(faults) + LongestTelegram + LongestTelegram
  BY TrailFacts
<1>5. QED
  BY <1>2, <1>3, <1>4

\* ... and one that is lost leaves room for the '!' that may be lost with it.
LEMMA TrailLost ==
  ASSUME LinkTypeOK, LoseByte
  PROVE  Trail <= Trail'
<1>1. /\ Advance(FALSE) /\ (burst' <=> at' # 0)
      /\ faults' = IF burst THEN faults ELSE faults + 1
  BY Zenon DEF LoseByte
<1>2. /\ at >= 1
      /\ \/ at < Bang(turn) + Behind /\ at' = at + 1
         \/ at = Bang(turn) + Behind /\ at' = 0
      /\ Trail \in Nat /\ Trail <= Joined(faults) + Behind + (at - 1)
  BY <1>1, ByteOfMeter, FALSE \in BOOLEAN
<1>3. /\ at \in Nat /\ faults \in Nat
      /\ Bang(turn) \in Nat /\ Behind \in Nat
      /\ LongestTelegram \in Nat /\ Bang(turn) + Behind <= LongestTelegram
      /\ Joined(faults) \in Nat /\ Joined(faults + 1) = Joined(faults) + LongestTelegram
      /\ burst => /\ Joined(faults) = Joined(faults - 1) + LongestTelegram
                  /\ Joined(faults - 1) \in Nat
  BY TrailFacts
<1>4. Trail' = IF at' = 0 THEN Joined(faults') + Behind
               ELSE Joined(faults' - 1) + Behind + (at' - 1)
  BY <1>1 DEF Trail
<1>5. CASE burst
  <2>1. at # 0 /\ faults' = faults
    BY <1>1, <1>5 DEF Advance
  <2>2. Trail = Joined(faults - 1) + Behind + (at - 1)
    BY <1>5, <2>1 DEF Trail
  <2>3. QED
    BY <1>2, <1>3, <1>4, <1>5, <2>1, <2>2
<1>6. CASE ~burst
  <2>1. faults' = faults + 1 /\ faults' - 1 = faults
    BY <1>1, <1>3, <1>6
  <2>2. Trail' = IF at' = 0 THEN Joined(faults + 1) + Behind
                 ELSE Joined(faults) + Behind + (at' - 1)
    BY <1>4, <2>1
  <2>3. QED
    BY <1>2, <1>3, <2>2
<1>7. QED
  BY <1>5, <1>6

(***************************************************************************)
(* The inductive invariant, step by step                                   *)
(***************************************************************************)
\* What is held is a part of the buffer.
LEMMA HeldTypes == TypeOK => Held \in Nat /\ Len(buffer) \in Nat /\ Held <= Len(buffer)
BY DEF TypeOK, Held

\* The reader and the sketch take bytes from the front of the queue, or none.
LEMMA RunKept ==
  ASSUME TypeOK, TypeOK', LinkTypeOK, RunsBounded, UNCHANGED <<turn, at, faults, burst>>,
         Len(buffer') <= Joined(faults + 1),
         \/ rx' = rx /\ Held' <= Held
         \/ rx # <<>> /\ rx' = Tail(rx) /\ Held' <= Held + 1 /\ (rx[1] = "!" => Held' = 0)
         \/ rx' = SubSeq(rx, CRC_LEN + 1, Len(rx)) /\ Len(rx) >= CRC_LEN /\ Held' = 0
         \/ rx' = <<>> /\ Held' = 0
  PROVE  RunsBounded'
<1> DEFINE limit == Joined(faults + 1)
           trail == Trail
<1>1. /\ limit \in Nat /\ trail \in Nat /\ limit' = limit /\ trail' = trail
      /\ Held \in Nat /\ Held' \in Nat /\ rx \in Seq(Byte) /\ CRC_LEN \in Nat
  <2>1. limit \in Nat
    BY TrailFacts
  <2>2. trail' = trail
    BY DEF Trail
  <2>3. Held' \in Nat
    BY DEF TypeOK, Held
  <2>4. QED
    BY <2>1, <2>2, <2>3, TrailTypes, HeldTypes, CrcLenAssumption DEF TypeOK
<1>2. Bounded(limit, trail, rx, Held)
  BY DEF RunsBounded
<1>3. Len(buffer') <= limit
  OBVIOUS
<1> HIDE DEF limit, trail
<1>4. Bounded(limit, trail, rx', Held')
  <2>1. CASE rx' = rx /\ Held' <= Held
    BY <1>1, <1>2, <2>1, RunWeaker
  <2>2. CASE rx # <<>> /\ rx' = Tail(rx) /\ Held' <= Held + 1 /\ (rx[1] = "!" => Held' = 0)
    BY <1>1, <1>2, <2>2, RunRead
  <2>3. CASE rx' = SubSeq(rx, CRC_LEN + 1, Len(rx)) /\ Len(rx) >= CRC_LEN /\ Held' = 0
    BY <1>1, <1>2, <2>3, RunCut
  <2>4. CASE rx' = <<>> /\ Held' = 0
    BY <1>1, <2>4 DEF Bounded
  <2>5. QED
    BY <2>1, <2>2, <2>3, <2>4
<1>5. QED
  BY <1>1, <1>3, <1>4 DEF RunsBounded, limit, trail

\* The next byte comes through: it is held with the others.
LEMMA RunOfBytes ==
  ASSUME TypeOK, LinkTypeOK, RunsBounded, rx # <<>>, Head(rx) # "!"
  PROVE  Held + 1 <= Joined(faults + 1)
<1>1. Len(rx) \in Nat /\ Len(rx) >= 1 /\ Head(rx) = rx[1]
  BY EmptySeq DEF TypeOK
<1>2. 0 \in 0 .. Len(rx) /\ 1 \in 0 .. Len(rx) /\ \A i \in 0 + 1 .. 1 : rx[i] # "!"
  BY <1>1
<1>3. Bounded(Joined(faults + 1), Trail, rx, Held)
  BY DEF RunsBounded
<1>4. (IF 0 = 0 THEN Held ELSE 0) + (1 - 0) <= Joined(faults + 1)
  BY <1>2, <1>3 DEF Bounded
<1>5. QED
  BY <1>4, HeldTypes

\* The steps of loop() ...
LEMMA RunReader ==
  ASSUME TypeOK, TypeOK', LinkTypeOK, BufferFollowsState, RunsBounded, ReaderStep
  PROVE  RunsBounded'
<1> DEFINE limit == Joined(faults + 1)
<1>1. /\ UNCHANGED <<turn, at, faults, burst>>
      /\ limit \in Nat /\ Len(buffer) \in Nat /\ Len(buffer) <= limit
      /\ Held \in Nat /\ Held <= Len(buffer)
      /\ rx \in Seq(Byte) /\ (rx # <<>> => Head(rx) = rx[1])
  <2>1. UNCHANGED <<turn, at, faults, burst>>
    BY OtherSteps
  <2>2. limit \in Nat /\ Len(buffer) <= limit
    BY TrailFacts DEF RunsBounded
  <2>3. rx \in Seq(Byte) /\ (rx # <<>> => Head(rx) = rx[1])
    BY DEF TypeOK
  <2>4. QED
    BY <2>1, <2>2, <2>3, HeldTypes
<1>2. ASSUME buffer' = <<>> PROVE Len(buffer') <= limit
  BY <1>1, <1>2
<1>3. CASE UNCHANGED <<state, buffer, rx>>
  BY <1>1, <1>3, RunKept DEF Held
<1>4. CASE LoopToss
  <2>1. Held' = 0 /\ rx # <<>> /\ rx' = Tail(rx) /\ buffer' = buffer
    BY <1>4 DEF LoopToss, Reads, telegram, Held
  <2>2. QED
    BY <1>1, <2>1, RunKept
<1>5. CASE StartTelegram
  <2>1. buffer' = <<>> /\ rx # <<>> /\ rx' = Tail(rx) /\ Head(rx) # "!"
    BY <1>5, ClearFollows DEF StartTelegram, Reads, Receiving
  <2>2. Held' = 0
    BY <2>1 DEF Held
  <2>3. QED
    BY <1>1, <1>2, <2>1, <2>2, RunKept
<1>6. CASE EndMarker
  <2>1. Held' = 0 /\ rx # <<>> /\ rx' = Tail(rx) /\ buffer' = buffer
    BY <1>6 DEF EndMarker, Reads, Held
  <2>2. QED
    BY <1>1, <2>1, RunKept
<1>7. CASE StoreByte
  <2>1. /\ Held = Len(buffer) /\ Held' = Len(buffer') /\ rx # <<>> /\ rx' = Tail(rx)
        /\ Head(rx) # "!" /\ Head(rx) \in Byte
        /\ buffer' \in {Append(buffer, Head(rx)), buffer}
    BY <1>7, QueueParts DEF StoreByte, Reads, Held, TypeOK
  <2>2. Len(buffer') <= Len(buffer) + 1 /\ Len(buffer') \in Nat
    BY <2>1 DEF TypeOK
  <2>3. Held + 1 <= limit
    BY <2>1, RunOfBytes
  <2>4. QED
    BY <1>1, <2>1, <2>2, <2>3, RunKept
<1>8. ASSUME RecordCrcError \/ (\E p, tail, rest : Accept(p, tail, rest))
      PROVE  Held' = 0 /\ Len(buffer') <= limit
  BY <1>1, <1>2, <1>8 DEF RecordCrcError, Accept, AfterTelegram, StopRequest, Held
<1>9. CASE SuffixLineEnd
  <2>1. rx # <<>> /\ rx' \in {Tail(rx), <<>>} /\ Held' = 0 /\ Len(buffer') <= limit
    BY <1>8, <1>9 DEF SuffixLineEnd, AtSuffix, Reads, Accept, AfterTelegram, StopRequest
  <2>2. QED
    BY <1>1, <2>1, RunKept
<1>10. CASE SuffixUnexpected
  <2>1. rx' = rx /\ Held' = 0 /\ Len(buffer') <= limit
    BY <1>8, <1>10 DEF SuffixUnexpected
  <2>2. QED
    BY <1>1, <2>1, RunKept
<1>11. CASE SuffixCrc
  <2>1. /\ rx' \in {SubSeq(rx, CRC_LEN + 1, Len(rx)), <<>>} /\ Len(rx) >= CRC_LEN
        /\ Held' = 0 /\ Len(buffer') <= limit
    BY <1>8, <1>11 DEF SuffixCrc, Accept, AfterTelegram, StopRequest
  <2>2. QED
    BY <1>1, <2>1, RunKept
<1>12. QED
  BY <1>3, <1>4, <1>5, <1>6, <1>7, <1>9, <1>10, <1>11 DEF ReaderStep, Loop, LoopIdle,
     SuffixIncomplete, telegram

\* ... those of the sketch ...
LEMMA RunSketch ==
  ASSUME TypeOK, TypeOK', LinkTypeOK, RunsBounded, Sketch \/ EnableAgain \/ UNCHANGED allVars
  PROVE  RunsBounded'
<1> DEFINE limit == Joined(faults + 1)
<1>1. /\ UNCHANGED <<turn, at, faults, burst>>
      /\ limit \in Nat /\ Len(buffer) \in Nat /\ Len(buffer) <= limit
      /\ Held \in Nat /\ Held <= Len(buffer)
  BY OtherSteps, TrailFacts, HeldTypes DEF RunsBounded
<1>2. CASE UNCHANGED <<state, buffer, rx>>
  BY <1>1, <1>2, RunKept DEF Held
<1>3. ASSUME NEW o \in BOOLEAN, Enable(o) PROVE RunsBounded'
  <2>1. rx' = rx /\ Held' = 0 /\ buffer' = buffer
    BY <1>3 DEF Enable, telegram, Held
  <2>2. QED
    BY <1>1, <2>1, RunKept
<1>4. CASE Setup \/ EnableAgain
  BY <1>3, <1>4, TRUE \in BOOLEAN, FALSE \in BOOLEAN DEF Setup, EnableAgain, Request
<1>5. CASE ParseTelegram
  <2>1. rx' = rx /\ state' = state /\ buffer' \in {buffer, <<>>}
    BY <1>5 DEF ParseTelegram, Parse, Clear
  <2>2. Held' <= Held /\ Len(buffer') <= limit
    BY <1>1, <2>1 DEF Held
  <2>3. QED
    BY <1>1, <2>1, <2>2, RunKept
<1>6. QED
  BY <1>2, <1>4, <1>5 DEF Sketch, SketchCallsLoop, CallLoop, NotYetAgain, NothingToParse,
     Continue, telegram, vars, allVars

\* ... and those of the meter and the line.
LEMMA RunLine ==
  ASSUME TypeOK, LinkTypeOK, LinkTypeOK', RunsBounded,
         \/ BeginTelegram \/ SendByte \/ LoseByte
         \/ \E c \in Noise : GarbleByte(c)
  PROVE  RunsBounded'
<1> DEFINE limit == Joined(faults + 1)
           trail == Trail
<1>1. /\ rx \in Seq(Byte) /\ Held \in Nat
      /\ limit \in Nat /\ trail \in Nat /\ limit' \in Nat /\ trail' \in Nat
  <2>1. limit' \in Nat /\ faults' \in Nat
    <3>1. faults' \in Nat
      BY DEF LinkTypeOK
    <3>2. QED
      BY <3>1, JoinedIs
  <2>2. trail' \in Nat
    BY TrailNext
  <2>3. limit \in Nat /\ trail \in Nat
    BY TrailFacts, TrailTypes
  <2>4. rx \in Seq(Byte)
    BY DEF TypeOK
  <2>5. QED
    BY <2>1, <2>2, <2>3, <2>4, HeldTypes
<1>2. Bounded(limit, trail, rx, Held) /\ Len(buffer) <= limit
  BY DEF RunsBounded
<1>3. ASSUME Bounded(limit', trail', rx', Held'), buffer' = buffer, limit <= limit'
      PROVE  RunsBounded'
  <2>1. Len(buffer') <= limit'
    BY <1>1, <1>2, <1>3, HeldTypes
  <2>2. QED
    BY <1>3, <2>1 DEF RunsBounded
<1>4. limit' = limit \/ (faults' = faults + 1 /\ limit' = Joined(faults + 2) /\ limit <= limit')
  <2>1. faults' \in {faults, faults + 1}
    BY DEF BeginTelegram, SendByte, LoseByte, GarbleByte, line
  <2>2. CASE faults' = faults
    BY <2>2
  <2>3. CASE faults' = faults + 1
    <3>1. faults' + 1 = faults + 2
      BY <2>3, TrailFacts
    <3>2. QED
      BY <2>3, <3>1, TrailFacts
  <2>4. QED
    BY <2>1, <2>2, <2>3
<1> HIDE DEF limit, trail
<1>5. limit <= limit'
  BY <1>1, <1>4
<1>6. CASE UNCHANGED vars /\ trail <= trail'
  <2>1. rx' = rx /\ Held' = Held /\ buffer' = buffer
    BY <1>6 DEF vars, telegram, Held
  <2>2. Bounded(limit', trail', rx, Held)
    <3>1. trail <= trail'
      BY <1>6
    <3>2. Bounded(limit, trail, rx, Held)
      BY <1>2
    <3>3. \A a, b, c, d, h \in Nat :
            Bounded(a, b, rx, h) /\ a <= c /\ b <= d => Bounded(c, d, rx, h)
      <4>1. \A h \in Nat : h <= h
        OBVIOUS
      <4>2. QED
        BY <1>1, <4>1, RunWeaker
    <3>4. QED
      BY <1>1, <1>5, <3>1, <3>2, <3>3
  <2>3. QED
    BY <1>3, <1>5, <2>1, <2>2
<1>7. CASE BeginTelegram
  <2>1. trail' = trail
    <3>1. at = 0 /\ ~burst /\ at' = 1 /\ UNCHANGED <<turn, faults, burst>>
      BY <1>7, TrailFacts DEF BeginTelegram, line, LinkTypeOK
    <3>2. Trail = Joined(faults) + Behind
      BY <3>1 DEF Trail
    <3>3. Trail' = Joined(faults) + Behind + (1 - 1)
      BY <3>1, TrailFacts DEF Trail
    <3>4. QED
      BY <3>2, <3>3, TrailFacts DEF trail
  <2>2. QED
    BY <1>1, <1>6, <1>7, <2>1 DEF BeginTelegram
<1>8. CASE LoseByte
  BY <1>6, <1>8, TrailLost DEF LoseByte, trail
<1>9. ASSUME NEW c \in Byte, Arrive(c) PROVE rx' = Append(rx, c) /\ Held' = Held /\ buffer' = buffer
  BY <1>9 DEF Arrive, telegram, Held
<1>10. ASSUME NEW c \in Byte, c # "!", Arrive(c), trail + 1 <= trail', trail + 1 <= limit'
       PROVE  RunsBounded'
  <2>1. Bounded(limit', trail', Append(rx, c), Held)
    BY <1>1, <1>2, <1>5, <1>10, RunGrows
  <2>2. QED
    BY <1>3, <1>5, <1>9, <1>10, <2>1
<1>11. CASE SendByte
  <2>1. Advance(TRUE) /\ Arrive(Telegrams[turn][at]) /\ faults' = faults
    BY <1>11 DEF SendByte
  <2>2. at \in 1 .. Len(Telegrams[turn])
    BY <2>1, AdvanceTypes, TRUE \in BOOLEAN
  <2>3. turn \in DOMAIN Bodies
    BY DEF LinkTypeOK
  <2>4. Telegrams[turn][at] \in Byte
    BY <2>2, <2>3, TelegramIs, ElementOfSeq
  <2>5. CASE at = Bang(turn)
    <3>1. Telegrams[turn][at] = "!"
      BY <2>3, <2>5, TelegramIs
    <3>2. Bounded(limit', trail', Append(rx, "!"), Held)
      BY <1>1, <1>2, <1>5, <2>4, <3>1, RunEnds
    <3>3. QED
      BY <1>3, <1>5, <1>9, <2>1, <2>4, <3>1, <3>2
  <2>6. CASE at # Bang(turn)
    <3>1. Telegrams[turn][at] # "!"
      BY <2>2, <2>3, <2>6, BytesOfTelegram
    <3>2. trail + 1 <= trail' /\ trail + 1 <= limit'
      BY <1>11, <2>1, <2>6, TrailGrows DEF trail, limit
    <3>3. QED
      BY <1>10, <2>1, <2>4, <3>1, <3>2
  <2>7. QED
    BY <2>5, <2>6
<1>12. ASSUME NEW c \in Noise, GarbleByte(c) PROVE RunsBounded'
  <2>1. c \in Byte /\ c # "!"
    BY NoiseAssumption
  <2>2. Arrive(c) /\ faults' = faults + 1
    BY <1>12, Zenon DEF GarbleByte
  <2>3. trail + 1 <= trail' /\ trail + 1 <= Joined(faults + 2)
    BY <1>12, TrailGarbled DEF trail
  <2>4. limit' = Joined(faults + 2)
    <3>1. faults' + 1 = faults + 2
      BY <2>2, TrailFacts
    <3>2. QED
      BY <3>1 DEF limit
  <2>5. QED
    BY <1>10, <2>1, <2>2, <2>3, <2>4
<1>13. QED
  BY <1>7, <1>8, <1>11, <1>12

\* Every step keeps the bound, if nobody calls enable() in the middle of a
\* telegram.
LEMMA RunStep ==
  ASSUME TypeOK, TypeOK', LinkTypeOK, LinkTypeOK', LeftAlone => BufferFollowsState, RunInv,
         [LinkNext]_allVars
  PROVE  RunInv'
<1> SUFFICES ASSUME LeftAlone' PROVE RunsBounded'
  BY DEF RunInv
<1>1. BufferFollowsState /\ RunsBounded
  BY SameSketch DEF RunInv, LeftAlone
<1>2. CASE BeginTelegram \/ SendByte \/ LoseByte \/ \E c \in Noise : GarbleByte(c)
  BY <1>1, <1>2, RunLine
<1>3. CASE Sketch \/ EnableAgain \/ UNCHANGED allVars
  BY <1>1, <1>3, RunSketch
<1>4. CASE ReaderStep
  BY <1>1, <1>4, RunReader
<1>5. QED
  BY <1>2, <1>3, <1>4 DEF LinkNext

\* At first nothing is held and nothing queued.
LEMMA RunInit == LinkInit => RunInv
<1> SUFFICES ASSUME LinkInit PROVE RunsBounded
  BY DEF RunInv
<1>1. /\ buffer = <<>> /\ rx = <<>> /\ Held = 0 /\ faults = 0
      /\ Trail = Joined(0) + Behind
  BY DEF LinkInit, Init, Held, Trail
<1>2. Joined(0) \in Nat /\ Joined(0 + 1) \in Nat /\ Behind \in Nat
  <2>1. 1 \in DOMAIN Bodies
    BY BodiesAre
  <2>2. QED
    BY <2>1, JoinedIs, TelegramLength
<1>3. Trail \in Nat
  BY <1>1, <1>2
<1> DEFINE limit == Joined(0 + 1)
<1> HIDE DEF limit
<1>4. limit \in Nat
  BY <1>2 DEF limit
<1>5. Bounded(limit, Trail, <<>>, 0) /\ Len(<<>>) <= limit
  BY <1>3, <1>4 DEF Bounded
<1>6. QED
  BY <1>1, <1>5 DEF RunsBounded, limit

\* The String of the reader holds at most one telegram more than the line was
\* disturbed: a telegram that lost its '!' runs on into the next one.  This
\* holds of the polling sketch of the README, and of every sketch that does
\* not call enable() in the middle of a telegram (P1Reader::loop,
\* READING_STATE, which has no limit of its own).
THEOREM BufferAlwaysBounded == LinkSpec => [](LeftAlone => BufferIsBounded)
<1>1. LinkTypeOK /\ RunInv => (LeftAlone => BufferIsBounded)
  <2> SUFFICES ASSUME LinkTypeOK, RunsBounded PROVE BufferIsBounded
    BY DEF RunInv
  <2>1. PICK i \in DOMAIN Bodies : LongestTelegram = Len(Telegrams[i])
    BY LongestIs
  <2>2. Len(buffer) <= (faults + 1) * Len(Telegrams[i])
    BY <2>1 DEF RunsBounded, Joined
  <2>3. QED
    BY <2>2 DEF BufferIsBounded
<1>2. QED
  BY <1>1, RunInit, RunStep, ReaderInPlace, BufferFollowsStateInPlace, PTL DEF LinkSpec

(***************************************************************************)
(* A line without disturbances: every byte queued has its place in a       *)
(* telegram of the meter                                                   *)
(***************************************************************************)
\* The places of the meter's bytes, telegram and byte, and their order.
Places ==
  {p \in (DOMAIN Bodies) \X Nat : 1 <= p[2] /\ p[2] <= Len(Telegrams[p[1]])}

ByteAt(p) == Telegrams[p[1]][p[2]]

Following(p) ==
  IF p[2] < Len(Telegrams[p[1]]) THEN <<p[1], p[2] + 1>>
                                 ELSE <<(p[1] % Len(Bodies)) + 1, 1>>

\* The byte the meter sends next.
Here == <<turn, IF at = 0 THEN 1 ELSE at>>

\* w has the places of the bytes in a queue, and of the one sent next.
Holds(q, w, next) ==
  /\ w \in Seq(Places) /\ Len(w) = Len(q) + 1 /\ w[Len(w)] = next
  /\ \A j \in 1 .. Len(q) : q[j] = ByteAt(w[j]) /\ w[j + 1] = Following(w[j])

\* What the reader knows of telegram i, when it reads the byte k next.
Heard(i, k) ==
  /\ state = "DISABLED_STATE" => k = 1 /\ at = 0 /\ rx = <<>>
  /\ state = "WAITING_STATE" => k = 1 \/ k > Bang(i)
  /\ state = "READING_STATE" =>
       2 <= k /\ k <= Bang(i) /\ buffer = SubSeq(Bodies[i], 1, k - 2)
  /\ state = "CHECKSUM_STATE" => k = Bang(i) + 1 /\ buffer = Bodies[i]

\* With the same CRC, no telegram is refused: none has been so far, and the suffix of
\* every one is read as a whole.
Agreed(i, k) ==
  /\ state = "WAITING_STATE" => k = 1 \/ k > Bang(i) + CRC_LEN
  /\ state = "READING_STATE" => crc = <<"/">> \o buffer
  /\ state = "CHECKSUM_STATE" => crc = Frame(Bodies[i])
  /\ \A j \in DOMAIN seen : seen[j]
  /\ diag.crc_errors = 0

\* How many bytes have been sent since the last digit of a CRC was.
Since ==
  IF at = 0 THEN 2
  ELSE IF at <= Bang(turn) + CRC_LEN THEN at + 1
  ELSE at - 1 - (Bang(turn) + CRC_LEN)

\* A telegram that was sent and is not announced has its last digit queued.
InTime(w) ==
  /\ missed <= 1
  /\ missed = 1 =>
       LET p == w[Len(rx) - Since]
       IN  Since < Len(rx) /\ p[2] = Bang(p[1]) + CRC_LEN

Undisturbed(w) ==
  /\ Holds(rx, w, Here) /\ Heard(w[1][1], w[1][2])
  /\ SameCrc => Agreed(w[1][1], w[1][2]) /\ (SmallQueue => InTime(w))

UndisturbedInv ==
  sketch = "poll" /\ faults = 0 =>
    /\ ~once
    /\ AnnouncedIsSent
    /\ \E w \in Seq(Places) : Undisturbed(w)

\* A place is one byte of one telegram.
LEMMA PlaceIs ==
  ASSUME NEW p \in Places
  PROVE  /\ p = <<p[1], p[2]>> /\ p[1] \in DOMAIN Bodies /\ p[2] \in Nat /\ p[2] >= 1
         /\ p[2] <= Bang(p[1]) + Behind /\ Len(Telegrams[p[1]]) = Bang(p[1]) + Behind
         /\ Bang(p[1]) \in Nat /\ Bang(p[1]) >= 2
         /\ Behind = CRC_LEN + 2 /\ CRC_LEN \in Nat /\ CRC_LEN >= 1
<1>1. /\ p = <<p[1], p[2]>> /\ p[1] \in DOMAIN Bodies /\ p[2] \in Nat
      /\ 1 <= p[2] /\ p[2] <= Len(Telegrams[p[1]])
  BY DEF Places
<1>2. QED
  BY <1>1, TelegramLength, CrcLenAssumption

\* The bytes by their places.
LEMMA ByteOfPlace ==
  ASSUME NEW p \in Places
  PROVE  /\ ByteAt(p) \in Byte
         /\ p[2] = 1 => ByteAt(p) = "/"
         /\ 2 <= p[2] /\ p[2] < Bang(p[1]) =>
              /\ ByteAt(p) = Bodies[p[1]][p[2] - 1] /\ ByteAt(p) # "!"
              /\ Bodies[p[1]] \in Seq(Byte) /\ Len(Bodies[p[1]]) = Bang(p[1]) - 2
         /\ p[2] = Bang(p[1]) => ByteAt(p) = "!"
         /\ p[2] > Bang(p[1]) => ByteAt(p) \in Trailing
<1> DEFINE i == p[1]
           k == p[2]
<1>1. /\ i \in DOMAIN Bodies /\ k \in Nat /\ k >= 1 /\ k <= Bang(i) + Behind
      /\ Len(Telegrams[i]) = Bang(i) + Behind /\ Bang(i) \in Nat /\ Bang(i) >= 2
  BY PlaceIs
<1>2. ByteAt(p) = Telegrams[i][k]
  BY DEF ByteAt
<1> HIDE DEF i, k
<1>3. /\ k \in 1 .. Len(Telegrams[i]) /\ Telegrams[i] \in Seq(Byte)
  BY <1>1, TelegramIs
<1>4. Telegrams[i][k] \in Byte
  BY <1>3, ElementOfSeq
<1>5. ASSUME 2 <= k, k < Bang(i)
      PROVE  /\ Telegrams[i][k] = Bodies[i][k - 1] /\ Telegrams[i][k] # "!"
             /\ Bodies[i] \in Seq(Byte) /\ Len(Bodies[i]) = Bang(i) - 2
  <2>1. k \in 2 .. Bang(i) - 1 /\ k # Bang(i)
    BY <1>1, <1>5
  <2>2. Bodies[i] \in Seq(Byte) /\ Len(Bodies[i]) = Bang(i) - 2
    BY <1>1, TelegramIs DEF Bang
  <2>3. QED
    BY <1>1, <1>3, <2>1, <2>2, TelegramIs, BytesOfTelegram
<1>6. k > Bang(i) => k \in Bang(i) + 1 .. Bang(i) + Behind
  <2>1. Behind \in Nat
    BY CrcLenAssumption DEF Behind
  <2>2. QED
    BY <1>1, <2>1
<1>7. k > Bang(i) => Telegrams[i][k] \in Trailing
  BY <1>1, <1>6, TelegramIs
<1>8. QED
  BY <1>1, <1>2, <1>4, <1>5, <1>7, TelegramIs DEF i, k

\* Behind a place comes the next one.
LEMMA PlaceFollows ==
  ASSUME NEW p \in Places
  PROVE  /\ Following(p) \in Places
         /\ p[2] < Bang(p[1]) + Behind => Following(p) = <<p[1], p[2] + 1>>
         /\ p[2] = Bang(p[1]) + Behind => Following(p)[2] = 1
<1>1. /\ p[1] \in DOMAIN Bodies /\ p[2] \in Nat /\ p[2] <= Len(Telegrams[p[1]])
      /\ Len(Telegrams[p[1]]) = Bang(p[1]) + Behind /\ Len(Telegrams[p[1]]) \in Nat
  BY PlaceIs, TelegramLength
<1>2. CASE p[2] < Len(Telegrams[p[1]])
  BY <1>1, <1>2 DEF Following, Places
<1>3. CASE ~(p[2] < Len(Telegrams[p[1]]))
  <2>1. (p[1] % Len(Bodies)) + 1 \in DOMAIN Bodies
    BY <1>1, BodiesAre
  <2>2. Len(Telegrams[(p[1] % Len(Bodies)) + 1]) >= 1
    BY <2>1, TelegramLength
  <2>3. Following(p) = <<(p[1] % Len(Bodies)) + 1, 1>>
    BY <1>3 DEF Following
  <2>4. Following(p) \in Places
    BY <2>1, <2>2, <2>3 DEF Places
  <2>5. QED
    BY <1>1, <1>3, <2>3, <2>4
<1>4. QED
  BY <1>2, <1>3

\* The meter is at a place, and goes to the next one.
LEMMA HereIs == LinkTypeOK => Here \in Places
<1> SUFFICES ASSUME LinkTypeOK PROVE Here \in Places
  OBVIOUS
<1>1. turn \in DOMAIN Bodies /\ at \in 0 .. Len(Telegrams[turn])
  BY DEF LinkTypeOK
<1>2. Len(Telegrams[turn]) \in Nat /\ Len(Telegrams[turn]) >= 1
  BY <1>1, TelegramLength
<1>3. QED
  BY <1>1, <1>2 DEF Here, Places

LEMMA HereFollows ==
  ASSUME LinkTypeOK, NEW arrived \in BOOLEAN, Advance(arrived)
  PROVE  Here' = Following(Here) /\ ByteAt(Here) = Telegrams[turn][at]
<1>1. at # 0 /\ at \in Nat /\ Len(Telegrams[turn]) \in Nat
  BY TelegramLength DEF Advance, LinkTypeOK
<1>2. Here = <<turn, at>>
  BY <1>1 DEF Here
<1>3. CASE at < Len(Telegrams[turn])
  <2>1. at' = at + 1 /\ at' # 0 /\ turn' = turn
    BY <1>1, <1>3, AdvanceTypes
  <2>2. Here' = <<turn, at + 1>>
    BY <2>1 DEF Here
  <2>3. QED
    BY <1>2, <1>3, <2>2 DEF Following, ByteAt
<1>4. CASE ~(at < Len(Telegrams[turn]))
  <2>1. at' = 0 /\ turn' = (turn % Len(Bodies)) + 1
    BY <1>4 DEF Advance
  <2>2. Here' = <<(turn % Len(Bodies)) + 1, 1>>
    BY <2>1 DEF Here
  <2>3. QED
    BY <1>2, <1>4, <2>2 DEF Following, ByteAt
<1>5. QED
  BY <1>3, <1>4

(***************************************************************************)
(* The queue of an undisturbed line                                        *)
(***************************************************************************)
\* A byte is sent ...
LEMMA HoldsMore ==
  ASSUME NEW q \in Seq(Byte), NEW w, NEW next \in Places, Holds(q, w, next)
  PROVE  /\ Holds(Append(q, ByteAt(next)), Append(w, Following(next)), Following(next))
         /\ Len(w) = Len(q) + 1 /\ Len(q) \in Nat /\ w \in Seq(Places)
         /\ Len(Append(q, ByteAt(next))) = Len(q) + 1
         /\ Append(w, Following(next)) \in Seq(Places)
         /\ \A j \in 1 .. Len(w) : Append(w, Following(next))[j] = w[j]
<1> DEFINE n == Len(q)
           c == ByteAt(next)
           f == Following(next)
           r == Append(q, c)
           u == Append(w, f)
<1>1. /\ w \in Seq(Places) /\ Len(w) = n + 1 /\ w[n + 1] = next /\ n \in Nat
      /\ \A j \in 1 .. n : q[j] = ByteAt(w[j]) /\ w[j + 1] = Following(w[j])
  BY DEF Holds
<1>2. f \in Places /\ c \in Byte
  BY PlaceFollows, ByteOfPlace
<1> HIDE DEF f, c
<1>3. /\ Len(r) = n + 1 /\ r[n + 1] = c /\ \A j \in 1 .. n : r[j] = q[j]
  BY <1>2
<1>4. /\ u \in Seq(Places) /\ Len(u) = n + 2 /\ u[n + 2] = f /\ \A j \in 1 .. n + 1 : u[j] = w[j]
  BY <1>1, <1>2
<1> HIDE DEF r, u
<1>5. ASSUME NEW j \in 1 .. n + 1 PROVE r[j] = ByteAt(u[j]) /\ u[j + 1] = Following(u[j])
  <2>1. CASE j \in 1 .. n
    <3>1. j + 1 \in 1 .. n + 1 /\ j \in 1 .. n + 1
      BY <1>1, <2>1
    <3>2. QED
      BY <1>1, <1>3, <1>4, <2>1, <3>1
  <2>2. CASE j = n + 1
    <3>1. u[j] = next /\ j + 1 = n + 2 /\ r[j] = c
      BY <1>1, <1>3, <1>4, <2>2
    <3>2. QED
      BY <1>4, <3>1 DEF c, f
  <2>3. QED
    BY <1>1, <2>1, <2>2
<1>6. Holds(r, u, f)
  BY <1>1, <1>3, <1>4, <1>5 DEF Holds
<1>7. QED
  BY <1>1, <1>3, <1>4, <1>6 DEF r, u, f, c, n

\* ... and the first m are read.
LEMMA HoldsLess ==
  ASSUME NEW q \in Seq(Byte), NEW w, NEW next, Holds(q, w, next), NEW m \in Nat, m <= Len(q)
  PROVE  /\ Holds(SubSeq(q, m + 1, Len(q)), SubSeq(w, m + 1, Len(w)), next)
         /\ SubSeq(w, m + 1, Len(w)) \in Seq(Places)
         /\ Len(w) = Len(q) + 1 /\ Len(q) \in Nat
         /\ Len(SubSeq(q, m + 1, Len(q))) = Len(q) - m
         /\ \A j \in 1 .. Len(q) - m + 1 : SubSeq(w, m + 1, Len(w))[j] = w[j + m]
<1> DEFINE n == Len(q)
           r == SubSeq(q, m + 1, n)
           u == SubSeq(w, m + 1, n + 1)
<1>1. /\ w \in Seq(Places) /\ Len(w) = n + 1 /\ w[n + 1] = next /\ n \in Nat
      /\ \A j \in 1 .. n : q[j] = ByteAt(w[j]) /\ w[j + 1] = Following(w[j])
  BY DEF Holds
<1>2. Len(r) = n - m /\ \A j \in 1 .. n - m : r[j] = q[j + m]
  OBVIOUS
<1>3. /\ u \in Seq(Places) /\ Len(u) = n - m + 1
      /\ \A j \in 1 .. n - m + 1 : u[j] = w[j + m]
  BY <1>1
<1> HIDE DEF r, u
<1>4. ASSUME NEW j \in 1 .. n - m PROVE r[j] = ByteAt(u[j]) /\ u[j + 1] = Following(u[j])
  <2>1. /\ j \in 1 .. n - m + 1 /\ j + 1 \in 1 .. n - m + 1 /\ j + m \in 1 .. n
        /\ (j + 1) + m = (j + m) + 1
    BY <1>1
  <2>2. QED
    BY <1>1, <1>2, <1>3, <2>1
<1>5. u[n - m + 1] = next
  <2>1. n - m + 1 \in 1 .. n - m + 1 /\ (n - m + 1) + m = n + 1
    BY <1>1
  <2>2. QED
    BY <1>1, <1>3, <2>1
<1>6. Holds(r, u, next)
  BY <1>2, <1>3, <1>4, <1>5 DEF Holds
<1>7. QED
  BY <1>1, <1>2, <1>3, <1>6 DEF r, u

LEMMA HoldsTail ==
  ASSUME NEW q \in Seq(Byte), NEW w, NEW next, Holds(q, w, next), q # <<>>
  PROVE  /\ Holds(Tail(q), SubSeq(w, 2, Len(w)), next)
         /\ SubSeq(w, 2, Len(w)) \in Seq(Places)
         /\ Len(Tail(q)) = Len(q) - 1
         /\ \A j \in 1 .. Len(q) : SubSeq(w, 2, Len(w))[j] = w[j + 1]
<1> DEFINE Less(m) ==
      /\ Holds(SubSeq(q, m + 1, Len(q)), SubSeq(w, m + 1, Len(w)), next)
      /\ SubSeq(w, m + 1, Len(w)) \in Seq(Places)
      /\ \A j \in 1 .. Len(q) - m + 1 : SubSeq(w, m + 1, Len(w))[j] = w[j + m]
<1>1. ASSUME NEW m \in Nat, m <= Len(q) PROVE Less(m)
  BY <1>1, HoldsLess
<1> HIDE DEF Less
<1>2. 1 \in Nat /\ 1 <= Len(q) /\ Len(q) \in Nat /\ Len(q) - 1 + 1 = Len(q) /\ 1 + 1 = 2
  BY EmptySeq
<1>3. Less(1)
  BY <1>1, <1>2
<1>4. Tail(q) = SubSeq(q, 2, Len(q)) /\ Len(Tail(q)) = Len(q) - 1
  OBVIOUS
<1>5. QED
  BY <1>2, <1>3, <1>4 DEF Less

\* From the byte b of telegram a on, w has the places of m bytes more.
RunsOn(w, a, b, m) == \A j \in 0 .. m : w[j + 1] = <<a, b + j>>

\* Within a telegram, one byte comes after the other.
LEMMA HoldsRun ==
  ASSUME NEW q \in Seq(Byte), NEW w, NEW next, Holds(q, w, next),
         NEW a, NEW b \in Nat, w[1] = <<a, b>>,
         NEW m \in Nat, m <= Len(q), b + m <= Bang(a) + Behind
  PROVE  RunsOn(w, a, b, m)
<1>1. /\ w \in Seq(Places) /\ Len(w) = Len(q) + 1 /\ Len(q) \in Nat
      /\ \A j \in 1 .. Len(q) : w[j + 1] = Following(w[j])
  BY DEF Holds
<1>2. \A j \in 1 .. Len(q) + 1 : w[j] \in Places
  BY <1>1, ElementOfSeq
<1>3. w[1] \in Places /\ w[1][1] = a
  <2>1. \A p, x, y : p = <<x, y>> => p[1] = x
    OBVIOUS
  <2>2. 1 \in 1 .. Len(q) + 1
    BY <1>1
  <2>3. QED
    BY <1>2, <2>1, <2>2, Zenon
<1>4. Bang(a) \in Nat /\ Behind \in Nat
  BY <1>3, PlaceIs
<1> DEFINE S == {j \in 0 .. m : w[j + 1] = <<a, b + j>>}
<1>5. 0 \in S
  <2>1. b + 0 = b /\ 0 + 1 = 1 /\ 0 \in 0 .. m
    OBVIOUS
  <2>2. QED
    BY <2>1
<1>6. ASSUME NEW j \in 0 .. m - 1, j \in S PROVE j + 1 \in S
  <2>1. w[j + 1] = <<a, b + j>> /\ j + 1 \in 1 .. Len(q) /\ j + 1 \in 1 .. Len(q) + 1 /\ j + 1 \in 0 .. m
    BY <1>1, <1>6
  <2>2. w[j + 1] \in Places /\ w[j + 1][1] = a /\ w[j + 1][2] = b + j
    <3>1. \A p, x, y : p = <<x, y>> => p[1] = x /\ p[2] = y
      OBVIOUS
    <3>2. w[j + 1] \in Places
      BY <1>2, <2>1
    <3>3. QED
      BY <2>1, <3>1, <3>2, Zenon
  <2>3. b + j < Bang(a) + Behind
    BY <1>4
  <2>4. Following(w[j + 1]) = <<a, (b + j) + 1>>
    BY <2>2, <2>3, PlaceFollows
  <2>5. (b + j) + 1 = b + (j + 1)
    <3>1. \A x, y \in Nat : (x + y) + 1 = x + (y + 1)
      OBVIOUS
    <3>2. j \in Nat
      OBVIOUS
    <3>3. QED
      BY <3>1, <3>2, Zenon
  <2>6. w[(j + 1) + 1] = <<a, b + (j + 1)>>
    BY <1>1, <2>1, <2>4, <2>5
  <2>7. QED
    BY <2>1, <2>6
<1>7. \A j \in 0 .. m - 1 : j \in S => j + 1 \in S
  BY <1>6
<1> HIDE DEF S
<1>8. 0 .. m \subseteq S
  BY <1>5, <1>7, UpTo
<1>9. QED
  BY <1>8 DEF S, RunsOn

(***************************************************************************)
(* An undisturbed line, step by step: the queue                            *)
(***************************************************************************)
\* The byte that is read next, by its place.
LEMMA NextByte ==
  ASSUME TypeOK, NEW w, Holds(rx, w, Here), rx # <<>>
  PROVE  /\ w[1] \in Places /\ Head(rx) = ByteAt(w[1]) /\ Len(w) = Len(rx) + 1
         /\ w[2] = Following(w[1]) /\ Len(rx) \in Nat /\ Len(rx) >= 1
<1>1. /\ Len(rx) \in Nat /\ Len(rx) >= 1 /\ Head(rx) = rx[1]
  BY EmptySeq DEF TypeOK
<1>2. /\ w \in Seq(Places) /\ Len(w) = Len(rx) + 1
      /\ \A j \in 1 .. Len(rx) : rx[j] = ByteAt(w[j]) /\ w[j + 1] = Following(w[j])
  BY DEF Holds
<1>3. w[1] \in Places
  BY <1>1, <1>2, ElementOfSeq
<1>4. 1 \in 1 .. Len(rx) /\ 1 + 1 = 2
  BY <1>1
<1>5. rx[1] = ByteAt(w[1]) /\ w[1 + 1] = Following(w[1])
  BY <1>2, <1>4
<1>6. QED
  BY <1>1, <1>2, <1>3, <1>4, <1>5

\* Nothing is read.
LEMMA ReadsNone ==
  ASSUME NEW w \in Seq(Places), Undisturbed(w),
         UNCHANGED <<rx, turn, at>>, missed' = missed \/ missed' = 0,
         Heard(w[1][1], w[1][2])', SameCrc => Agreed(w[1][1], w[1][2])'
  PROVE  Undisturbed(w)'
<1>1. Here' = Here /\ Since' = Since
  BY DEF Here, Since
<1>2. Holds(rx, w, Here)'
  BY <1>1 DEF Undisturbed, Holds
<1>3. InTime(w) => InTime(w)'
  BY <1>1 DEF InTime
<1>4. QED
  BY <1>2, <1>3 DEF Undisturbed

\* One byte is read, and not the last digit of a CRC.
LEMMA ReadsOne ==
  ASSUME TypeOK, LinkTypeOK, NEW w \in Seq(Places), Undisturbed(w),
         rx # <<>>, rx' = Tail(rx), UNCHANGED <<turn, at>>, missed' = missed \/ missed' = 0,
         Heard(w[2][1], w[2][2])',
         SameCrc => /\ Agreed(w[2][1], w[2][2])'
                    /\ w[1][2] # Bang(w[1][1]) + CRC_LEN
  PROVE  \E u \in Seq(Places) : Undisturbed(u)'
<1> DEFINE u == SubSeq(w, 2, Len(w))
           n == Len(rx)
<1>1. Here' = Here /\ Since' = Since /\ Since \in Nat
  <2>1. Here' = Here /\ Since' = Since
    BY DEF Here, Since
  <2>2. at \in Nat /\ Bang(turn) \in Nat
    BY TrailFacts
  <2>3. Since \in Nat
    BY <2>2, CrcLenAssumption DEF Since
  <2>4. QED
    BY <2>1, <2>3
<1>2. /\ Holds(rx, w, Here) /\ rx \in Seq(Byte) /\ n \in Nat /\ n >= 1
  BY NextByte DEF Undisturbed, TypeOK
<1>3. Tail(rx) = SubSeq(rx, 2, n)
  BY <1>2
<1>4. rx # <<>> /\ rx \in Seq(Byte) /\ Holds(rx, w, Here)
  BY <1>2
<1>5. /\ Holds(Tail(rx), u, Here) /\ u \in Seq(Places) /\ Len(Tail(rx)) = n - 1
      /\ \A j \in 1 .. n : u[j] = w[j + 1]
  BY <1>4, HoldsTail
<1> HIDE DEF u
<1>6. u[1] = w[2]
  BY <1>2, <1>5
<1>7. Holds(rx, u, Here)'
  BY <1>1, <1>5 DEF Holds
<1>8. ASSUME SameCrc, SmallQueue PROVE InTime(u)'
  <2>1. InTime(w) /\ w[1][2] # Bang(w[1][1]) + CRC_LEN
    BY <1>8 DEF Undisturbed
  <2>2. CASE missed' = 0
    BY <2>2 DEF InTime
  <2>3. CASE missed' = missed /\ missed = 1
    <3>1. Since < n /\ w[n - Since][2] = Bang(w[n - Since][1]) + CRC_LEN
      BY <2>1, <2>3 DEF InTime
    <3>2. n - Since # 1
      BY <2>1, <3>1
    <3>3. Since < n - 1 /\ (n - 1) - Since \in 1 .. n /\ ((n - 1) - Since) + 1 = n - Since
      BY <1>1, <1>2, <3>1, <3>2
    <3>4. u[(n - 1) - Since] = w[n - Since]
      BY <1>5, <3>3
    <3>5. Len(rx') = n - 1
      BY <1>5
    <3>6. QED
      BY <1>1, <2>3, <3>1, <3>3, <3>4, <3>5 DEF InTime
  <2>4. CASE missed' = missed /\ missed # 1
    BY <2>1, <2>4 DEF InTime
  <2>5. QED
    BY <2>2, <2>3, <2>4
<1>9. Undisturbed(u)'
  BY <1>6, <1>7, <1>8 DEF Undisturbed
<1>10. QED
  BY <1>5, <1>9

\* A whole CRC is read: what was sent is announced.
LEMMA ReadsCrc ==
  ASSUME TypeOK, NEW w \in Seq(Places), Undisturbed(w),
         Len(rx) >= CRC_LEN, rx' = SubSeq(rx, CRC_LEN + 1, Len(rx)), UNCHANGED <<turn, at>>,
         Heard(w[CRC_LEN + 1][1], w[CRC_LEN + 1][2])',
         SameCrc => Agreed(w[CRC_LEN + 1][1], w[CRC_LEN + 1][2])' /\ missed' = 0
  PROVE  \E u \in Seq(Places) : Undisturbed(u)'
<1> DEFINE u == SubSeq(w, CRC_LEN + 1, Len(w))
<1>1. Here' = Here
  BY DEF Here
<1>2. Holds(rx, w, Here) /\ rx \in Seq(Byte) /\ CRC_LEN \in Nat
  BY CrcLenAssumption DEF Undisturbed, TypeOK
<1>3. /\ Holds(SubSeq(rx, CRC_LEN + 1, Len(rx)), u, Here) /\ u \in Seq(Places)
      /\ \A j \in 1 .. Len(rx) - CRC_LEN + 1 : u[j] = w[j + CRC_LEN]
  BY <1>2, HoldsLess
<1>4. u[1] = w[CRC_LEN + 1]
  <2>1. 1 \in 1 .. Len(rx) - CRC_LEN + 1 /\ 1 + CRC_LEN = CRC_LEN + 1
    BY <1>2
  <2>2. QED
    BY <1>3, <2>1
<1> HIDE DEF u
<1>5. Holds(rx, u, Here)'
  BY <1>1, <1>3 DEF Holds
<1>6. SameCrc => InTime(u)'
  BY DEF InTime
<1>7. Undisturbed(u)'
  BY <1>4, <1>5, <1>6 DEF Undisturbed
<1>8. QED
  BY <1>3, <1>7

(***************************************************************************)
(* An undisturbed line, step by step: the reader                           *)
(***************************************************************************)
\* What the reader is about to read, and where it goes from there.
LEMMA AboutToRead ==
  ASSUME TypeOK, NEW w \in Seq(Places), Undisturbed(w), rx # <<>>,
         NEW i, NEW k, i = w[1][1], k = w[1][2]
  PROVE  /\ w[1] \in Places /\ w[2] \in Places /\ i \in DOMAIN Bodies
         /\ k \in Nat /\ k >= 1 /\ k <= Bang(i) + Behind
         /\ Bang(i) \in Nat /\ Bang(i) >= 2 /\ Behind = CRC_LEN + 2
         /\ CRC_LEN \in Nat /\ CRC_LEN >= 1
         /\ k < Bang(i) + Behind => w[2][1] = i /\ w[2][2] = k + 1
         /\ k = Bang(i) + Behind => w[2][2] = 1
         /\ Heard(i, k) /\ (SameCrc => Agreed(i, k))
         /\ Bodies[i] \in Seq(Byte) /\ Len(Bodies[i]) = Bang(i) - 2
         /\ Head(rx) \in Byte
         /\ k = 1 => Head(rx) = "/"
         /\ 2 <= k /\ k < Bang(i) => Head(rx) = Bodies[i][k - 1] /\ Head(rx) # "!"
         /\ k = Bang(i) => Head(rx) = "!"
         /\ k > Bang(i) => Head(rx) \in Trailing /\ Head(rx) # "/" /\ Head(rx) # "!"
<1>1. w[1] \in Places /\ Head(rx) = ByteAt(w[1]) /\ w[2] = Following(w[1])
  BY NextByte DEF Undisturbed
<1>2. /\ i \in DOMAIN Bodies /\ k \in Nat /\ k >= 1 /\ k <= Bang(i) + Behind
      /\ Bang(i) \in Nat /\ Bang(i) >= 2 /\ Behind = CRC_LEN + 2
      /\ CRC_LEN \in Nat /\ CRC_LEN >= 1
  BY <1>1, PlaceIs
<1>3. /\ w[2] \in Places
      /\ k < Bang(i) + Behind => w[2] = <<i, k + 1>>
      /\ k = Bang(i) + Behind => w[2][2] = 1
  BY <1>1, PlaceFollows
<1>4. Heard(i, k) /\ (SameCrc => Agreed(i, k))
  BY DEF Undisturbed
<1>5. Bodies[i] \in Seq(Byte) /\ Len(Bodies[i]) = Bang(i) - 2
  <2>1. Bodies[i] \in Seq(Byte \ {"!"}) /\ Len(Bodies[i]) \in Nat
    BY <1>2, TelegramIs
  <2>2. QED
    BY <2>1 DEF Bang
<1>6. /\ Head(rx) \in Byte
      /\ k = 1 => Head(rx) = "/"
      /\ 2 <= k /\ k < Bang(i) => Head(rx) = Bodies[i][k - 1] /\ Head(rx) # "!"
      /\ k = Bang(i) => Head(rx) = "!"
      /\ k > Bang(i) => Head(rx) \in Trailing
  BY <1>1, ByteOfPlace
<1>7. k > Bang(i) => Head(rx) # "/" /\ Head(rx) # "!"
  BY <1>6, TrailingIs
<1>8. w[2] = <<i, k + 1>> => w[2][1] = i /\ w[2][2] = k + 1
  OBVIOUS
<1>9. QED
  BY <1>1, <1>2, <1>3, <1>4, <1>5, <1>6, <1>7, <1>8

\* While every telegram had a CRC, one is expected.
LEMMA CrcIsExpected ==
  ASSUME CrcModeIsMajority, seen \in Seq(BOOLEAN), \A j \in DOMAIN seen : seen[j]
  PROVE  ~CrcSkipped
<1>1. diag.crc_mode = MajorityMode(seen)
  BY DEF CrcModeIsMajority
<1>2. CASE Len(seen) < VotesToLock
  BY <1>1, <1>2 DEF MajorityMode, CrcSkipped
<1>3. CASE ~(Len(seen) < VotesToLock)
  <2>1. 1 \in DOMAIN seen /\ 2 \in DOMAIN seen /\ 1 # 2
    BY <1>3 DEF VotesToLock
  <2>2. MostHadCrc(seen)
    BY <2>1 DEF MostHadCrc
  <2>3. QED
    BY <1>1, <1>3, <2>2 DEF MajorityMode, CrcSkipped
<1>4. QED
  BY <1>2, <1>3

\* Between two telegrams nothing but the rest of the last one is tossed.
LEMMA QuietToss ==
  ASSUME TypeOK, LinkTypeOK, NEW w \in Seq(Places), Undisturbed(w), ReaderStep, LoopToss
  PROVE  \E u \in Seq(Places) : Undisturbed(u)'
<1>1. PICK i, k : i = w[1][1] /\ k = w[1][2]
  OBVIOUS
<1>2. /\ rx # <<>> /\ rx' = Tail(rx)
      /\ UNCHANGED <<state, buffer, crc, available, diag, seen, turn, at, missed>>
  BY OtherSteps DEF LoopToss, Reads, telegram, history, ReaderStep
<1>3. state = "WAITING_STATE" /\ Head(rx) # "/"
  <2>1. state = "DISABLED_STATE" => rx = <<>>
    BY DEF Undisturbed, Heard
  <2>2. QED
    BY <1>2, <2>1 DEF LoopToss, Reads
<1>4. /\ k > Bang(i) /\ k <= Bang(i) + Behind
      /\ Bang(i) \in Nat /\ CRC_LEN \in Nat /\ Behind = CRC_LEN + 2 /\ k \in Nat
      /\ (k < Bang(i) + Behind => w[2][1] = i /\ w[2][2] = k + 1)
      /\ (k = Bang(i) + Behind => w[2][2] = 1)
      /\ SameCrc => Agreed(i, k)
  BY <1>1, <1>2, <1>3, AboutToRead DEF Heard
<1>5. SameCrc => k > Bang(i) + CRC_LEN
  <2>1. SameCrc => k = 1 \/ k > Bang(i) + CRC_LEN
    BY <1>3, <1>4 DEF Agreed
  <2>2. k # 1
    BY <1>1, <1>2, <1>3, AboutToRead
  <2>3. QED
    BY <2>1, <2>2
<1>6. Heard(w[2][1], w[2][2])'
  BY <1>2, <1>3, <1>4 DEF Heard
<1>7. SameCrc => Agreed(w[2][1], w[2][2])'
  <2>1. SameCrc => w[2][2] = 1 \/ w[2][2] > Bang(w[2][1]) + CRC_LEN
    BY <1>4, <1>5
  <2>2. QED
    BY <1>2, <1>3, <1>4, <2>1 DEF Agreed
<1>8. SameCrc => w[1][2] # Bang(w[1][1]) + CRC_LEN
  BY <1>1, <1>4, <1>5
<1>9. QED
  BY <1>2, <1>6, <1>7, <1>8, ReadsOne

\* A '/' that the reader waits for begins a telegram.
LEMMA QuietStart ==
  ASSUME TypeOK, LinkTypeOK, BufferFollowsState, CrcModeIsMajority,
         NEW w \in Seq(Places), Undisturbed(w), ReaderStep, StartTelegram
  PROVE  \E u \in Seq(Places) : Undisturbed(u)'
<1>1. PICK i, k : i = w[1][1] /\ k = w[1][2]
  OBVIOUS
<1>2. /\ rx # <<>> /\ rx' = Tail(rx) /\ Head(rx) = "/" /\ state = "WAITING_STATE"
      /\ state' = "READING_STATE" /\ crc' = (IF CrcSkipped THEN <<>> ELSE <<"/">>)
      /\ UNCHANGED <<diag, seen, turn, at>> /\ (missed' = missed \/ missed' = 0)
  BY OtherSteps DEF StartTelegram, Reads
<1>3. buffer' = <<>>
  BY ClearFollows DEF StartTelegram, Reads, Receiving
<1>4. /\ k = 1 /\ i \in DOMAIN Bodies /\ Bang(i) \in Nat /\ Bang(i) >= 2
      /\ CRC_LEN \in Nat /\ Behind = CRC_LEN + 2 /\ Bodies[i] \in Seq(Byte)
      /\ w[2][1] = i /\ w[2][2] = 2
      /\ SameCrc => Agreed(i, k)
  <2>1. k = 1
    BY <1>1, <1>2, AboutToRead DEF Heard
  <2>2. /\ Bang(i) \in Nat /\ Bang(i) >= 2 /\ CRC_LEN \in Nat /\ Behind = CRC_LEN + 2
        /\ i \in DOMAIN Bodies /\ Bodies[i] \in Seq(Byte) /\ (SameCrc => Agreed(i, k))
    BY <1>1, <1>2, AboutToRead
  <2>3. k < Bang(i) + Behind /\ k + 1 = 2
    BY <2>1, <2>2
  <2>4. w[2][1] = i /\ w[2][2] = k + 1
    BY <1>1, <1>2, <2>3, AboutToRead
  <2>5. QED
    BY <2>1, <2>2, <2>3, <2>4
<1>5. SubSeq(Bodies[i], 1, 0) = <<>> /\ 2 - 2 = 0
  BY <1>4
<1>6. Heard(w[2][1], w[2][2])'
  BY <1>2, <1>3, <1>4, <1>5 DEF Heard
<1>7. ASSUME SameCrc PROVE Agreed(w[2][1], w[2][2])'
  <2>1. Agreed(i, k) /\ ~CrcSkipped
    BY <1>4, <1>7, CrcIsExpected DEF Agreed, TypeOK
  <2>2. crc' = <<"/">> \o buffer'
    BY <1>2, <1>3, <2>1, BeginFrames, ByteAssumption
  <2>3. QED
    BY <1>2, <2>1, <2>2 DEF Agreed
<1>8. w[1][2] # Bang(w[1][1]) + CRC_LEN
  BY <1>1, <1>4
<1>9. QED
  BY <1>2, <1>6, <1>7, <1>8, ReadsOne

\* The '!' is the end of the body.
LEMMA QuietEnd ==
  ASSUME TypeOK, LinkTypeOK, CrcModeIsMajority,
         NEW w \in Seq(Places), Undisturbed(w), ReaderStep, EndMarker
  PROVE  \E u \in Seq(Places) : Undisturbed(u)'
<1>1. PICK i, k : i = w[1][1] /\ k = w[1][2]
  OBVIOUS
<1>2. /\ rx # <<>> /\ rx' = Tail(rx) /\ Head(rx) = "!" /\ state = "READING_STATE"
      /\ state' = "CHECKSUM_STATE" /\ crc' = (IF CrcSkipped THEN crc ELSE Append(crc, "!"))
      /\ UNCHANGED <<buffer, diag, seen, turn, at>> /\ (missed' = missed \/ missed' = 0)
  BY OtherSteps DEF EndMarker, Reads, Digest
<1>3. /\ k = Bang(i) /\ i \in DOMAIN Bodies /\ Bang(i) \in Nat /\ Bang(i) >= 2
      /\ CRC_LEN \in Nat /\ CRC_LEN >= 1 /\ Behind = CRC_LEN + 2
      /\ Bodies[i] \in Seq(Byte) /\ Len(Bodies[i]) = Bang(i) - 2
      /\ w[2][1] = i /\ w[2][2] = k + 1
      /\ Heard(i, k) /\ (SameCrc => Agreed(i, k))
  <2>1. Heard(i, k)
    BY <1>1, <1>2, AboutToRead
  <2>2. k \in Nat /\ Bang(i) \in Nat /\ 2 <= k /\ k <= Bang(i)
    BY <1>1, <1>2, <2>1, AboutToRead DEF Heard
  <2>3. ~(k < Bang(i))
    BY <1>1, <1>2, <2>2, AboutToRead
  <2>4. k = Bang(i)
    BY <2>2, <2>3
  <2>5. /\ Bang(i) >= 2 /\ CRC_LEN \in Nat /\ CRC_LEN >= 1 /\ Behind = CRC_LEN + 2
        /\ i \in DOMAIN Bodies /\ Bodies[i] \in Seq(Byte) /\ Len(Bodies[i]) = Bang(i) - 2
        /\ (SameCrc => Agreed(i, k))
    BY <1>1, <1>2, AboutToRead
  <2>6. k < Bang(i) + Behind
    BY <2>2, <2>4, <2>5
  <2>7. w[2][1] = i /\ w[2][2] = k + 1
    BY <1>1, <1>2, <2>6, AboutToRead
  <2>8. QED
    BY <2>1, <2>2, <2>4, <2>5, <2>7
<1>4. buffer = Bodies[i]
  <2>1. buffer = SubSeq(Bodies[i], 1, k - 2) /\ k - 2 = Len(Bodies[i])
    BY <1>2, <1>3 DEF Heard
  <2>2. QED
    BY <1>3, <2>1
<1>5. Heard(w[2][1], w[2][2])'
  BY <1>2, <1>3, <1>4 DEF Heard
<1>6. ASSUME SameCrc PROVE Agreed(w[2][1], w[2][2])'
  <2>1. Agreed(i, k) /\ ~CrcSkipped
    BY <1>3, <1>6, CrcIsExpected DEF Agreed, TypeOK
  <2>2. crc' = Append(<<"/">> \o buffer, "!")
    BY <1>2, <2>1 DEF Agreed
  <2>3. crc' = Frame(Bodies[i])
    BY <1>3, <1>4, <2>2, EndClosesFrame, ByteAssumption DEF Frame
  <2>4. QED
    BY <1>2, <1>3, <2>1, <2>3 DEF Agreed
<1>7. w[1][2] # Bang(w[1][1]) + CRC_LEN
  BY <1>1, <1>3
<1>8. QED
  BY <1>2, <1>5, <1>6, <1>7, ReadsOne

\* Every byte of the body is stored.
LEMMA QuietStore ==
  ASSUME RoomForBodies, TypeOK, LinkTypeOK, CrcModeIsMajority,
         NEW w \in Seq(Places), Undisturbed(w), ReaderStep, StoreByte
  PROVE  \E u \in Seq(Places) : Undisturbed(u)'
<1>1. PICK i, k : i = w[1][1] /\ k = w[1][2]
  OBVIOUS
<1>2. /\ rx # <<>> /\ rx' = Tail(rx) /\ Head(rx) # "!" /\ state = "READING_STATE"
      /\ UNCHANGED <<state, diag, seen, turn, at>> /\ (missed' = missed \/ missed' = 0)
      /\ crc' = (IF CrcSkipped THEN crc ELSE Append(crc, Head(rx)))
      /\ buffer' = (IF Len(buffer) < HeapLimit THEN Append(buffer, Head(rx)) ELSE buffer)
  BY OtherSteps DEF StoreByte, Reads, Digest
<1>3. /\ 2 <= k /\ k < Bang(i) /\ i \in DOMAIN Bodies /\ k \in Nat /\ Bang(i) \in Nat
      /\ CRC_LEN \in Nat /\ Behind = CRC_LEN + 2
      /\ Bodies[i] \in Seq(Byte) /\ Len(Bodies[i]) = Bang(i) - 2
      /\ w[2][1] = i /\ w[2][2] = k + 1
      /\ Heard(i, k) /\ (SameCrc => Agreed(i, k))
      /\ Head(rx) = Bodies[i][k - 1] /\ Head(rx) \in Byte
  <2>1. Heard(i, k)
    BY <1>1, <1>2, AboutToRead
  <2>2. k \in Nat /\ Bang(i) \in Nat /\ 2 <= k /\ k <= Bang(i)
    BY <1>1, <1>2, <2>1, AboutToRead DEF Heard
  <2>3. k # Bang(i)
    BY <1>1, <1>2, AboutToRead
  <2>4. k < Bang(i)
    BY <2>2, <2>3
  <2>5. /\ CRC_LEN \in Nat /\ Behind = CRC_LEN + 2
        /\ i \in DOMAIN Bodies /\ Bodies[i] \in Seq(Byte) /\ Len(Bodies[i]) = Bang(i) - 2
        /\ (SameCrc => Agreed(i, k)) /\ Head(rx) \in Byte
    BY <1>1, <1>2, AboutToRead
  <2>6. k < Bang(i) + Behind
    BY <2>2, <2>4, <2>5
  <2>7. w[2][1] = i /\ w[2][2] = k + 1
    BY <1>1, <1>2, <2>6, AboutToRead
  <2>8. Head(rx) = Bodies[i][k - 1]
    BY <1>1, <1>2, <2>2, <2>4, AboutToRead
  <2>9. QED
    BY <2>1, <2>2, <2>4, <2>5, <2>7, <2>8
<1>4. buffer = SubSeq(Bodies[i], 1, k - 2) /\ buffer \in Seq(Byte)
  BY <1>2, <1>3 DEF Heard, TypeOK
<1>5. PICK c : c = Head(rx)
  OBVIOUS
<1>6. buffer' = Append(buffer, c)
  <2>1. Len(buffer) = k - 2 /\ Len(Bodies[i]) <= HeapLimit /\ HeapLimit \in Nat
    BY <1>3, <1>4, BoundAssumption DEF RoomForBodies
  <2>2. Len(buffer) < HeapLimit
    BY <1>3, <2>1
  <2>3. QED
    BY <1>2, <1>5, <2>2
<1>7. buffer' = SubSeq(Bodies[i], 1, (k + 1) - 2)
  <2>1. \A t \in Seq(Byte), n \in Nat : n < Len(t) =>
          Append(SubSeq(t, 1, n), t[n + 1]) = SubSeq(t, 1, n + 1)
    OBVIOUS
  <2>2. PICK n \in Nat : n = k - 2
    BY <1>3
  <2>3. n < Len(Bodies[i]) /\ n + 1 = k - 1 /\ n + 1 = (k + 1) - 2
    BY <1>3, <2>2
  <2>4. Append(SubSeq(Bodies[i], 1, n), Bodies[i][n + 1]) = SubSeq(Bodies[i], 1, n + 1)
    BY <1>3, <2>1, <2>3
  <2>5. QED
    BY <1>3, <1>4, <1>5, <1>6, <2>2, <2>3, <2>4
<1>8. Heard(w[2][1], w[2][2])'
  <2>1. 2 <= k + 1 /\ k + 1 <= Bang(i)
    BY <1>3
  <2>2. QED
    BY <1>2, <1>3, <1>7, <2>1 DEF Heard
<1>9. ASSUME SameCrc PROVE Agreed(w[2][1], w[2][2])'
  <2>1. Agreed(i, k) /\ ~CrcSkipped
    BY <1>3, <1>9, CrcIsExpected DEF Agreed, TypeOK
  <2>2. crc' = Append(<<"/">> \o buffer, c)
    BY <1>2, <1>5, <2>1 DEF Agreed
  <2>3. Append(<<"/">> \o buffer, c) = <<"/">> \o Append(buffer, c)
    BY <1>3, <1>4, <1>5, StoreExtendsFrame, ByteAssumption
  <2>4. QED
    BY <1>2, <1>6, <2>1, <2>2, <2>3 DEF Agreed
<1>10. w[1][2] # Bang(w[1][1]) + CRC_LEN
  BY <1>1, <1>3
<1>11. QED
  BY <1>2, <1>8, <1>9, <1>10, ReadsOne

\* Behind the '!' are the digits of the meter's CRC.
LEMMA MeterDigits ==
  ASSUME NEW i \in DOMAIN Bodies, NEW j \in 1 .. CRC_LEN
  PROVE  /\ ByteAt(<<i, Bang(i) + j>>) = FormatCrc(MeterCrc(Bodies[i]))[j]
         /\ ByteAt(<<i, Bang(i) + j>>) \in HexDigit
         /\ ByteAt(<<i, Bang(i) + j>>) \notin EndOfLine
<1>1. ByteAt(<<i, Bang(i) + j>>) = Telegrams[i][Bang(i) + j]
  BY DEF ByteAt
<1>2. Telegrams[i][Bang(i) + j] = FormatCrc(MeterCrc(Bodies[i]))[j]
  BY TelegramIs
<1>3. PICK v \in Nat : v = MeterCrc(Bodies[i])
  BY MeterAssumption
<1>4. UpperDigits(v) \in Seq(ToSet(UpperHex)) /\ Len(UpperDigits(v)) = CRC_LEN
  BY UpperDigitsAre
<1>5. UpperDigits(v)[j] \in ToSet(UpperHex)
  BY <1>4
<1>6. UpperDigits(v)[j] \in HexDigit
  BY <1>5, PrintedValues
<1>7. "CR" \notin HexDigit /\ "LF" \notin HexDigit
  BY DEF HexDigit
<1>8. QED
  BY <1>1, <1>2, <1>3, <1>6, <1>7 DEF FormatCrc, EndOfLine

\* The first of them ...
LEMMA FirstDigit ==
  ASSUME TypeOK, NEW w \in Seq(Places), Undisturbed(w), rx # <<>>, state = "CHECKSUM_STATE",
         NEW i, NEW k, i = w[1][1], k = w[1][2]
  PROVE  k = Bang(i) + 1 /\ Head(rx) \in HexDigit /\ Head(rx) \notin EndOfLine
<1>1. k = Bang(i) + 1
  BY AboutToRead DEF Heard
<1>2. i \in DOMAIN Bodies /\ 1 \in 1 .. CRC_LEN
  BY AboutToRead
<1>3. w[1] = <<i, k>> /\ Head(rx) = ByteAt(w[1])
  BY NextByte, PlaceIs DEF Undisturbed
<1>4. QED
  BY <1>1, <1>2, <1>3, MeterDigits

\* ... is no end of line, and refused only by a reader that expects no CRC.
LEMMA QuietUnexpected ==
  ASSUME TypeOK, LinkTypeOK, CrcModeIsMajority,
         NEW w \in Seq(Places), Undisturbed(w), ReaderStep, SuffixUnexpected
  PROVE  Undisturbed(w)' /\ available' = FALSE /\ UNCHANGED once
<1>1. PICK i, k : i = w[1][1] /\ k = w[1][2]
  OBVIOUS
<1>2. /\ rx # <<>> /\ rx' = rx /\ state = "CHECKSUM_STATE" /\ state' = "WAITING_STATE"
      /\ UNCHANGED <<turn, at, once>> /\ (missed' = missed \/ missed' = 0) /\ available' = FALSE
      /\ CrcSkipped \/ ~isxdigit(Head(rx))
  BY OtherSteps DEF SuffixUnexpected, AtSuffix, Reads, RecordCrcError, request
<1>3. k = Bang(i) + 1 /\ Head(rx) \in HexDigit
  BY <1>1, <1>2, FirstDigit
<1>4. CrcSkipped
  BY <1>2, <1>3 DEF isxdigit
<1>5. ~SameCrc
  <2>1. SameCrc => Agreed(i, k)
    BY <1>1 DEF Undisturbed
  <2>2. QED
    BY <1>4, <2>1, CrcIsExpected DEF Agreed, TypeOK
<1>6. k > Bang(i)
  BY <1>1, <1>2, <1>3, AboutToRead
<1>7. Heard(i, k)'
  BY <1>2, <1>6 DEF Heard
<1>8. QED
  BY <1>1, <1>2, <1>5, <1>7, ReadsNone

\* The CRC of the meter is that of the reader, digit by digit.
LEMMA DigitsMatch ==
  ASSUME TypeOK, NEW w \in Seq(Places), Undisturbed(w), SameCrc, state = "CHECKSUM_STATE",
         Len(rx) >= CRC_LEN
  PROVE  CrcMatches(SubSeq(rx, 1, CRC_LEN))
<1>1. PICK i, k : i = w[1][1] /\ k = w[1][2]
  OBVIOUS
<1>2. rx # <<>> /\ CRC_LEN \in Nat /\ CRC_LEN >= 1 /\ Len(rx) \in Nat /\ rx \in Seq(Byte)
  BY CrcLenAssumption DEF TypeOK
<1>3. /\ k = Bang(i) + 1 /\ i \in DOMAIN Bodies /\ Bang(i) \in Nat /\ Behind = CRC_LEN + 2
      /\ Agreed(i, k) /\ w[1] \in Places /\ k \in Nat
  BY <1>1, <1>2, FirstDigit, AboutToRead
<1>4. Holds(rx, w, Here)
  BY DEF Undisturbed
<1>5. PICK m \in Nat : m = CRC_LEN - 1
  BY <1>2
<1>6. RunsOn(w, i, k, m)
  <2>1. k + m <= Bang(i) + Behind /\ m <= Len(rx)
    BY <1>2, <1>3, <1>5
  <2>2. w[1] = <<i, k>> /\ k \in Nat
    BY <1>1, <1>3, PlaceIs
  <2>3. rx \in Seq(Byte)
    BY <1>2
  <2>4. k + m <= Bang(i) + Behind
    BY <2>1
  <2>5. m <= Len(rx)
    BY <2>1
  <2>6. w[1] = <<i, k>>
    BY <2>2
  <2>7. k \in Nat
    BY <2>2
  <2>8. QED
    BY <1>4, <2>3, <2>4, <2>5, <2>6, <2>7, HoldsRun
<1> DEFINE digits == SubSeq(rx, 1, CRC_LEN)
<1>7. Len(digits) = CRC_LEN /\ digits \in Seq(Byte) /\ \A j \in 1 .. CRC_LEN : digits[j] = rx[j]
  BY <1>2
<1>8. PICK v \in Nat : v = MeterCrc(Bodies[i])
  BY <1>3, MeterAssumption
<1>9. v < 65536 /\ Shifted(v)[CRC_LEN] = 0 /\ v = CrcOf(Frame(Bodies[i]))
  BY <1>3, <1>8 DEF SameCrc
<1>10. /\ FormatCrc(v) \in Seq(ToSet(UpperHex)) /\ Len(FormatCrc(v)) = CRC_LEN
       /\ ParseCrc(FormatCrc(v)).ok /\ ParseCrc(FormatCrc(v)).value = v
  BY <1>9, PrintedCrcParses
<1> HIDE DEF digits
<1>11. ASSUME NEW j \in 1 .. CRC_LEN PROVE digits[j] = FormatCrc(v)[j]
  <2>1. j - 1 \in 0 .. m /\ (j - 1) + 1 = j /\ k + (j - 1) = Bang(i) + j
    BY <1>2, <1>3, <1>5
  <2>2. w[j] = <<i, Bang(i) + j>>
    BY <1>6, <2>1 DEF RunsOn
  <2>3. j \in 1 .. Len(rx)
    BY <1>2
  <2>4. rx[j] = ByteAt(w[j])
    BY <1>4, <2>3 DEF Holds
  <2>5. QED
    BY <1>3, <1>7, <1>8, <2>2, <2>4, MeterDigits
<1>12. digits = FormatCrc(v)
  <2>1. FormatCrc(v) \in Seq(ToSet(UpperHex)) /\ digits \in Seq(Byte)
    BY <1>7, <1>10
  <2>2. QED
    BY <1>7, <1>10, <1>11, <2>1, SeqEqual
<1>13. crc = Frame(Bodies[i])
  BY <1>3 DEF Agreed
<1>14. ParseCrc(digits).ok /\ ParseCrc(digits).value = v
  BY <1>10, <1>12
<1>15. v = CrcOf(crc)
  <2>1. \A x, y : x = y => CrcOf(x) = CrcOf(y)
    OBVIOUS
  <2>2. CrcOf(crc) = CrcOf(Frame(Bodies[i]))
    BY <1>13, <2>1
  <2>3. QED
    BY <1>9, <2>2
<1>16. CrcMatches(digits)
  BY <1>14, <1>15, Zenon DEF CrcMatches
<1>17. QED
  BY <1>16 DEF digits

\* A telegram is read to its end: what is announced was sent.
LEMMA QuietCrc ==
  ASSUME TypeOK, LinkTypeOK, BufferFollowsState, CrcModeIsMajority, ~once,
         NEW w \in Seq(Places), Undisturbed(w), ReaderStep, SuffixCrc
  PROVE  AnnouncedIsSent' /\ UNCHANGED once /\ \E u \in Seq(Places) : Undisturbed(u)'
<1> DEFINE digits == SubSeq(rx, 1, CRC_LEN)
           rest   == SubSeq(rx, CRC_LEN + 1, Len(rx))
<1>1. PICK i, k : i = w[1][1] /\ k = w[1][2]
  OBVIOUS
<1>2. /\ rx # <<>> /\ Len(rx) >= CRC_LEN /\ state = "CHECKSUM_STATE" /\ UNCHANGED <<turn, at>>
      /\ \/ CrcMatches(digits) /\ Accept(TRUE, digits, rest)
         \/ ~CrcMatches(digits) /\ RecordCrcError /\ rx' = rest
  BY OtherSteps DEF SuffixCrc, AtCrc, AtSuffix, Reads
<1>3. SameCrc => CrcMatches(digits)
  BY <1>2, DigitsMatch
<1> HIDE DEF digits, rest
<1>4. rx' = rest /\ state' = "WAITING_STATE" /\ UNCHANGED once
  BY <1>2 DEF Accept, AfterTelegram, RecordCrcError, request
<1>5. /\ k = Bang(i) + 1 /\ i \in DOMAIN Bodies /\ Bang(i) \in Nat /\ Behind = CRC_LEN + 2
      /\ CRC_LEN \in Nat /\ w[1] \in Places /\ k \in Nat
      /\ Heard(i, k) /\ (SameCrc => Agreed(i, k))
  BY <1>1, <1>2, FirstDigit, AboutToRead
<1>6. w[CRC_LEN + 1] = <<i, Bang(i) + 1 + CRC_LEN>>
  <2>1. PICK m \in Nat : m = CRC_LEN
    BY <1>5
  <2>2. Holds(rx, w, Here)
    BY DEF Undisturbed
  <2>3. rx \in Seq(Byte)
    BY DEF TypeOK
  <2>4. k + m <= Bang(i) + Behind
    BY <1>5, <2>1
  <2>5. m <= Len(rx)
    BY <1>2, <2>1
  <2>6. w[1] = <<i, k>>
    BY <1>1, <1>5, PlaceIs
  <2>7. k \in Nat
    BY <1>5
  <2>8. RunsOn(w, i, k, m)
    BY <2>2, <2>3, <2>4, <2>5, <2>6, <2>7, HoldsRun
  <2>9. k + m = Bang(i) + 1 + CRC_LEN /\ m + 1 = CRC_LEN + 1 /\ m \in 0 .. m
    BY <1>5, <2>1
  <2>10. QED
    BY <2>8, <2>9 DEF RunsOn
<1>7. Heard(w[CRC_LEN + 1][1], w[CRC_LEN + 1][2])'
  <2>1. Bang(i) + 1 + CRC_LEN > Bang(i)
    BY <1>5
  <2>2. QED
    BY <1>4, <1>6, <2>1 DEF Heard
<1>8. ASSUME SameCrc PROVE Agreed(w[CRC_LEN + 1][1], w[CRC_LEN + 1][2])' /\ missed' = 0
  <2>1. Agreed(i, k) /\ Accept(TRUE, digits, rest)
    BY <1>2, <1>3, <1>5, <1>8
  <2>2. diag' = ObserveCrc(diag, TRUE) /\ seen' = WithVote(seen, TRUE) /\ available' = TRUE
    BY <2>1 DEF Accept
  <2>3. diag'.crc_errors = 0
    BY <2>1, <2>2, VoteKeepsErrors, TRUE \in BOOLEAN DEF Agreed, TypeOK
  <2>4. \A j \in DOMAIN seen' : seen'[j]
    <3>1. seen \in Seq(BOOLEAN) /\ \A j \in DOMAIN seen : seen[j]
      BY <2>1 DEF TypeOK, Agreed
    <3>2. CASE seen' = seen
      BY <3>1, <3>2
    <3>3. CASE seen' = Append(seen, TRUE)
      <4>1. \A t \in Seq(BOOLEAN) : (\A j \in DOMAIN t : t[j] = TRUE) =>
              \A j \in DOMAIN Append(t, TRUE) : Append(t, TRUE)[j] = TRUE
        OBVIOUS
      <4>2. \A j \in DOMAIN seen : seen[j] = TRUE
        <5>1. \A j \in DOMAIN seen : seen[j] \in BOOLEAN
          BY <3>1
        <5>2. QED
          BY <3>1, <5>1
      <4>3. \A j \in DOMAIN Append(seen, TRUE) : Append(seen, TRUE)[j] = TRUE
        BY <3>1, <4>1, <4>2
      <4>4. QED
        BY <3>3, <4>3
    <3>4. QED
      BY <2>2, <3>2, <3>3 DEF WithVote
  <2>5. Bang(i) + 1 + CRC_LEN > Bang(i) + CRC_LEN
    BY <1>5
  <2>6. Agreed(w[CRC_LEN + 1][1], w[CRC_LEN + 1][2])'
    BY <1>4, <1>6, <2>3, <2>4, <2>5 DEF Agreed
  <2>7. ~available
    BY <1>2 DEF BufferFollowsState, Receiving
  <2>8. QED
    BY <2>2, <2>6, <2>7 DEF ReaderStep
<1>9. AnnouncedIsSent'
  <2>1. available' => buffer' = buffer
    BY <1>2 DEF Accept, RecordCrcError
  <2>2. buffer = Bodies[i]
    BY <1>2, <1>5 DEF Heard
  <2>3. QED
    BY <1>5, <2>1, <2>2 DEF AnnouncedIsSent
<1>10. \E u \in Seq(Places) : Undisturbed(u)'
  BY <1>2, <1>4, <1>7, <1>8, ReadsCrc DEF rest
<1>11. QED
  BY <1>4, <1>9, <1>10

\* Nothing is there, or not all of the CRC.
LEMMA QuietIdle ==
  ASSUME TypeOK, LinkTypeOK, NEW w \in Seq(Places), Undisturbed(w), ReaderStep,
         LoopIdle \/ SuffixIncomplete
  PROVE  Undisturbed(w)' /\ UNCHANGED <<buffer, available, once>>
<1>1. /\ UNCHANGED <<rx, state, buffer, crc, diag, seen, available, once, turn, at>>
      /\ (missed' = missed \/ missed' = 0)
  BY OtherSteps DEF LoopIdle, SuffixIncomplete, telegram, history, request
<1>2. Heard(w[1][1], w[1][2]) => Heard(w[1][1], w[1][2])'
  BY <1>1 DEF Heard
<1>3. Agreed(w[1][1], w[1][2]) => Agreed(w[1][1], w[1][2])'
  BY <1>1 DEF Agreed
<1>4. QED
  BY <1>1, <1>2, <1>3, ReadsNone DEF Undisturbed

\* Every step of the reader leaves an undisturbed line undisturbed.
LEMMA QuietReader ==
  ASSUME RoomForBodies, TypeOK, LinkTypeOK, BufferFollowsState, CrcModeIsMajority,
         ~once, AnnouncedIsSent, NEW w \in Seq(Places), Undisturbed(w), ReaderStep
  PROVE  ~once' /\ AnnouncedIsSent' /\ \E u \in Seq(Places) : Undisturbed(u)'
<1>1. ASSUME UNCHANGED <<buffer, available>> \/ available' = FALSE PROVE AnnouncedIsSent'
  BY <1>1 DEF AnnouncedIsSent
<1>2. CASE LoopIdle \/ SuffixIncomplete
  BY <1>1, <1>2, QuietIdle
<1>3. CASE LoopToss
  BY <1>1, <1>3, QuietToss DEF LoopToss, telegram, request
<1>4. CASE StartTelegram
  <2>1. available' = FALSE /\ once' = once
    BY <1>4 DEF StartTelegram, Clear, request, TypeOK
  <2>2. QED
    BY <1>1, <1>4, <2>1, QuietStart
<1>5. CASE EndMarker
  BY <1>1, <1>5, QuietEnd DEF EndMarker, request
<1>6. CASE StoreByte
  <2>1. available' = FALSE /\ once' = once
    BY <1>6 DEF StoreByte, Reads, request, BufferFollowsState, Receiving, TypeOK
  <2>2. QED
    BY <1>1, <1>6, <2>1, QuietStore
<1>7. CASE SuffixLineEnd
  <2>1. PICK i, k : i = w[1][1] /\ k = w[1][2]
    OBVIOUS
  <2>2. Head(rx) \notin EndOfLine
    BY <1>7, <2>1, FirstDigit DEF SuffixLineEnd, AtSuffix, Reads
  <2>3. QED
    BY <1>7, <2>2 DEF SuffixLineEnd
<1>8. CASE SuffixUnexpected
  BY <1>1, <1>8, QuietUnexpected
<1>9. CASE SuffixCrc
  BY <1>9, QuietCrc
<1>10. QED
  BY <1>2, <1>3, <1>4, <1>5, <1>6, <1>7, <1>8, <1>9 DEF ReaderStep, Loop

(***************************************************************************)
(* An undisturbed line, step by step: the sketch and the meter             *)
(***************************************************************************)
\* The README's sketch asks once, and looks for what is announced.
LEMMA QuietSketch ==
  ASSUME TypeOK, LinkTypeOK, SketchInv, BufferFollowsState, sketch = "poll",
         ~once, AnnouncedIsSent, NEW w \in Seq(Places), Undisturbed(w),
         Sketch \/ EnableAgain \/ UNCHANGED allVars
  PROVE  ~once' /\ AnnouncedIsSent' /\ \E u \in Seq(Places) : Undisturbed(u)'
<1>1. UNCHANGED <<turn, at>> /\ (missed' = missed \/ missed' = 0)
  BY OtherSteps
<1>2. PICK i, k : i = w[1][1] /\ k = w[1][2]
  OBVIOUS
<1>3. Heard(i, k) /\ (SameCrc => Agreed(i, k))
  BY <1>2 DEF Undisturbed
<1>4. ASSUME rx' = rx, Heard(i, k)', SameCrc => Agreed(i, k)'
      PROVE  \E u \in Seq(Places) : Undisturbed(u)'
  BY <1>1, <1>2, <1>4, ReadsNone
<1>5. CASE UNCHANGED <<rx, state, buffer, crc, diag, seen, available, once>>
  <2>1. Heard(i, k)' /\ (SameCrc => Agreed(i, k)')
    BY <1>1, <1>3, <1>5 DEF Heard, Agreed
  <2>2. AnnouncedIsSent'
    BY <1>5 DEF AnnouncedIsSent
  <2>3. QED
    BY <1>4, <1>5, <2>1, <2>2
<1>6. CASE Setup
  <2>1. state = "DISABLED_STATE" /\ state' = "WAITING_STATE" /\ once' = FALSE
        /\ UNCHANGED <<rx, buffer, crc, diag, seen, available>>
    BY <1>6 DEF Setup, At, Request, Enable, SketchInv, telegram, history
  <2>2. k = 1
    BY <1>3, <2>1 DEF Heard
  <2>3. Heard(i, k)' /\ (SameCrc => Agreed(i, k)')
    BY <1>3, <2>1, <2>2 DEF Heard, Agreed
  <2>4. AnnouncedIsSent'
    BY <2>1 DEF AnnouncedIsSent
  <2>5. QED
    BY <1>4, <2>1, <2>3, <2>4
<1>7. CASE ParseTelegram
  <2>1. /\ available /\ available' = FALSE /\ once' = once
        /\ UNCHANGED <<rx, state, crc, seen>> /\ diag' = AddSkipped(diag, 0)
    BY <1>7 DEF ParseTelegram, Parse, Clear, request, history
  <2>2. ~Receiving
    BY <2>1 DEF BufferFollowsState
  <2>3. diag'.crc_errors = diag.crc_errors
    BY <2>1 DEF AddSkipped, TypeOK, Tracker
  <2>4. Heard(i, k)' /\ (SameCrc => Agreed(i, k)')
    BY <1>1, <1>3, <2>1, <2>2, <2>3 DEF Heard, Agreed, Receiving
  <2>5. AnnouncedIsSent'
    BY <2>1 DEF AnnouncedIsSent
  <2>6. QED
    BY <1>4, <2>1, <2>4, <2>5
<1>8. CASE SketchCallsLoop \/ NothingToParse \/ UNCHANGED allVars
  BY <1>5, <1>8 DEF SketchCallsLoop, CallLoop, NothingToParse, Continue, telegram, request,
     history, vars, allVars
<1>9. CASE NotYetAgain \/ EnableAgain
  BY <1>9 DEF NotYetAgain, EnableAgain, At, SketchInv
<1>10. QED
  BY <1>6, <1>7, <1>8, <1>9 DEF Sketch

\* The meter begins a telegram for a reader that listens ...
LEMMA QuietBegin ==
  ASSUME TypeOK, LinkTypeOK, RequestInv, NEW w \in Seq(Places), Undisturbed(w), BeginTelegram
  PROVE  Undisturbed(w)'
<1>1. /\ at = 0 /\ at' = 1 /\ req_pin = "HIGH"
      /\ UNCHANGED <<turn, missed, rx, state, buffer, crc, diag, seen>>
  BY DEF BeginTelegram, vars, telegram, history
<1>2. Here' = Here
  BY <1>1 DEF Here
<1>3. Since' = Since
  <2>1. Bang(turn) \in Nat /\ CRC_LEN \in Nat /\ CRC_LEN >= 1
    BY TrailFacts, CrcLenAssumption
  <2>2. 1 <= Bang(turn) + CRC_LEN /\ 1 + 1 = 2
    BY <2>1
  <2>3. Since = 2 /\ Since' = 2
    BY <1>1, <2>2 DEF Since
  <2>4. QED
    BY <2>3
<1>4. Holds(rx, w, Here)'
  BY <1>1, <1>2 DEF Undisturbed, Holds
<1>5. Heard(w[1][1], w[1][2])'
  <2>1. state # "DISABLED_STATE"
    BY <1>1 DEF RequestInv
  <2>2. QED
    BY <1>1, <2>1 DEF Undisturbed, Heard
<1>6. Agreed(w[1][1], w[1][2]) => Agreed(w[1][1], w[1][2])'
  BY <1>1 DEF Agreed
<1>7. InTime(w) => InTime(w)'
  BY <1>1, <1>3 DEF InTime
<1>8. QED
  BY <1>4, <1>5, <1>6, <1>7 DEF Undisturbed

\* ... and when the last digit of a CRC leaves, the one before was read: it
\* would not fit into the queue.
LEMMA QuietCount ==
  ASSUME TypeOK, LinkTypeOK, SendByte, SmallQueue, NEW w \in Seq(Places), NEW u,
         Len(w) = Len(rx) + 1, w[Len(w)] = Here, InTime(w),
         \A j \in 1 .. Len(w) : u[j] = w[j]
  PROVE  InTime(u)'
<1> DEFINE n == Len(rx)
           T == Len(Telegrams[turn])
           D == Bang(turn) + CRC_LEN
<1>1. /\ n \in Nat /\ T = D + 2 /\ D \in Nat /\ turn \in DOMAIN Bodies
      /\ at \in Nat /\ at >= 1 /\ at <= T
  <2>1. /\ Bang(turn) \in Nat /\ T = Bang(turn) + Behind /\ at \in Nat /\ at <= T
    BY TrailFacts
  <2>2. Behind = CRC_LEN + 2 /\ CRC_LEN \in Nat
    BY CrcLenAssumption DEF Behind
  <2>3. turn \in DOMAIN Bodies /\ n \in Nat
    BY DEF LinkTypeOK, TypeOK
  <2>4. at > 0
    BY DEF SendByte, Advance
  <2>5. QED
    BY <2>1, <2>2, <2>3, <2>4
<1>2. Len(rx') = n + 1 /\ n < FifoSize /\ FifoSize <= T /\ FifoSize \in Nat
  <2>1. rx' = Append(rx, Telegrams[turn][at]) /\ n < FifoSize
    BY DEF SendByte, Arrive
  <2>2. Len(rx') = n + 1
    BY <2>1 DEF TypeOK
  <2>3. FifoSize <= T /\ FifoSize \in Nat
    BY <1>1, FifoAssumption DEF SmallQueue
  <2>4. QED
    BY <2>1, <2>2, <2>3
<1>3. /\ missed \in Nat
      /\ at = D => missed' \in {missed, missed + 1}
      /\ at # D => missed' = missed
  <2>1. LastDigit = T - 2
    BY DEF LastDigit
  <2>2. Advance(TRUE)
    BY DEF SendByte
  <2>3. missed' = IF whole' /\ at = LastDigit /\ missed <= MaxFaults + 1 THEN missed + 1 ELSE missed
    BY <2>2, Zenon DEF Advance
  <2>4. T - 2 = D
    BY <1>1
  <2>5. missed \in Nat
    BY DEF LinkTypeOK
  <2>6. QED
    BY <2>1, <2>3, <2>4, <2>5
<1>4. /\ at < T => at' = at + 1 /\ turn' = turn
      /\ ~(at < T) => at' = 0
  BY DEF SendByte, Advance
<1>5. Since \in Nat /\ (at = D => Since = D + 1) /\ (at # D => Since' = Since + 1)
      /\ (at = D => Since' = 0)
  <2>1. CASE at <= D
    <3>1. Since = at + 1
      BY <1>1, <2>1 DEF Since
    <3>2. at' = at + 1 /\ turn' = turn /\ at + 1 # 0
      BY <1>1, <1>4, <2>1
    <3>3. Since' = IF at + 1 <= D THEN (at + 1) + 1 ELSE (at + 1) - 1 - D
      BY <3>2 DEF Since
    <3>4. QED
      BY <1>1, <2>1, <3>1, <3>3
  <2>2. CASE at = D + 1
    <3>1. Since = 0
      BY <1>1, <2>2 DEF Since
    <3>2. at' = at + 1 /\ turn' = turn /\ at + 1 = D + 2
      BY <1>1, <1>4, <2>2
    <3>3. Since' = (D + 2) - 1 - D
      BY <1>1, <3>2 DEF Since
    <3>4. QED
      BY <1>1, <2>2, <3>1, <3>3
  <2>3. CASE at = D + 2
    <3>1. Since = 1
      BY <1>1, <2>3 DEF Since
    <3>2. at' = 0
      BY <1>1, <1>4, <2>3
    <3>3. Since' = 2
      BY <3>2 DEF Since
    <3>4. QED
      BY <1>1, <2>3, <3>1, <3>3
  <2>4. QED
    BY <1>1, <2>1, <2>2, <2>3
<1> HIDE DEF n, T, D
<1>6. CASE at = D
  <2>1. missed # 1
    <3>1. missed = 1 => Since < n
      BY DEF InTime, n
    <3>2. QED
      BY <1>1, <1>2, <1>5, <1>6, <3>1
  <2>2. missed <= 1 /\ missed' <= 1
    BY <1>3, <1>6, <2>1 DEF InTime
  <2>3. (n + 1) - 0 = Len(w) /\ Len(w) \in 1 .. Len(w)
    BY <1>1 DEF n
  <2>4. u[(n + 1) - 0] = Here
    BY <2>3
  <2>5. Here = <<turn, at>>
    BY <1>1 DEF Here
  <2>6. u[Len(rx') - Since'] = <<turn, at>> /\ Since' < Len(rx')
    BY <1>1, <1>2, <1>5, <1>6, <2>4, <2>5
  <2>7. u[Len(rx') - Since'][2] = Bang(u[Len(rx') - Since'][1]) + CRC_LEN
    BY <1>6, <2>6 DEF D
  <2>8. QED
    BY <2>2, <2>6, <2>7 DEF InTime
<1>7. CASE at # D
  <2>1. missed' = missed /\ missed <= 1 /\ Since' = Since + 1
    BY <1>3, <1>5, <1>7 DEF InTime
  <2>2. ASSUME missed = 1
        PROVE  /\ Since' < Len(rx')
               /\ u[Len(rx') - Since'][2] = Bang(u[Len(rx') - Since'][1]) + CRC_LEN
    <3>1. Since < n /\ w[n - Since][2] = Bang(w[n - Since][1]) + CRC_LEN
      BY <2>2 DEF InTime, n
    <3>2. Len(rx') - Since' = n - Since /\ n - Since \in 1 .. Len(w) /\ Since' < Len(rx')
      BY <1>1, <1>2, <1>5, <2>1, <3>1 DEF n
    <3>3. u[Len(rx') - Since'] = w[n - Since]
      BY <3>2
    <3>4. QED
      BY <3>1, <3>2, <3>3
  <2>3. QED
    BY <2>1, <2>2 DEF InTime
<1>8. QED
  BY <1>6, <1>7

\* Every byte takes its place in the queue.
LEMMA QuietSend ==
  ASSUME TypeOK, LinkTypeOK, NEW w \in Seq(Places), Undisturbed(w), SendByte
  PROVE  \E u \in Seq(Places) : Undisturbed(u)'
<1>1. /\ Advance(TRUE) /\ rx' = Append(rx, Telegrams[turn][at])
      /\ UNCHANGED <<state, buffer, crc, diag, seen>>
  BY DEF SendByte, Arrive, telegram, history
<1>2. /\ Here' = Following(Here) /\ ByteAt(Here) = Telegrams[turn][at] /\ Here \in Places
      /\ rx \in Seq(Byte) /\ Holds(rx, w, Here)
  BY <1>1, HereIs, HereFollows, TRUE \in BOOLEAN DEF Undisturbed, TypeOK
<1> DEFINE u == Append(w, Following(Here))
<1>3. /\ Holds(rx, w, Here)
      /\ Holds(Append(rx, ByteAt(Here)), u, Following(Here))
      /\ Len(w) = Len(rx) + 1 /\ Len(rx) \in Nat /\ u \in Seq(Places)
      /\ \A j \in 1 .. Len(w) : u[j] = w[j]
  BY <1>2, HoldsMore
<1>4. PICK v \in Seq(Places) : v = u
  BY <1>3
<1> HIDE DEF u
<1>5. Holds(rx, v, Here)'
  BY <1>1, <1>2, <1>3, <1>4 DEF Holds
<1>6. v[1] = w[1] /\ \A j \in 1 .. Len(w) : v[j] = w[j]
  BY <1>3, <1>4
<1>7. state # "DISABLED_STATE"
  <2>1. at # 0
    BY <1>1 DEF Advance, LinkTypeOK
  <2>2. QED
    BY <2>1 DEF Undisturbed, Heard
<1>8. Heard(v[1][1], v[1][2])'
  BY <1>1, <1>6, <1>7 DEF Undisturbed, Heard
<1>9. Agreed(w[1][1], w[1][2]) => Agreed(v[1][1], v[1][2])'
  BY <1>1, <1>6 DEF Agreed
<1>10. SmallQueue /\ InTime(w) => InTime(v)'
  <2>1. w[Len(w)] = Here
    BY <1>3 DEF Holds
  <2>2. QED
    BY <1>3, <1>6, <2>1, QuietCount
<1>11. Undisturbed(v)'
  BY <1>5, <1>8, <1>9, <1>10 DEF Undisturbed
<1>12. QED
  BY <1>11

\* Every step.
LEMMA QuietStep ==
  ASSUME RoomForBodies, TypeOK, LinkTypeOK, LinkTypeOK', SketchInv, RequestInv,
         LeftAlone => BufferFollowsState, CrcModeIsMajority, UndisturbedInv, [LinkNext]_allVars
  PROVE  UndisturbedInv'
<1> SUFFICES ASSUME sketch' = "poll", faults' = 0
             PROVE  ~once' /\ AnnouncedIsSent' /\ \E u \in Seq(Places) : Undisturbed(u)'
  BY DEF UndisturbedInv
<1>1. sketch = "poll" /\ BufferFollowsState
  BY SameSketch DEF LeftAlone
<1>2. faults \in Nat /\ (burst => faults > 0)
  BY DEF LinkTypeOK
<1>3. ASSUME LoseByte \/ \E c \in Noise : GarbleByte(c) PROVE FALSE
  <2>1. faults' = faults + 1 \/ (burst /\ faults' = faults)
    BY <1>3, Zenon DEF LoseByte, GarbleByte
  <2>2. QED
    BY <1>2, <2>1
<1>4. faults = 0
  BY <1>2, <1>3, OtherSteps DEF LinkNext, BeginTelegram, SendByte, line
<1>5. ~once /\ AnnouncedIsSent
  BY <1>1, <1>4 DEF UndisturbedInv
<1>6. PICK w \in Seq(Places) : Undisturbed(w)
  BY <1>1, <1>4 DEF UndisturbedInv
<1>7. CASE BeginTelegram \/ SendByte
  <2>1. UNCHANGED <<once, available, buffer>>
    BY <1>7 DEF BeginTelegram, SendByte, Arrive, vars, telegram, request
  <2>2. ~once' /\ AnnouncedIsSent'
    BY <1>5, <2>1 DEF AnnouncedIsSent
  <2>3. QED
    BY <1>6, <1>7, <2>2, QuietBegin, QuietSend
<1>8. CASE ReaderStep
  BY <1>1, <1>5, <1>6, <1>8, QuietReader
<1>9. CASE Sketch \/ EnableAgain \/ UNCHANGED allVars
  BY <1>1, <1>5, <1>6, <1>9, QuietSketch
<1>10. QED
  BY <1>3, <1>7, <1>8, <1>9 DEF LinkNext

\* At first the meter is at its first byte, and nothing is queued.
LEMMA QuietInit == LinkInit => UndisturbedInv
<1> SUFFICES ASSUME LinkInit
             PROVE  ~once /\ AnnouncedIsSent /\ \E u \in Seq(Places) : Undisturbed(u)
  BY DEF UndisturbedInv
<1>1. /\ rx = <<>> /\ state = "DISABLED_STATE" /\ turn = 1 /\ at = 0 /\ missed = 0
      /\ diag = ResetTracker /\ seen = <<>> /\ ~once /\ ~available
  BY DEF LinkInit, Init
<1>2. 1 \in DOMAIN Bodies /\ Len(Telegrams[1]) \in Nat /\ Len(Telegrams[1]) >= 1
  BY BodiesAre, TelegramLength
<1>3. Here = <<1, 1>> /\ Here \in Places
  BY <1>1, <1>2 DEF Here, Places
<1>4. PICK p \in Places : p = Here
  BY <1>3
<1>5. <<p>> \in Seq(Places) /\ Len(<<p>>) = 1 /\ <<p>>[1] = p /\ Len(<<>>) = 0
  OBVIOUS
<1>6. Holds(rx, <<p>>, Here)
  BY <1>1, <1>4, <1>5 DEF Holds
<1>7. p[2] = 1
  BY <1>3, <1>4
<1>8. Heard(p[1], p[2])
  BY <1>1, <1>7 DEF Heard
<1>9. Agreed(p[1], p[2])
  BY <1>1, <1>7 DEF Agreed, ResetTracker
<1>10. InTime(<<p>>)
  BY <1>1 DEF InTime
<1>11. Undisturbed(<<p>>)
  BY <1>5, <1>6, <1>8, <1>9, <1>10 DEF Undisturbed
<1>12. QED
  BY <1>1, <1>5, <1>11 DEF AnnouncedIsSent

\* An undisturbed line, from the first byte on.
LEMMA QuietAlways == ASSUME RoomForBodies PROVE LinkSpec => []UndisturbedInv
<1>1. Init => RequestInv
  BY DEF Init, RequestInv
<1>2. RequestInv /\ [Next]_vars => RequestInv'
  BY RequestStep
<1>3. /\ TypeOK /\ LinkTypeOK /\ LinkTypeOK' /\ SketchInv /\ RequestInv
      /\ (LeftAlone => BufferFollowsState) /\ CrcModeIsMajority /\ UndisturbedInv
      /\ [LinkNext]_allVars
      => UndisturbedInv'
  BY QuietStep
<1>4. QED
  BY <1>1, <1>2, <1>3, QuietInit, ReaderInPlace, BufferFollowsStateInPlace,
     CrcModeAlwaysMajority, PTL DEF LinkSpec, Spec

\* What the polling sketch of the README is told of, on a line that was never
\* disturbed, is the body of a telegram of the meter, byte for byte: not a
\* part of one, nor two of them joined, whatever the meter sends and however
\* its bytes fall between the calls of loop() (P1Reader::loop; class comment
\* of P1Reader).
THEOREM AnnouncedAsSent ==
  ASSUME RoomForBodies
  PROVE  LinkSpec => [](sketch = "poll" /\ faults = 0 => AnnouncedIsSent)
<1>1. UndisturbedInv => (sketch = "poll" /\ faults = 0 => AnnouncedIsSent)
  BY DEF UndisturbedInv
<1>2. QED
  BY <1>1, QuietAlways, PTL

\* If reader and meter agree about the CRC, and the stream queues no more
\* than a telegram, then on that line every telegram is announced before the
\* next one ends, and none is refused (P1Reader::loop, CHECKSUM_STATE).
THEOREM NoneMissed ==
  ASSUME RoomForBodies, SameCrc, SmallQueue
  PROVE  LinkSpec => [](sketch = "poll" /\ faults = 0 => MissedIsBounded /\ diag.crc_errors = 0)
<1>1. UndisturbedInv => (sketch = "poll" /\ faults = 0 => MissedIsBounded /\ diag.crc_errors = 0)
  BY DEF UndisturbedInv, Undisturbed, InTime, Agreed, MissedIsBounded
<1>2. QED
  BY <1>1, QuietAlways, PTL
=============================================================================
