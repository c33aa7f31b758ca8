---------------------- MODULE P1PacketAccumulatorProofs ---------------------
(***************************************************************************)
(* Proofs about P1PacketAccumulator, for every capacity, set of bytes, CRC *)
(* function and number of CRC digits.                                      *)
(***************************************************************************)
EXTENDS P1PacketAccumulator, ReaderLemmas

(***************************************************************************)
(* Type correctness                                                        *)
(***************************************************************************)
\* The values that reset() and start() assign have the right types.
LEMMA InitialValues ==
  /\ <<>> \in Seq(Byte)
  /\ <<Start>> \in Seq(Byte)
  /\ <<>> \in Seq(BOOLEAN)
  /\ ResetTracker \in Tracker
BY TrackerReset, ByteAssumption

\* Every step of the state machine keeps its types (P1PacketAccumulator).
LEMMA TypeStep == TypeOK /\ [Next]_vars => TypeOK'
<1> USE InitialValues
<1> SUFFICES ASSUME TypeOK, [Next]_vars PROVE TypeOK'
  OBVIOUS
<1> USE ByteAssumption DEF TypeOK, State, Result, Rejection, EndOfLine, Start, End,
                           telegram, wireHistory
<1>1. CountCrcError(diag) \in Tracker
  BY TrackerCounters
<1>2. \A p \in BOOLEAN : ObserveCrc(diag, p) \in Tracker
  BY TrackerVotes
<1>3. ASSUME NEW c \in Byte, Hunt(c) PROVE TypeOK'
  BY <1>3 DEF Hunt
<1>4. ASSUME NEW c \in Byte, StartTelegram(c) PROVE TypeOK'
  BY <1>4 DEF StartTelegram, Begin
<1>5. ASSUME NEW c \in Byte, EndMarker(c) PROVE TypeOK'
  BY <1>5 DEF EndMarker, Digest
<1>6. ASSUME NEW c \in Byte, BufferOverflow(c) PROVE TypeOK'
  BY <1>6 DEF BufferOverflow, Reset
<1>7. ASSUME NEW c \in Byte, StoreByte(c) PROVE TypeOK'
  BY <1>7 DEF StoreByte, Digest
<1>0. ASSUME NEW p \in BOOLEAN, Accept(p)
      PROVE  /\ state' \in State
             /\ last_crc_present' \in BOOLEAN
             /\ diag' \in Tracker
             /\ result' \in Result
             /\ seen' \in Seq(BOOLEAN)
  <2>1. WithVote(seen, p) \in Seq(BOOLEAN)
    BY AppendProperties, Zenon DEF WithVote
  <2>2. diag' \in Tracker /\ last_crc_present' \in BOOLEAN
    BY <1>0, <1>2, Zenon DEF Accept
  <2>3. seen' \in Seq(BOOLEAN)
    BY <1>0, <2>1, Zenon DEF Accept
  <2>4. QED
    BY <1>0, <2>2, <2>3 DEF Accept
<1>8. ASSUME NEW c \in Byte, AcceptWithoutCrc(c) PROVE TypeOK'
  <2>1. Accept(FALSE) /\ UNCHANGED <<buffer, crc, crc_buf, framed>>
    BY <1>8 DEF AcceptWithoutCrc
  <2>2. suffix' \in Seq(Byte)
    BY <1>8 DEF AcceptWithoutCrc
  <2>3. QED
    BY <1>0, <2>1, <2>2, FALSE \in BOOLEAN, Zenon
<1>9. ASSUME NEW c \in Byte, MalformedSuffix(c) PROVE TypeOK'
  BY <1>1, <1>9 DEF MalformedSuffix, RecordCrcError, Reset
<1>10. ASSUME NEW c \in Byte, SuffixDigit(c) PROVE TypeOK'
  BY <1>10 DEF SuffixDigit
<1>11. ASSUME NEW c \in Byte, VerifyChecksum(c) PROVE TypeOK'
  <2>1. CASE /\ Accept(TRUE)
             /\ crc_buf' = Append(crc_buf, c) /\ suffix' = Append(suffix, c)
             /\ UNCHANGED <<buffer, crc, framed>>
    <3>1. crc_buf' \in Seq(Byte) /\ suffix' \in Seq(Byte)
      BY <2>1
    <3>2. QED
      BY <1>0, <2>1, <3>1, TRUE \in BOOLEAN, Zenon
  <2>2. CASE RecordCrcError /\ result' = "CHECKSUM_MISMATCH" /\ UNCHANGED seen
    BY <1>1, <2>2 DEF RecordCrcError, Reset
  <2>3. QED
    BY <1>11, <2>1, <2>2 DEF VerifyChecksum
<1>12. CASE CallReset
  BY <1>12 DEF CallReset, Reset
<1>13. CASE CallResetDiagnostics
  BY <1>1, <1>13 DEF CallResetDiagnostics, ResetDiagnostics, Reset
<1>14. ASSUME NEW n \in 0 .. MaxFieldErrors, CallAddSkippedFields(n) PROVE TypeOK'
  <2>1. n \in Nat
    BY MaxFieldErrorsAssumption
  <2>2. AddSkipped(diag, n) \in Tracker
    BY <2>1, TrackerCounters
  <2>3. QED BY <1>14, <2>2 DEF CallAddSkippedFields
<1>15. CASE UNCHANGED vars
  BY <1>15 DEF vars
<1>16. QED
  BY <1>3, <1>4, <1>5, <1>6, <1>7, <1>8, <1>9, <1>10, <1>11, <1>12, <1>13,
     <1>14, <1>15 DEF Next, Process

\* Every variable keeps its type, for every call sequence and every byte
\* (P1PacketAccumulator's members).
THEOREM TypeCorrect == Spec => []TypeOK
<1>1. Init => TypeOK
  BY InitialValues DEF Init, TypeOK, State, Result
<1>2. QED
  BY <1>1, TypeStep, PTL DEF Spec

(***************************************************************************)
(* The buffer                                                              *)
(***************************************************************************)
\* No call sequence and no input writes past the buffer, whatever its
\* capacity (P1PacketAccumulator::process, the length + 1 >= capacity test).
THEOREM BufferAlwaysFits == Spec => []BufferFits
<1>1. Init => BufferFits
  BY DEF Init, BufferFits
<1>2. TypeOK /\ BufferFits /\ [Next]_vars => BufferFits'
  <2> SUFFICES ASSUME TypeOK, BufferFits, [Next]_vars PROVE BufferFits'
    OBVIOUS
  <2>1. ASSUME NEW c \in Byte, StoreByte(c) PROVE BufferFits'
    BY <2>1, CapacityAssumption DEF StoreByte, BufferFull, BufferFits, TypeOK
  <2>2. ASSUME buffer' \in {buffer, <<>>} PROVE BufferFits'
    BY <2>2 DEF BufferFits
  <2>3. ASSUME NEW c \in Byte, Process(c), ~StoreByte(c) PROVE BufferFits'
    BY <2>2, <2>3 DEF Process, Hunt, StartTelegram, EndMarker, BufferOverflow,
       AcceptWithoutCrc, MalformedSuffix, SuffixDigit, VerifyChecksum, Begin, Reset,
       RecordCrcError, telegram
  <2>4. ASSUME NEW n \in 0 .. MaxFieldErrors, CallAddSkippedFields(n) PROVE BufferFits'
    BY <2>2, <2>4 DEF CallAddSkippedFields, telegram
  <2>5. CASE CallReset \/ CallResetDiagnostics \/ UNCHANGED vars
    BY <2>2, <2>5 DEF CallReset, CallResetDiagnostics, ResetDiagnostics, Reset, vars, telegram
  <2>6. QED
    BY <2>1, <2>3, <2>4, <2>5 DEF Next
<1>3. QED
  BY <1>1, <1>2, TypeCorrect, PTL DEF Spec

(***************************************************************************)
(* The telegram held between two telegrams                                 *)
(***************************************************************************)
\* A reset leaves nothing behind, in any state.
LEMMA ResetHoldsNothing == Reset => FrameInv'
  BY DEF Reset, FrameInv, HeldTelegramIsIntact

\* What a telegram in progress leaves on the wire is kept by every step.
LEMMA FrameInvStep == TypeOK /\ FrameInv /\ [Next]_vars => FrameInv'
<1> SUFFICES ASSUME TypeOK, FrameInv, [Next]_vars PROVE FrameInv'
  OBVIOUS
<1>1. ASSUME NEW c \in Byte, Hunt(c) PROVE FrameInv'
  BY <1>1 DEF Hunt, FrameInv, HeldTelegramIsIntact, SuffixVerified, telegram,
     wireHistory, CrcSkipped
<1>2. ASSUME NEW c \in Byte, StartTelegram(c) PROVE FrameInv'
  BY <1>2, BeginFrames, ByteAssumption DEF StartTelegram, Begin, FrameInv, HeldTelegramIsIntact, CrcSkipped
<1>3. ASSUME NEW c \in Byte, EndMarker(c) PROVE FrameInv'
  <2>1. framed' = <<Start>> \o buffer \o <<End>>
    <3>1. Append(<<Start>> \o buffer, End) = <<Start>> \o buffer \o <<End>>
      <4>1. Start \in Byte /\ End \in Byte /\ buffer \in Seq(Byte)
        BY ByteAssumption DEF TypeOK
      <4>2. QED
        BY <4>1, EndClosesFrame, Zenon
    <3>2. QED
      BY <1>3, <3>1 DEF EndMarker, FrameInv
  <2>2. ~CrcSkipped => crc' = framed'
    BY <1>3 DEF EndMarker, Digest, FrameInv
  <2>3. <<>> \in Seq(HexDigit) /\ Len(<<>>) < CRC_LEN
    BY CrcLenAssumption
  <2>4. QED
    BY <1>3, <2>1, <2>2, <2>3 DEF EndMarker, FrameInv, HeldTelegramIsIntact, CrcSkipped
<1>4. ASSUME NEW c \in Byte, BufferOverflow(c) PROVE FrameInv'
  BY <1>4, ResetHoldsNothing DEF BufferOverflow
<1>5. ASSUME NEW c \in Byte, StoreByte(c) PROVE FrameInv'
  <2>1. framed' = <<Start>> \o buffer'
    <3>1. Append(<<Start>> \o buffer, c) = <<Start>> \o Append(buffer, c)
      <4>1. Start \in Byte /\ buffer \in Seq(Byte)
        BY ByteAssumption DEF TypeOK
      <4>2. QED
        BY <4>1, StoreExtendsFrame
    <3>2. QED
      BY <1>5, <3>1 DEF StoreByte, FrameInv
  <2>2. ~CrcSkipped => crc' = framed'
    BY <1>5 DEF StoreByte, Digest, FrameInv
  <2>3. QED
    BY <1>5, <2>1, <2>2 DEF StoreByte, FrameInv, HeldTelegramIsIntact, CrcSkipped
<1>6. ASSUME NEW c \in Byte, AcceptWithoutCrc(c) PROVE FrameInv'
  <2>1. state' = "WAITING_STATE" /\ last_crc_present' = FALSE
    BY <1>6 DEF AcceptWithoutCrc, Accept
  <2>2. framed' = <<Start>> \o buffer' \o <<End>>
    BY <1>6 DEF AcceptWithoutCrc, FrameInv
  <2>3. suffix' = <<c>>
    BY <1>6 DEF AcceptWithoutCrc, FrameInv
  <2>4. QED
    BY <1>6, <2>1, <2>2, <2>3 DEF AcceptWithoutCrc, FrameInv, HeldTelegramIsIntact, SuffixVerified
<1>7. ASSUME NEW c \in Byte, MalformedSuffix(c) PROVE FrameInv'
  BY <1>7, ResetHoldsNothing DEF MalformedSuffix, RecordCrcError
<1>8. ASSUME NEW c \in Byte, SuffixDigit(c) PROVE FrameInv'
  <2>1. suffix' = crc_buf' /\ Len(crc_buf') < CRC_LEN /\ crc_buf' \in Seq(HexDigit)
    BY <1>8 DEF SuffixDigit, IsNextDigit, FrameInv, TypeOK, isxdigit
  <2>2. QED
    BY <1>8, <2>1 DEF SuffixDigit, IsNextDigit, FrameInv, HeldTelegramIsIntact, CrcSkipped
<1>9. ASSUME NEW c \in Byte, VerifyChecksum(c) PROVE FrameInv'
  <2>1. CASE RecordCrcError
    BY <2>1, ResetHoldsNothing DEF RecordCrcError
  <2>2. CASE ~RecordCrcError
    <3>1. /\ Accept(TRUE)
          /\ suffix' = Append(suffix, c) /\ UNCHANGED <<buffer, crc, framed>>
          /\ ParseCrc(Append(crc_buf, c)).value = CrcOf(crc)
      BY <1>9, <2>2 DEF VerifyChecksum
    <3>2. state' = "WAITING_STATE" /\ last_crc_present'
      BY <3>1 DEF Accept
    <3>3. framed' = <<Start>> \o buffer' \o <<End>> /\ crc = framed'
      BY <1>9, <3>1 DEF VerifyChecksum, IsNextDigit, FrameInv
    <3>4. suffix' = Append(crc_buf, c) /\ Len(suffix') = CRC_LEN
      BY <1>9, <3>1, CrcLenAssumption DEF VerifyChecksum, IsNextDigit, FrameInv, TypeOK
    <3>5. ParseCrc(suffix').ok
      <4>1. crc_buf \in Seq(HexDigit) /\ c \in HexDigit
        BY <1>9 DEF VerifyChecksum, IsNextDigit, FrameInv, isxdigit
      <4>2. Append(crc_buf, c) \in Seq(HexDigit) /\ Append(crc_buf, c) # <<>>
        BY <4>1, AppendProperties
      <4>3. ParseCrc(Append(crc_buf, c)).ok
        BY <4>2, HexDigitsParse
      <4>4. QED
        BY <3>4, <4>3
    <3>6. QED
      BY <3>1, <3>2, <3>3, <3>4, <3>5 DEF FrameInv, HeldTelegramIsIntact, SuffixVerified
  <2>3. QED
    BY <2>1, <2>2
<1>10. CASE CallReset \/ CallResetDiagnostics
  BY <1>10, ResetHoldsNothing DEF CallReset, CallResetDiagnostics, ResetDiagnostics
<1>11. ASSUME NEW n \in 0 .. MaxFieldErrors, CallAddSkippedFields(n) PROVE FrameInv'
  BY <1>11 DEF CallAddSkippedFields, AddSkipped, FrameInv, HeldTelegramIsIntact,
     SuffixVerified, telegram, wireHistory, CrcSkipped, TypeOK, Tracker
<1>12. CASE UNCHANGED vars
  BY <1>12 DEF FrameInv, HeldTelegramIsIntact, SuffixVerified, vars, telegram,
     wireHistory, CrcSkipped
<1>13. QED
  BY <1>1, <1>2, <1>3, <1>4, <1>5, <1>6, <1>7, <1>8, <1>9, <1>10, <1>11, <1>12
     DEF Next, Process

\* A telegram that process() has just completed is whole and verified.
LEMMA CompleteIsHeld ==
  ASSUME TypeOK, FrameInv, NEW c \in Byte, Process(c), result' = "COMPLETE"
  PROVE  /\ state' = "WAITING_STATE"
         /\ framed' = <<Start>> \o buffer' \o <<End>>
         /\ SuffixVerified'
<1>1. /\ state = "CHECKSUM_STATE"
      /\ state' = "WAITING_STATE" /\ UNCHANGED <<buffer, framed>>
  BY DEF Process, Hunt, StartTelegram, EndMarker, BufferOverflow, StoreByte, AcceptWithoutCrc,
     MalformedSuffix, SuffixDigit, VerifyChecksum, IsNextDigit, Accept
<1>2. framed = <<Start>> \o buffer \o <<End>>
  BY <1>1 DEF FrameInv
<1>3. framed # <<>>
  BY <1>2, FrameBody, ByteAssumption DEF TypeOK
<1>4. FrameInv'
  BY FrameInvStep DEF Next
<1>5. QED
  BY <1>1, <1>2, <1>3, <1>4 DEF FrameInv, HeldTelegramIsIntact

\* Between telegrams the buffer holds nothing or the whole, verified body of
\* the last telegram (P1PacketAccumulator::process).
THEOREM HeldTelegramAlwaysIntact == Spec => []HeldTelegramIsIntact
<1>1. Init => FrameInv
  BY DEF Init, FrameInv, HeldTelegramIsIntact
<1>2. FrameInv => HeldTelegramIsIntact
  BY DEF FrameInv
<1>3. QED
  BY <1>1, <1>2, FrameInvStep, TypeCorrect, PTL DEF Spec

(***************************************************************************)
(* The detected mode                                                       *)
(***************************************************************************)
\* The votes counted are the votes cast, in every step.
LEMMA VotesInvStep == TypeOK /\ VotesInv /\ [Next]_vars => VotesInv'
<1> SUFFICES ASSUME TypeOK, VotesInv, [Next]_vars PROVE VotesInv'
  OBVIOUS
<1>1. ASSUME UNCHANGED <<diag, seen>> PROVE VotesInv'
  BY <1>1 DEF VotesInv
<1>2. ASSUME diag' = CountCrcError(diag), seen' = seen PROVE VotesInv'
  BY <1>2, CountersKeepVotes DEF VotesInv, TypeOK
<1>3. ASSUME NEW p \in BOOLEAN, Accept(p) PROVE VotesInv'
  BY <1>3, VoteCounts DEF VotesInv, TypeOK, Accept
<1>4. ASSUME NEW c \in Byte, Process(c) PROVE VotesInv'
  <2>1. CASE AcceptWithoutCrc(c)
    BY <1>3, <2>1, Zenon DEF AcceptWithoutCrc
  <2>2. CASE VerifyChecksum(c)
    <3>1. Accept(TRUE) \/ (RecordCrcError /\ seen' = seen)
      BY <2>2 DEF VerifyChecksum
    <3>2. QED
      BY <1>2, <1>3, <3>1, Zenon DEF RecordCrcError
  <2>3. CASE MalformedSuffix(c)
    BY <1>2, <2>3 DEF MalformedSuffix, RecordCrcError
  <2>4. QED
    BY <1>1, <1>4, <2>1, <2>2, <2>3 DEF Process, Hunt, StartTelegram, EndMarker,
       BufferOverflow, StoreByte, SuffixDigit
<1>5. CASE CallReset \/ UNCHANGED vars
  BY <1>1, <1>5 DEF CallReset, vars
<1>6. CASE CallResetDiagnostics
  BY <1>6, NoVotes DEF CallResetDiagnostics, ResetDiagnostics, VotesInv
<1>7. ASSUME NEW n \in 0 .. MaxFieldErrors, CallAddSkippedFields(n) PROVE VotesInv'
  BY <1>7, CountersKeepVotes DEF CallAddSkippedFields, VotesInv, TypeOK
<1>8. QED
  BY <1>4, <1>5, <1>6, <1>7 DEF Next

\* The detected mode is the majority of the first three accepted telegrams
\* (P1DiagnosticsTracker::observeCrc), whatever is rejected in between.
THEOREM CrcModeAlwaysMajority == Spec => []CrcModeIsMajority
<1>1. Init => VotesInv
  BY NoVotes DEF Init, VotesInv
<1>2. VotesInv => CrcModeIsMajority
  BY DEF VotesInv, VotesCounted, CrcModeIsMajority
<1>3. QED
  BY <1>1, <1>2, VotesInvStep, TypeCorrect, PTL DEF Spec

\* The inductive invariant as TLC checks it: the buffer, the frame and the
\* votes together (P1PacketAccumulator).
THEOREM InductiveInvariant == Spec => []IInv
<1>1. Init => FrameInv /\ VotesInv
  BY NoVotes DEF Init, FrameInv, HeldTelegramIsIntact, VotesInv
<1>2. BufferFits /\ FrameInv /\ VotesInv => IInv
  BY DEF IInv
<1>3. QED
  BY <1>1, <1>2, FrameInvStep, VotesInvStep, BufferAlwaysFits, TypeCorrect, PTL DEF Spec

(***************************************************************************)
(* What a step may never do                                                *)
(***************************************************************************)
\* The overflow and the three calls of recordCrcError() reset the telegram,
\* count one CRC error or none, and let no rejected telegram vote.
THEOREM RejectionNeverLeavesTrace == Spec => RejectionLeavesNoTrace
<1> DEFINE NoTrace == result' \in Rejection =>
             /\ state' = "WAITING_STATE" /\ buffer' = <<>> /\ crc_buf' = <<>>
             /\ crc' = <<>> /\ ~last_crc_present'
             /\ diag' = IF result' = "BUFFER_OVERFLOW" THEN diag ELSE CountCrcError(diag)
<1>1. [Next]_vars => [NoTrace]_vars
  <2> SUFFICES ASSUME Next, result' \in Rejection
               PROVE  \/ NoTrace
                      \/ UNCHANGED vars
    OBVIOUS
  <2>1. PICK c \in Byte : BufferOverflow(c) \/ MalformedSuffix(c) \/ VerifyChecksum(c)
    BY DEF Next, Process, Rejection, Hunt, StartTelegram, EndMarker, StoreByte,
       AcceptWithoutCrc, Accept, SuffixDigit, CallReset, CallResetDiagnostics,
       CallAddSkippedFields
  <2>2. CASE BufferOverflow(c)
    BY <2>2 DEF BufferOverflow, Reset
  <2>3. CASE MalformedSuffix(c)
    BY <2>3 DEF MalformedSuffix, RecordCrcError, Reset
  <2>4. CASE VerifyChecksum(c)
    BY <2>4 DEF VerifyChecksum, Accept, Rejection, RecordCrcError, Reset
  <2>5. QED
    BY <2>1, <2>2, <2>3, <2>4
<1>2. QED
  BY <1>1, PTL DEF Spec, RejectionLeavesNoTrace

\* Once three telegrams have decided the mode, a telegram of the other kind
\* is refused (P1PacketAccumulator::process, CHECKSUM_STATE).
THEOREM MinorityKindAlwaysRefused == Spec => MinorityKindIsRefused
<1> DEFINE Refused == Decided /\ result' = "COMPLETE" => (last_crc_present' <=> MostHadCrc(seen))
<1>1. VotesInv /\ [Next]_vars => [Refused]_vars
  <2> SUFFICES ASSUME VotesInv, Next, Decided, result' = "COMPLETE"
               PROVE  last_crc_present' <=> MostHadCrc(seen)
    OBVIOUS
  <2>1. diag.crc_mode = IF MostHadCrc(seen) THEN "PRESENT" ELSE "ABSENT"
    BY DEF VotesInv, VotesCounted, MajorityMode, Decided, VotesToLock
  <2>2. PICK c \in Byte : AcceptWithoutCrc(c) \/ VerifyChecksum(c)
    BY DEF Next, Process, Hunt, StartTelegram, EndMarker, StoreByte, BufferOverflow,
       MalformedSuffix, SuffixDigit, CallReset, CallResetDiagnostics, CallAddSkippedFields
  <2>3. CASE AcceptWithoutCrc(c)
    BY <2>1, <2>3 DEF AcceptWithoutCrc, Accept, CrcMayBeMissing
  <2>4. CASE VerifyChecksum(c)
    BY <2>1, <2>4 DEF VerifyChecksum, Accept, IsNextDigit, CrcSkipped
  <2>5. QED
    BY <2>2, <2>3, <2>4
<1>2. Init => VotesInv
  BY NoVotes DEF Init, VotesInv
<1>3. QED
  BY <1>1, <1>2, VotesInvStep, TypeCorrect, PTL DEF Spec, MinorityKindIsRefused
=============================================================================
