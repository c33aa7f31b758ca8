------------------------- MODULE P1FixedReaderProofs -------------------------
(***************************************************************************)
(* Proofs about P1FixedReader, for every capacity, set of bytes, CRC       *)
(* function, number of CRC digits and size of the receive queue.  What the *)
(* accumulator does inside a step is taken from P1PacketAccumulatorProofs. *)
(***************************************************************************)
EXTENDS P1FixedReader, TLAPS

accProofs == INSTANCE P1PacketAccumulatorProofs WITH state <- acc_state

(***************************************************************************)
(* The accumulator the proofs are about is the reader's                    *)
(***************************************************************************)
\* What P1PacketAccumulator assumes of its constants holds here.
LEMMA AccumulatorAssumptions ==
  /\ CounterRange \in Nat \ {0, 1} /\ CRC_LEN \in Nat \ {0}
  /\ {accProofs!Start, accProofs!End} \subseteq Byte
  /\ capacity \in Nat /\ MaxFieldErrors \in Nat
BY CounterRangeAssumption, CrcLenAssumption, ByteAssumption, CapacityAssumption,
   MaxFieldErrorsAssumption DEF accProofs!Start, accProofs!End

\* The type invariant and the record of the tracker.
LEMMA SameTypes ==
  /\ acc!TypeOK <=> accProofs!TypeOK
  /\ acc!TypeOK' <=> accProofs!TypeOK'
  /\ acc!Tracker = accProofs!Tracker
BY DEF acc!TypeOK, accProofs!TypeOK, acc!State, accProofs!State, acc!Result, accProofs!Result,
    acc!Rejection, accProofs!Rejection, acc!Tracker, accProofs!Tracker, acc!P1CrcMode,
    accProofs!P1CrcMode, acc!VotesToLock, accProofs!VotesToLock

\* The value of a suffix ...
LEMMA SameHexNumber == \A s : acc!HexNumber(s) = accProofs!HexNumber(s)
BY DEF acc!HexNumber, accProofs!HexNumber, acc!HexValue, accProofs!HexValue, acc!FoldLeft,
    accProofs!FoldLeft, acc!MapThenFoldSet, accProofs!MapThenFoldSet, acc!Max,
    accProofs!Max, acc!UpperHex, accProofs!UpperHex, acc!LowerHex, accProofs!LowerHex

\* ... its digits ...
LEMMA SameDigits == \A s : acc!Digits(s) = accProofs!Digits(s)
<1>1. \A s : acc!AfterSpace(s) = accProofs!AfterSpace(s)
  BY DEF acc!AfterSpace, accProofs!AfterSpace, acc!LeadingSpaces, accProofs!LeadingSpaces,
    acc!Space, accProofs!Space
<1>2. \A s : acc!AfterSign(s) = accProofs!AfterSign(s)
  BY DEF acc!AfterSign, accProofs!AfterSign, acc!IsSigned, accProofs!IsSigned
<1>3. \A s : acc!AfterPrefix(s) = accProofs!AfterPrefix(s)
  BY DEF acc!AfterPrefix, accProofs!AfterPrefix, acc!HasPrefix, accProofs!HasPrefix,
    acc!isxdigit, accProofs!isxdigit, acc!HexDigit, accProofs!HexDigit
<1>4. QED
  BY <1>1, <1>2, <1>3 DEF acc!Digits, accProofs!Digits

\* ... and what CrcParser::parse makes of it.
LEMMA SameParse == \A s : acc!ParseCrc(s) = accProofs!ParseCrc(s)
<1>1. \A s : acc!IsNegative(s) <=> accProofs!IsNegative(s)
  BY DEF acc!IsNegative, accProofs!IsNegative, acc!IsSigned, accProofs!IsSigned, acc!AfterSpace,
    accProofs!AfterSpace, acc!LeadingSpaces, accProofs!LeadingSpaces, acc!Space,
    accProofs!Space
<1>2. \A c : acc!isxdigit(c) <=> accProofs!isxdigit(c)
  BY DEF acc!isxdigit, accProofs!isxdigit, acc!HexDigit, accProofs!HexDigit
<1>3. TAKE s
<1>4. acc!Digits(s) = accProofs!Digits(s) /\ (acc!IsNegative(s) <=> accProofs!IsNegative(s))
      /\ acc!HexNumber(acc!Digits(s)) = accProofs!HexNumber(acc!Digits(s))
  BY <1>1, SameDigits, SameHexNumber
<1> DEFINE digits == accProofs!Digits(s)
           isHex == digits # <<>> /\ \A i \in 1 .. Len(digits) : accProofs!isxdigit(digits[i])
           value == accProofs!HexNumber(digits) % 65536
           negated == (65536 - value) % 65536
           parsed == IF isHex
                     THEN [ok |-> TRUE,
                           value |-> IF accProofs!IsNegative(s) THEN negated ELSE value]
                     ELSE [ok |-> FALSE, value |-> 0]
<1>5. accProofs!ParseCrc(s) = parsed
  BY DEF accProofs!ParseCrc
<1>6. acc!ParseCrc(s) = parsed
  <2> DEFINE accHex == /\ acc!Digits(s) # <<>>
                       /\ \A i \in 1 .. Len(acc!Digits(s)) : acc!isxdigit(acc!Digits(s)[i])
             accValue == acc!HexNumber(acc!Digits(s)) % 65536
             accNegated == (65536 - accValue) % 65536
  <2>1. acc!ParseCrc(s) = IF accHex
                          THEN [ok |-> TRUE,
                                value |-> IF acc!IsNegative(s) THEN accNegated ELSE accValue]
                          ELSE [ok |-> FALSE, value |-> 0]
    BY DEF acc!ParseCrc
  <2>2. (accHex <=> isHex) /\ accValue = value
    BY <1>2, <1>4
  <2>3. accNegated = negated
    BY <2>2
  <2> HIDE DEF accHex, accValue, accNegated, isHex, value, negated
  <2>4. QED
    BY <1>4, <2>1, <2>2, <2>3
<1>7. QED
  BY <1>5, <1>6

\* The invariant of the buffer.
LEMMA SameFrame ==
  /\ acc!FrameInv <=> accProofs!FrameInv
  /\ acc!FrameInv' <=> accProofs!FrameInv'
  /\ acc!SuffixVerified <=> accProofs!SuffixVerified
  /\ acc!SuffixVerified' <=> accProofs!SuffixVerified'
BY SameParse DEF acc!FrameInv, accProofs!FrameInv, acc!HeldTelegramIsIntact,
    accProofs!HeldTelegramIsIntact, acc!SuffixVerified, accProofs!SuffixVerified,
    acc!CrcSkipped, accProofs!CrcSkipped, acc!Start, accProofs!Start, acc!End,
    accProofs!End, acc!HexDigit, accProofs!HexDigit, acc!EndOfLine, accProofs!EndOfLine,
    acc!CarriageReturn, accProofs!CarriageReturn, acc!LineFeed, accProofs!LineFeed

\* The operations other than process().
LEMMA SameResets ==
  /\ acc!Reset <=> accProofs!Reset
  /\ acc!CallReset <=> accProofs!CallReset
  /\ acc!CallResetDiagnostics <=> accProofs!CallResetDiagnostics
  /\ \A t, n : acc!AddSkipped(t, n) = accProofs!AddSkipped(t, n)
BY DEF acc!Reset, accProofs!Reset, acc!CallReset, accProofs!CallReset,
    acc!CallResetDiagnostics, accProofs!CallResetDiagnostics, acc!ResetDiagnostics,
    accProofs!ResetDiagnostics, acc!ResetTracker, accProofs!ResetTracker, acc!AddSkipped,
    accProofs!AddSkipped, acc!telegram, accProofs!telegram, acc!wireHistory,
    accProofs!wireHistory

\* process(), branch by branch.
LEMMA SameProcess ==
  ASSUME NEW c
  PROVE  acc!Process(c) <=> accProofs!Process(c)
<1> USE DEF acc!Start, accProofs!Start, acc!End, accProofs!End, acc!EndOfLine, accProofs!EndOfLine,
    acc!CarriageReturn, accProofs!CarriageReturn, acc!LineFeed, accProofs!LineFeed,
    acc!CrcSkipped, accProofs!CrcSkipped, acc!telegram, accProofs!telegram, acc!wireHistory,
    accProofs!wireHistory, acc!Digest, accProofs!Digest
<1>1. acc!Hunt(c) <=> accProofs!Hunt(c)
  BY DEF acc!Hunt, accProofs!Hunt
<1>2. acc!StartTelegram(c) <=> accProofs!StartTelegram(c)
  BY DEF acc!StartTelegram, accProofs!StartTelegram, acc!Begin, accProofs!Begin
<1>3. acc!EndMarker(c) <=> accProofs!EndMarker(c)
  BY DEF acc!EndMarker, accProofs!EndMarker
<1>4. acc!BufferOverflow(c) <=> accProofs!BufferOverflow(c)
  BY DEF acc!BufferOverflow, accProofs!BufferOverflow, acc!BufferFull, accProofs!BufferFull,
    acc!Reset, accProofs!Reset
<1>5. acc!StoreByte(c) <=> accProofs!StoreByte(c)
  BY DEF acc!StoreByte, accProofs!StoreByte, acc!BufferFull, accProofs!BufferFull
<1>6. \A p : acc!Accept(p) <=> accProofs!Accept(p)
  BY DEF acc!Accept, accProofs!Accept, acc!ObserveCrc, accProofs!ObserveCrc, acc!CastVote,
    accProofs!CastVote, acc!LockMode, accProofs!LockMode, acc!ModeOfVotes,
    accProofs!ModeOfVotes, acc!WithVote, accProofs!WithVote, acc!VotesToLock,
    accProofs!VotesToLock
<1>7. acc!AcceptWithoutCrc(c) <=> accProofs!AcceptWithoutCrc(c)
  BY <1>6 DEF acc!AcceptWithoutCrc, accProofs!AcceptWithoutCrc, acc!CrcMayBeMissing,
    accProofs!CrcMayBeMissing
<1>8. acc!RecordCrcError <=> accProofs!RecordCrcError
  BY DEF acc!RecordCrcError, accProofs!RecordCrcError, acc!CountCrcError,
    accProofs!CountCrcError, acc!Reset, accProofs!Reset
<1>9. acc!isxdigit(c) <=> accProofs!isxdigit(c)
  BY DEF acc!isxdigit, accProofs!isxdigit, acc!HexDigit, accProofs!HexDigit
<1>10. acc!MalformedSuffix(c) <=> accProofs!MalformedSuffix(c)
  BY <1>8, <1>9 DEF acc!MalformedSuffix, accProofs!MalformedSuffix, acc!CrcMayBeMissing,
    accProofs!CrcMayBeMissing
<1>11. acc!IsNextDigit(c) <=> accProofs!IsNextDigit(c)
  BY <1>9 DEF acc!IsNextDigit, accProofs!IsNextDigit
<1>12. acc!SuffixDigit(c) <=> accProofs!SuffixDigit(c)
  BY <1>11 DEF acc!SuffixDigit, accProofs!SuffixDigit
<1>13. acc!VerifyChecksum(c) <=> accProofs!VerifyChecksum(c)
  BY SameParse, <1>6, <1>8, <1>11 DEF acc!VerifyChecksum, accProofs!VerifyChecksum
<1>14. QED
  BY <1>1, <1>2, <1>3, <1>4, <1>5, <1>7, <1>10, <1>12, <1>13
     DEF acc!Process, accProofs!Process

(***************************************************************************)
(* What the accumulator does inside a step of the reader                   *)
(***************************************************************************)
\* The calls of the reader that go through the accumulator.
AccumulatorCall ==
  \/ \E c \in Byte : acc!Process(c)
  \/ acc!CallReset
  \/ acc!CallResetDiagnostics

\* Each of them is a step of P1PacketAccumulator, and keeps its types and
\* its frame.
LEMMA AccumulatorSteps ==
  ASSUME acc!TypeOK, AccumulatorCall
  PROVE  acc!TypeOK' /\ (acc!FrameInv => acc!FrameInv')
<1>1. accProofs!Next
  BY SameProcess, SameResets DEF AccumulatorCall, accProofs!Next
<1>2. accProofs!TypeOK
  BY SameTypes
<1>3. accProofs!TypeOK'
  BY <1>1, <1>2, AccumulatorAssumptions, accProofs!TypeStep
<1>4. accProofs!FrameInv => accProofs!FrameInv'
  BY <1>1, <1>2, AccumulatorAssumptions, accProofs!FrameInvStep
<1>5. QED
  BY <1>3, <1>4, SameTypes, SameFrame

\* What process() says of the telegram it was fed a byte of
\* (P1PacketAccumulator::process).
LEMMA ProcessOutcome ==
  ASSUME NEW c \in Byte, acc!Process(c)
  PROVE  /\ result' = "COMPLETE" =>
              /\ acc_state = "CHECKSUM_STATE" /\ acc_state' = "WAITING_STATE"
              /\ UNCHANGED <<buffer, framed>>
         /\ result' \in acc!Rejection => acc_state' = "WAITING_STATE" /\ buffer' = <<>>
         /\ result' = "WAITING" /\ acc_state' = "WAITING_STATE" =>
              UNCHANGED <<telegram, diag>>
<1> USE DEF acc!Rejection
<1>1. CASE acc!Hunt(c)
  BY <1>1 DEF acc!Hunt, acc!telegram, acc!wireHistory, telegram
<1>2. CASE acc!StartTelegram(c) \/ acc!EndMarker(c) \/ acc!StoreByte(c) \/ acc!SuffixDigit(c)
  BY <1>2 DEF acc!StartTelegram, acc!Begin, acc!EndMarker, acc!StoreByte, acc!SuffixDigit,
     acc!IsNextDigit
<1>3. CASE acc!BufferOverflow(c) \/ acc!MalformedSuffix(c)
  BY <1>3 DEF acc!BufferOverflow, acc!MalformedSuffix, acc!RecordCrcError, acc!Reset
<1>4. CASE acc!AcceptWithoutCrc(c)
  BY <1>4 DEF acc!AcceptWithoutCrc, acc!Accept
<1>5. CASE acc!VerifyChecksum(c)
  BY <1>5 DEF acc!VerifyChecksum, acc!IsNextDigit, acc!Accept, acc!RecordCrcError, acc!Reset
<1>6. QED
  BY <1>1, <1>2, <1>3, <1>4, <1>5 DEF acc!Process

\* A telegram that process() has just completed is whole and verified.
LEMMA CompleteTelegram ==
  ASSUME acc!TypeOK, acc!FrameInv, NEW c \in Byte, acc!Process(c), result' = "COMPLETE"
  PROVE  /\ acc_state' = "WAITING_STATE"
         /\ framed' = <<acc!Start>> \o buffer' \o <<acc!End>>
         /\ acc!SuffixVerified'
<1>1. accProofs!TypeOK /\ accProofs!FrameInv /\ accProofs!Process(c)
  BY SameTypes, SameFrame, SameProcess
<1>2. /\ acc_state' = "WAITING_STATE"
      /\ framed' = <<accProofs!Start>> \o buffer' \o <<accProofs!End>>
      /\ accProofs!SuffixVerified'
  BY <1>1, AccumulatorAssumptions, accProofs!CompleteIsHeld
<1>3. QED
  BY <1>2, SameFrame DEF acc!Start, accProofs!Start, acc!End, accProofs!End

(***************************************************************************)
(* Type correctness                                                        *)
(***************************************************************************)
\* The queue after its first byte was read.
LEMMA QueueParts ==
  ASSUME rx \in Seq(Byte), rx # <<>>
  PROVE  Head(rx) \in Byte /\ Tail(rx) \in Seq(Byte)
OBVIOUS

\* The values that reset() assigns have the right types.
LEMMA EmptyValues == <<>> \in Seq(Byte)
OBVIOUS

\* clear() and parse() keep the types of the accumulator; parse() adds to a
\* counter that wraps.
LEMMA ClearTypes ==
  ASSUME acc!TypeOK, ClearTelegram, result' = "NONE", seen' = seen, diag' \in acc!Tracker
  PROVE  acc!TypeOK'
BY EmptyValues DEF ClearTelegram, acc!Reset, acc!TypeOK, acc!State, acc!Result, telegram

\* Every step keeps the types (P1FixedReader).
LEMMA TypeStep == TypeOK /\ [Next]_vars => TypeOK'
<1> SUFFICES ASSUME TypeOK, [Next]_vars PROVE TypeOK'
  OBVIOUS
<1>0. acc!TypeOK
  BY DEF TypeOK
<1>1. ASSUME UNCHANGED accumulator PROVE acc!TypeOK'
  BY <1>0, <1>1 DEF accumulator, telegram, acc!TypeOK, acc!Tracker
<1>2. CASE LoopByte
  <2>1. Head(rx) \in Byte /\ Tail(rx) \in Seq(Byte)
    BY <1>2, QueueParts DEF LoopByte, TypeOK
  <2>2. acc!TypeOK'
    BY <1>0, <1>2, <2>1, AccumulatorSteps DEF LoopByte, AccumulatorCall
  <2>3. QED
    BY <1>2, <2>1, <2>2, EmptyValues DEF LoopByte, AfterTelegram, StopRequest, Return, reader,
       control, TypeOK
<1>3. CASE LoopToss
  BY <1>1, <1>3, QueueParts DEF LoopToss, reader, control, TypeOK
<1>4. ASSUME NEW c \in Byte, Arrive(c) PROVE TypeOK'
  BY <1>1, <1>4 DEF Arrive, reader, control, TypeOK
<1>5. CASE CallLoop \/ LoopIdle
  BY <1>1, <1>5 DEF CallLoop, LoopIdle, Return, reader, control, TypeOK
<1>6. ASSUME NEW o \in BOOLEAN, Enable(o) PROVE TypeOK'
  BY <1>1, <1>6, Zenon DEF Enable, control, TypeOK
<1>7. CASE Disable
  <2>1. acc!TypeOK'
    BY <1>0, <1>1, <1>7, AccumulatorSteps DEF Disable, DiscardPartial, AccumulatorCall
  <2>2. QED
    BY <1>7, <2>1, EmptyValues DEF Disable, StopRequest, control, TypeOK
<1>8. CASE Clear
  <2>1. diag' \in acc!Tracker
    BY <1>0, <1>8 DEF Clear, acc!TypeOK
  <2>2. acc!TypeOK'
    BY <1>0, <1>8, <2>1, ClearTypes DEF Clear
  <2>3. QED
    BY <1>8, <2>2 DEF Clear, ClearTelegram, reader, control, TypeOK
<1>9. ASSUME NEW n \in 0 .. MaxFieldErrors, Parse(n) PROVE TypeOK'
  <2>1. n \in Nat
    BY MaxFieldErrorsAssumption
  <2>2. diag' \in acc!Tracker
    <3>1. diag \in accProofs!Tracker
      BY <1>0, SameTypes DEF acc!TypeOK
    <3>2. accProofs!AddSkipped(diag, n) \in accProofs!Tracker
      BY <2>1, <3>1, AccumulatorAssumptions, accProofs!TrackerCounters
    <3>3. QED
      BY <1>9, <3>2, SameTypes, SameResets DEF Parse
  <2>3. acc!TypeOK'
    BY <1>0, <1>9, <2>2, ClearTypes DEF Parse
  <2>4. QED
    BY <1>9, <2>3 DEF Parse, ClearTelegram, reader, control, TypeOK
<1>10. CASE ClearAll \/ DoChecksum \/ ChangeStream
  <2>1. acc!TypeOK'
    BY <1>0, <1>10, AccumulatorSteps DEF ClearAll, DoChecksum, ChangeStream, AccumulatorCall
  <2>2. QED
    BY <1>10, <2>1, EmptyValues DEF ClearAll, DoChecksum, ChangeStream, reader, control, TypeOK
<1>11. CASE UNCHANGED vars
  BY <1>1, <1>11 DEF vars, reader, control, TypeOK
<1>12. QED
  BY <1>2, <1>3, <1>4, <1>5, <1>6, <1>7, <1>8, <1>9, <1>10, <1>11 DEF Next, Loop

\* Every variable keeps its type, whatever the application does and also when
\* it calls loop() over an unconsumed telegram (P1FixedReader's members).
THEOREM TypeCorrect == Spec => []TypeOK
<1>1. Init => TypeOK
  <2>1. accProofs!ResetTracker \in accProofs!Tracker
    BY AccumulatorAssumptions, accProofs!TrackerReset
  <2>2. acc!ResetTracker \in acc!Tracker
    BY <2>1, SameTypes DEF acc!ResetTracker, accProofs!ResetTracker
  <2>3. <<>> \in Seq(BOOLEAN)
    OBVIOUS
  <2>4. Init => acc!TypeOK
    BY <2>2, <2>3, EmptyValues DEF Init, acc!Init, acc!TypeOK, acc!State, acc!Result
  <2>5. QED
    BY <2>4, EmptyValues DEF Init, TypeOK
<1>2. QED
  BY <1>1, TypeStep, PTL DEF Spec

(***************************************************************************)
(* The buffer between two telegrams                                        *)
(***************************************************************************)
\* Between telegrams nothing stays in the buffer that available() does not
\* announce, whatever the application does and also when it calls loop() over
\* an unconsumed telegram (P1FixedReader::loop, disable, clear).
THEOREM UnannouncedAlwaysEmpty == Spec => []UnannouncedIsEmpty
<1>1. Init => UnannouncedIsEmpty
  BY DEF Init, acc!Init, UnannouncedIsEmpty
<1>2. TypeOK /\ UnannouncedIsEmpty /\ [Next]_vars => UnannouncedIsEmpty'
  <2> SUFFICES ASSUME TypeOK, UnannouncedIsEmpty, [Next]_vars PROVE UnannouncedIsEmpty'
    OBVIOUS
  <2>1. ASSUME UNCHANGED <<telegram, available>> PROVE UnannouncedIsEmpty'
    BY <2>1 DEF UnannouncedIsEmpty, telegram
  <2>2. ASSUME acc!Reset PROVE UnannouncedIsEmpty'
    BY <2>2 DEF UnannouncedIsEmpty, acc!Reset
  <2>3. CASE LoopByte
    <3>1. Head(rx) \in Byte /\ acc!Process(Head(rx))
      BY <2>3, QueueParts DEF LoopByte, TypeOK
    <3>2. CASE result' = "COMPLETE"
      BY <2>3, <3>2 DEF LoopByte, acc!Rejection, UnannouncedIsEmpty
    <3>3. CASE result' \in acc!Rejection
      BY <3>1, <3>3, ProcessOutcome DEF UnannouncedIsEmpty
    <3>4. CASE result' = "WAITING" /\ acc_state' = "WAITING_STATE"
      BY <2>1, <2>3, <3>1, <3>4, ProcessOutcome DEF LoopByte, acc!Rejection
    <3>5. CASE acc_state' # "WAITING_STATE"
      BY <3>5 DEF UnannouncedIsEmpty
    <3>6. QED
      BY <2>3, <3>2, <3>3, <3>4, <3>5 DEF LoopByte
  <2>4. CASE Disable
    BY <2>1, <2>2, <2>4 DEF Disable, DiscardPartial, acc!CallReset, accumulator
  <2>5. ASSUME ClearTelegram PROVE UnannouncedIsEmpty'
    BY <2>1, <2>2, <2>5 DEF ClearTelegram
  <2>6. CASE ClearAll \/ DoChecksum \/ ChangeStream
    BY <2>2, <2>6 DEF ClearAll, DoChecksum, ChangeStream, acc!CallReset,
       acc!CallResetDiagnostics, acc!ResetDiagnostics
  <2>7. QED
    BY <2>1, <2>3, <2>4, <2>5, <2>6 DEF Next, Loop, vars, accumulator, Arrive, CallLoop,
       LoopIdle, LoopToss, Enable, Clear, Parse
<1>3. QED
  BY <1>1, <1>2, TypeCorrect, PTL DEF Spec

(***************************************************************************)
(* The telegram announced to an application that consumes it               *)
(***************************************************************************)
\* The frame speaks of the telegram and of the detected mode.
LEMMA FrameInvKept ==
  ASSUME acc!FrameInv, UNCHANGED telegram, diag'.crc_mode = diag.crc_mode
  PROVE  acc!FrameInv'
BY DEF telegram, acc!FrameInv, acc!HeldTelegramIsIntact, acc!SuffixVerified, acc!CrcSkipped

\* A reset leaves no frame behind.
LEMMA ResetHoldsNothing == acc!Reset => acc!FrameInv'
BY DEF acc!Reset, acc!FrameInv, acc!HeldTelegramIsIntact

\* Every step keeps the frame of the accumulator.
LEMMA FrameStep == TypeOK /\ acc!FrameInv /\ [Next]_vars => acc!FrameInv'
<1> SUFFICES ASSUME TypeOK, acc!FrameInv, [Next]_vars PROVE acc!FrameInv'
  OBVIOUS
<1>0. acc!TypeOK
  BY DEF TypeOK
<1>1. CASE UNCHANGED accumulator
  BY <1>1, FrameInvKept DEF accumulator
<1>2. CASE AccumulatorCall
  BY <1>0, <1>2, AccumulatorSteps
<1>3. ASSUME ClearTelegram, diag'.crc_mode = diag.crc_mode PROVE acc!FrameInv'
  BY <1>3, FrameInvKept, ResetHoldsNothing DEF ClearTelegram
<1>4. CASE LoopByte
  BY <1>2, <1>4, QueueParts DEF LoopByte, TypeOK, AccumulatorCall
<1>5. ASSUME NEW n \in 0 .. MaxFieldErrors, Parse(n) PROVE acc!FrameInv'
  BY <1>0, <1>3, <1>5 DEF Parse, acc!AddSkipped, acc!TypeOK, acc!Tracker
<1>6. CASE Clear
  BY <1>3, <1>6 DEF Clear
<1>7. CASE Disable \/ ClearAll \/ DoChecksum \/ ChangeStream
  BY <1>1, <1>2, <1>7 DEF Disable, DiscardPartial, ClearAll, DoChecksum, ChangeStream,
     AccumulatorCall
<1>8. QED
  BY <1>1, <1>4, <1>5, <1>6, <1>7 DEF Next, Loop, vars, Arrive, CallLoop, LoopIdle, LoopToss,
     Enable

\* What the reader adds to the frame: it announces a whole telegram or none,
\* drops a half read one with the request, and reads only while nothing is
\* announced.
ReaderInv ==
  /\ AvailableIsIntact
  /\ NothingHalfReadWhileDisabled
  /\ RequestInv
  /\ pc = "loop" => ~available

\* loop() announces only what the accumulator completed (P1FixedReader::loop).
LEMMA ReaderInvByte ==
  ASSUME TypeOK, acc!FrameInv, ReaderInv, LoopByte
  PROVE  ReaderInv'
<1>1. Head(rx) \in Byte /\ acc!Process(Head(rx)) /\ acc!TypeOK /\ available = FALSE
  BY QueueParts DEF LoopByte, ReaderInv, TypeOK
<1>2. CASE result' = "COMPLETE"
  <2>1. AvailableIsIntact' /\ acc_state' = "WAITING_STATE"
    BY <1>1, <1>2, CompleteTelegram DEF AvailableIsIntact
  <2>2. pc' = "app" /\ (StopRequest \/ UNCHANGED reader)
    BY <1>2 DEF LoopByte, acc!Rejection, Return, AfterTelegram
  <2>3. RequestInv'
    BY <2>2 DEF StopRequest, RequestInv, Enabled, reader, ReaderInv
  <2>4. QED
    BY <2>1, <2>2, <2>3 DEF ReaderInv, NothingHalfReadWhileDisabled
<1>3. CASE result' # "COMPLETE"
  <2>1. available' = FALSE /\ UNCHANGED reader /\ Enabled
    BY <1>1, <1>3 DEF LoopByte
  <2>2. QED
    BY <2>1 DEF ReaderInv, AvailableIsIntact, NothingHalfReadWhileDisabled, RequestInv,
       Enabled, reader
<1>4. QED
  BY <1>2, <1>3

\* Every step of an application that consumes a telegram keeps it.
LEMMA ReaderInvStep ==
  ASSUME LoopWhileAvailable = FALSE, TypeOK, acc!FrameInv, ReaderInv, [Next]_vars
  PROVE  ReaderInv'
<1>1. ASSUME UNCHANGED <<telegram, reader, available>>, pc' = "loop" => ~available
      PROVE  ReaderInv'
  BY <1>1 DEF telegram, reader, ReaderInv, AvailableIsIntact, acc!SuffixVerified,
     NothingHalfReadWhileDisabled, RequestInv, Enabled
<1>2. ASSUME acc!Reset, available' = FALSE, UNCHANGED reader PROVE ReaderInv'
  BY <1>2 DEF acc!Reset, reader, ReaderInv, AvailableIsIntact, NothingHalfReadWhileDisabled,
     RequestInv, Enabled
<1>3. CASE CallLoop
  BY <1>1, <1>3 DEF CallLoop, accumulator
<1>4. ASSUME UNCHANGED <<accumulator, reader, available>>, pc' \in {pc, "app"} PROVE ReaderInv'
  BY <1>1, <1>4 DEF accumulator, ReaderInv
<1>5. ASSUME NEW o \in BOOLEAN, Enable(o) PROVE ReaderInv'
  BY <1>5 DEF Enable, accumulator, telegram, control, ReaderInv, AvailableIsIntact,
     acc!SuffixVerified, NothingHalfReadWhileDisabled, RequestInv, Enabled
<1>6. CASE Disable
  <2>1. CASE available
    BY <1>6, <2>1 DEF Disable, StopRequest, DiscardPartial, accumulator, telegram, control,
       ReaderInv, AvailableIsIntact, acc!SuffixVerified, NothingHalfReadWhileDisabled,
       RequestInv, Enabled
  <2>2. CASE ~available
    BY <1>6, <2>2 DEF Disable, StopRequest, DiscardPartial, acc!CallReset, acc!Reset, control,
       ReaderInv, AvailableIsIntact, NothingHalfReadWhileDisabled, RequestInv, Enabled
  <2>3. QED
    BY <2>1, <2>2
<1>7. ASSUME ClearTelegram, UNCHANGED <<reader, pc>> PROVE ReaderInv'
  BY <1>1, <1>2, <1>7 DEF ClearTelegram, ReaderInv
<1>8. CASE ClearAll \/ DoChecksum \/ ChangeStream
  BY <1>2, <1>8 DEF ClearAll, DoChecksum, ChangeStream, acc!CallReset,
     acc!CallResetDiagnostics, acc!ResetDiagnostics
<1>9. CASE LoopByte
  BY <1>9, ReaderInvByte
<1>10. QED
  BY <1>3, <1>4, <1>5, <1>6, <1>7, <1>8, <1>9 DEF Next, Loop, vars, control, Arrive, LoopIdle,
     LoopToss, Return, Clear, Parse

\* The inductive invariant as TLC checks it, of an application that consumes
\* a telegram before it calls loop() again (P1FixedReader).
THEOREM InductiveInvariant ==
  ASSUME LoopWhileAvailable = FALSE
  PROVE  Spec => []IInv
<1>1. Init => acc!FrameInv /\ ReaderInv
  BY DEF Init, acc!Init, acc!FrameInv, acc!HeldTelegramIsIntact, ReaderInv, AvailableIsIntact,
     NothingHalfReadWhileDisabled, RequestInv, Enabled
<1>2. TypeOK /\ acc!FrameInv /\ ReaderInv /\ [Next]_vars => ReaderInv'
  BY ReaderInvStep
<1>3. acc!FrameInv /\ ReaderInv /\ UnannouncedIsEmpty => IInv
  BY DEF ReaderInv, IInv
<1>4. QED
  BY <1>1, <1>2, <1>3, FrameStep, UnannouncedAlwaysEmpty, TypeCorrect, PTL DEF Spec

\* While available() says so, raw() is the whole body of one telegram of the
\* wire whose suffix was verified (P1FixedReader).
THEOREM AvailableAlwaysIntact ==
  ASSUME LoopWhileAvailable = FALSE
  PROVE  Spec => []AvailableIsIntact
<1>1. IInv => AvailableIsIntact
  BY DEF IInv
<1>2. QED
  BY <1>1, InductiveInvariant, PTL

\* disable() never leaves a half read telegram for a later enable() to
\* continue (P1FixedReader::disable).
THEOREM NeverHalfReadWhileDisabled ==
  ASSUME LoopWhileAvailable = FALSE
  PROVE  Spec => []NothingHalfReadWhileDisabled
<1>1. IInv => NothingHalfReadWhileDisabled
  BY DEF IInv
<1>2. QED
  BY <1>1, InductiveInvariant, PTL

(***************************************************************************)
(* The reader implements the mailbox                                       *)
(***************************************************************************)
slot  == IF available THEN <<buffer>> ELSE <<>>
asked == IF req_pin = "LOW" THEN "off" ELSE IF once THEN "once" ELSE "always"

\* A reader starts as an empty mailbox that nothing was asked of.
LEMMA InitRefines == Init => Mailbox!Init
BY DEF Init, Mailbox!Init

\* A telegram that loop() announces is delivered (P1FixedReader::loop).
LEMMA CompleteDelivers ==
  ASSUME TypeOK, IInv, LoopByte, result' = "COMPLETE"
  PROVE  Mailbox!Deliver
<1>1. Head(rx) \in Byte /\ acc!Process(Head(rx)) /\ acc!TypeOK /\ acc!FrameInv
  BY QueueParts DEF LoopByte, IInv, TypeOK
<1>2. slot = <<>> /\ asked # "off"
  BY DEF slot, asked, LoopByte, IInv, RequestInv, TypeOK
<1>3. /\ available' = TRUE
      /\ (StopRequest /\ once = TRUE) \/ (UNCHANGED reader /\ once = FALSE)
  BY DEF LoopByte, acc!Rejection, AfterTelegram, TypeOK
<1>4. framed' = <<"/">> \o buffer' \o <<"!">> /\ acc!SuffixVerified'
  BY <1>1, CompleteTelegram DEF acc!Start, acc!End
<1>5. Mailbox!IsTelegram(framed') /\ Mailbox!Body(framed') = buffer'
  <2>1. "/" \in Byte /\ "!" \in Byte /\ buffer' \in Seq(Byte)
    BY <1>1, ByteAssumption, AccumulatorSteps DEF AccumulatorCall, acc!TypeOK
  <2>2. /\ Len(framed') = Len(buffer') + 2 /\ Len(buffer') \in Nat
        /\ framed'[1] = "/" /\ framed'[Len(framed')] = "!"
        /\ SubSeq(framed', 2, Len(framed') - 1) = buffer'
    <3>1. ASSUME NEW S, NEW h \in S, NEW b \in Seq(S), NEW e \in S,
                 NEW w, w = <<h>> \o b \o <<e>>
          PROVE  /\ Len(w) = Len(b) + 2 /\ Len(b) \in Nat
                 /\ w[1] = h /\ w[Len(w)] = e
                 /\ SubSeq(w, 2, Len(w) - 1) = b
      BY <3>1, AccumulatorAssumptions, accProofs!FrameBody
    <3>2. QED
      BY <1>4, <2>1, <3>1
  <2>3. QED
    BY <2>2 DEF Mailbox!IsTelegram, Mailbox!Body
<1>6. Ended(framed', suffix')
  BY <1>4 DEF acc!SuffixVerified, Ended
<1>7. slot' = <<buffer'>> /\ asked' = IF asked = "once" THEN "off" ELSE asked
  BY <1>2, <1>3 DEF slot, asked, StopRequest, reader
<1>8. QED
  BY <1>2, <1>5, <1>6, <1>7 DEF Mailbox!Deliver, slot, asked

\* Every step of an application that consumes a telegram is a step of the
\* mailbox, or invisible to it.
LEMMA StepRefines ==
  ASSUME TypeOK, IInv, [Next]_vars
  PROVE  [Mailbox!Next]_(Mailbox!mailbox)
<1>1. ASSUME slot' = slot, asked' = asked PROVE UNCHANGED Mailbox!mailbox
  BY <1>1 DEF Mailbox!mailbox, slot, asked
<1>2. ASSUME slot' = <<>>, asked' = asked PROVE Mailbox!Next
  BY <1>2 DEF Mailbox!Next, Mailbox!TakeOut, slot, asked
<1>3. ASSUME UNCHANGED <<available, reader>>, available => buffer' = buffer
      PROVE  UNCHANGED Mailbox!mailbox
  BY <1>1, <1>3 DEF slot, asked, reader
<1>4. ASSUME available' = FALSE, UNCHANGED reader PROVE Mailbox!Next
  BY <1>2, <1>4 DEF slot, asked, reader
<1>5. CASE LoopByte
  <2>1. available = FALSE
    BY <1>5 DEF LoopByte, IInv, TypeOK
  <2>2. CASE result' = "COMPLETE"
    BY <1>5, <2>2, CompleteDelivers DEF Mailbox!Next
  <2>3. CASE result' # "COMPLETE"
    BY <1>4, <1>5, <2>1, <2>3 DEF LoopByte
  <2>4. QED
    BY <2>2, <2>3
<1>6. ASSUME NEW o \in BOOLEAN, Enable(o) PROVE Mailbox!Next
  <2>1. asked' \in {"once", "always"} /\ slot' = slot
    BY <1>6 DEF Enable, accumulator, telegram, slot, asked
  <2>2. QED
    BY <2>1 DEF Mailbox!Next, Mailbox!Ask, slot, asked
<1>7. CASE Disable
  <2>1. asked' = "off" /\ slot' = slot
    BY <1>7 DEF Disable, StopRequest, DiscardPartial, accumulator, telegram, slot, asked
  <2>2. QED
    BY <2>1 DEF Mailbox!Next, Mailbox!StopAsking, slot, asked
<1>8. ASSUME ClearTelegram, UNCHANGED reader PROVE [Mailbox!Next]_(Mailbox!mailbox)
  BY <1>3, <1>4, <1>8 DEF ClearTelegram, telegram
<1>9. CASE ClearAll \/ DoChecksum \/ ChangeStream
  BY <1>4, <1>9 DEF ClearAll, DoChecksum, ChangeStream
<1>10. QED
  BY <1>3, <1>5, <1>6, <1>7, <1>8, <1>9 DEF Next, Loop, vars, accumulator, telegram, Arrive,
     CallLoop, LoopIdle, LoopToss, Clear, Parse

\* P1FixedReader implements TelegramMailbox: only whole, verified telegrams
\* are delivered, each into an empty mailbox and only while one was asked
\* for.
THEOREM FixedReaderIsMailbox ==
  ASSUME LoopWhileAvailable = FALSE
  PROVE  Spec => IsMailbox
<1>1. TypeOK /\ IInv /\ [Next]_vars => [Mailbox!Next]_(Mailbox!mailbox)
  BY StepRefines
<1>2. QED
  BY <1>1, InitRefines, InductiveInvariant, TypeCorrect, PTL DEF Spec, IsMailbox, Mailbox!Spec
=============================================================================
