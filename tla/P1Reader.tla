------------------------------ MODULE P1Reader ------------------------------
(***************************************************************************)
(* P1Reader (src/src/dsmr3/reader3.h): the reader that collects a telegram *)
(* in a growing String.  It does not use P1PacketAccumulator: its loop()   *)
(* is a state machine of its own, which peeks at the first byte behind the *)
(* '!' and waits until the stream has queued a whole CRC.                  *)
(*                                                                         *)
(* The parties, the receive queue and the representation of crc are those  *)
(* of P1FixedReader.  framed, suffix and seen are history variables.       *)
(***************************************************************************)
EXTENDS P1DiagnosticsTracker, CrcParser

CONSTANTS
    Byte, CrcOf(_), MaxFieldErrors,
    FifoSize,     \* bytes the stream can queue
    MaxBody,      \* bound: no telegram of the wire has a longer body
    HeapLimit,    \* longest String the heap has room for
    MidTelegram   \* calls an application makes while a telegram is being
                  \* received: a subset of DisturbingCalls

DisturbingCalls == {"enable", "clearAll", "doChecksum", "ChangeStream"}

EndOfLine == {"CR", "LF"}

ASSUME ByteAssumption == EndOfLine \cap Byte # {} /\ {"/", "!"} \subseteq Byte
ASSUME FifoAssumption == FifoSize \in Nat /\ FifoSize >= CRC_LEN
ASSUME BoundAssumption == MaxBody \in Nat /\ HeapLimit \in Nat /\ MaxFieldErrors \in Nat
ASSUME MidTelegramAssumption == MidTelegram \subseteq DisturbingCalls

VARIABLES
    state, buffer, crc, last_crc_present, diag,
    req_pin, once,
    available,       \* _available
    rx,              \* bytes received and not read yet
    pc,              \* who runs: "app", or "loop" inside loop()
    ret,             \* what loop() returned last
    framed, suffix,  \* history: the telegram heard last, and what followed it
    seen             \* history: the first VotesToLock telegrams had a CRC?

telegram == <<buffer, crc, last_crc_present>>
request  == <<req_pin, once>>
control  == <<pc, ret>>
history  == <<framed, suffix, seen>>
vars     == <<state, telegram, diag, request, available, rx, control, history>>

CrcSkipped == diag.crc_mode = "ABSENT"
Receiving  == state \in {"READING_STATE", "CHECKSUM_STATE"}

Init ==
  /\ state = "DISABLED_STATE"
  /\ buffer = <<>> /\ crc = <<>> /\ last_crc_present = FALSE
  /\ diag = ResetTracker
  /\ req_pin = "LOW" /\ once = FALSE
  /\ available = FALSE
  /\ rx = <<>>
  /\ pc = "app" /\ ret = FALSE
  /\ framed = <<>> /\ suffix = <<>> /\ seen = <<>>

-----------------------------------------------------------------------------
\* A byte arrives.  A telegram that has grown to MaxBody only goes on with
\* its '!'; a byte that finds the queue full is lost.
Arrive(c) ==
  LET body == IF state = "READING_STATE" THEN Len(buffer) ELSE 0
  IN  /\ Len(rx) < FifoSize
      /\ body + Len(rx) < MaxBody \/ c = "!"
      /\ rx' = Append(rx, c)
      /\ UNCHANGED <<state, telegram, diag, request, available, control, history>>

CallLoop ==
  /\ pc = "app"
  /\ pc' = "loop"
  /\ UNCHANGED <<state, telegram, diag, request, available, rx, ret, history>>

\* Mutant of Return: behind a telegram loop() reads on.
ReturnWhenIdle(value) ==
  pc' = (IF value THEN "loop" ELSE "app") /\ ret' = value

Return(value) == pc' = "app" /\ ret' = value

-----------------------------------------------------------------------------
(***************************************************************************)
(* loop(), the states that read byte by byte                               *)
(***************************************************************************)
Reads(s) == pc = "loop" /\ state = s /\ rx # <<>>

LoopIdle ==
  /\ pc = "loop" /\ rx = <<>>
  /\ Return(FALSE)
  /\ UNCHANGED <<state, telegram, diag, request, available, rx, history>>

\* Tosses a byte that is not the start of a telegram, or that comes while
\* no data was asked for.
LoopToss ==
  /\ Reads("DISABLED_STATE") \/ (Reads("WAITING_STATE") /\ Head(rx) # "/")
  /\ rx' = Tail(rx)
  /\ UNCHANGED <<state, telegram, diag, request, available, control, history>>

\* Mutant of Clear: the flag is lowered, the telegram stays.
LowerFlag == available' = FALSE /\ UNCHANGED buffer

\* clear(): only a complete telegram is cleared.
Clear ==
  IF available THEN buffer' = <<>> /\ available' = FALSE
               ELSE UNCHANGED <<buffer, available>>

StartTelegram ==
  /\ Reads("WAITING_STATE") /\ Head(rx) = "/"
  /\ state' = "READING_STATE"
  /\ crc' = IF CrcSkipped THEN <<>> ELSE <<"/">>
  /\ last_crc_present' = FALSE
  /\ Clear
  /\ rx' = Tail(rx)
  /\ framed' = <<"/">> /\ suffix' = <<>>
  /\ UNCHANGED <<diag, request, control, seen>>

\* Mutant of Digest: the CRC stops before the '!'.
DigestBody(c) == crc' = IF CrcSkipped \/ c = "!" THEN crc ELSE Append(crc, c)

Digest(c) == crc' = IF CrcSkipped THEN crc ELSE Append(crc, c)

EndMarker ==
  /\ Reads("READING_STATE") /\ Head(rx) = "!"
  /\ Digest("!")
  /\ state' = "CHECKSUM_STATE"
  /\ rx' = Tail(rx)
  /\ framed' = Append(framed, "!")
  /\ UNCHANGED <<buffer, last_crc_present, diag, request, available, control, suffix, seen>>

\* String::concat fails when the heap is exhausted; its result is ignored.
StoreByte ==
  /\ Reads("READING_STATE") /\ Head(rx) # "!"
  /\ Digest(Head(rx))
  /\ buffer' = IF Len(buffer) < HeapLimit THEN Append(buffer, Head(rx)) ELSE buffer
  /\ rx' = Tail(rx)
  /\ framed' = Append(framed, Head(rx))
  /\ UNCHANGED <<state, last_crc_present, diag, request, available, control, suffix, seen>>

-----------------------------------------------------------------------------
(***************************************************************************)
(* loop() behind the '!'                                                   *)
(***************************************************************************)
AtSuffix == Reads("CHECKSUM_STATE")

\* Mutant of RecordCrcError: the telegram goes, the counter stays.
ResetOnly ==
  /\ state' = "WAITING_STATE"
  /\ available' = FALSE
  /\ buffer' = <<>>
  /\ last_crc_present' = FALSE
  /\ framed' = <<>> /\ suffix' = <<>>
  /\ UNCHANGED <<diag, crc, request, seen>>

\* Mutant of RecordCrcError: a refused telegram ends the request.
GiveUp ==
  /\ diag' = CountCrcError(diag)
  /\ state' = "DISABLED_STATE"
  /\ available' = FALSE
  /\ buffer' = <<>>
  /\ last_crc_present' = FALSE
  /\ framed' = <<>> /\ suffix' = <<>>
  /\ UNCHANGED <<crc, request, seen>>

RecordCrcError ==
  /\ diag' = CountCrcError(diag)
  /\ state' = "WAITING_STATE"
  /\ available' = FALSE
  /\ buffer' = <<>>
  /\ last_crc_present' = FALSE
  /\ framed' = <<>> /\ suffix' = <<>>
  /\ UNCHANGED <<crc, request, seen>>

\* disable() behind a complete telegram, and in general.
StopRequest ==
  /\ req_pin' = "LOW"
  /\ state' = "DISABLED_STATE"
  /\ rx' = <<>>
  /\ UNCHANGED once

\* Mutant of AfterTelegram: a one-shot request stays open.
KeepListening(rest) ==
  /\ state' = "WAITING_STATE" /\ rx' = rest
  /\ UNCHANGED request

AfterTelegram(rest) ==
  IF once THEN StopRequest
          ELSE /\ state' = "WAITING_STATE" /\ rx' = rest
               /\ UNCHANGED request

\* The suffix is valid: tail ends the telegram, rest is left in the stream.
Accept(hasCrc, tail, rest) ==
  /\ last_crc_present' = hasCrc
  /\ diag' = ObserveCrc(diag, hasCrc)
  /\ available' = TRUE
  /\ AfterTelegram(rest)
  /\ Return(TRUE)
  /\ suffix' = tail
  /\ seen' = WithVote(seen, hasCrc)
  /\ UNCHANGED <<buffer, crc, framed>>

\* The line ends behind the '!'.
SuffixLineEnd ==
  /\ AtSuffix /\ Head(rx) \in EndOfLine
  /\ \/ /\ diag.crc_mode # "PRESENT"
        /\ Accept(FALSE, <<Head(rx)>>, Tail(rx))
     \/ /\ diag.crc_mode = "PRESENT"
        /\ RecordCrcError
        /\ rx' = Tail(rx)
        /\ Return(TRUE)

\* Anything but a CRC: the byte stays in the stream.
SuffixUnexpected ==
  /\ AtSuffix /\ Head(rx) \notin EndOfLine
  /\ CrcSkipped \/ ~isxdigit(Head(rx))
  /\ RecordCrcError
  /\ Return(FALSE)
  /\ UNCHANGED rx

AtCrc ==
  AtSuffix /\ Head(rx) \notin EndOfLine /\ ~CrcSkipped /\ isxdigit(Head(rx))

SuffixIncomplete ==
  /\ AtCrc /\ Len(rx) < CRC_LEN
  /\ Return(FALSE)
  /\ UNCHANGED <<state, telegram, diag, request, available, rx, history>>

\* Mutant of CrcMatches: the parse error is not looked at.
OnlyValueMatches(digits) == ParseCrc(digits).value = CrcOf(crc)

CrcMatches(digits) == ParseCrc(digits).ok /\ ParseCrc(digits).value = CrcOf(crc)

SuffixCrc ==
  LET digits == SubSeq(rx, 1, CRC_LEN)
      rest   == SubSeq(rx, CRC_LEN + 1, Len(rx))
  IN  /\ AtCrc /\ Len(rx) >= CRC_LEN
      /\ \/ /\ CrcMatches(digits)
            /\ Accept(TRUE, digits, rest)
         \/ /\ ~CrcMatches(digits)
            /\ RecordCrcError
            /\ rx' = rest
            /\ Return(TRUE)

Loop ==
  \/ LoopIdle \/ LoopToss
  \/ StartTelegram \/ EndMarker \/ StoreByte
  \/ SuffixLineEnd \/ SuffixUnexpected \/ SuffixIncomplete \/ SuffixCrc

-----------------------------------------------------------------------------
(***************************************************************************)
(* The other calls of the application                                      *)
(***************************************************************************)
May(call) == pc = "app" /\ (Receiving => call \in MidTelegram)

Enable(o) ==
  /\ May("enable")
  /\ req_pin' = "HIGH"
  /\ state' = "WAITING_STATE"
  /\ once' = o
  /\ UNCHANGED <<telegram, diag, available, rx, control, history>>

\* Mutant of DiscardPartial: disable() leaves a half read telegram.
DiscardNothing == UNCHANGED buffer

DiscardPartial == buffer' = IF available THEN buffer ELSE <<>>

Disable ==
  /\ pc = "app"
  /\ StopRequest
  /\ DiscardPartial
  /\ UNCHANGED <<crc, last_crc_present, diag, available, control, history>>

CallClear ==
  /\ pc = "app"
  /\ Clear
  /\ UNCHANGED <<state, crc, last_crc_present, diag, request, rx, control, history>>

\* parse(): n lines of the telegram were skipped as malformed.
Parse(n) ==
  /\ pc = "app"
  /\ diag' = AddSkipped(diag, n)
  /\ Clear
  /\ UNCHANGED <<state, crc, last_crc_present, request, rx, control, history>>

ClearAll == buffer' = <<>> /\ available' = FALSE

CallClearAll ==
  /\ May("clearAll")
  /\ ClearAll
  /\ UNCHANGED <<state, crc, last_crc_present, diag, request, rx, control, history>>

ResetDiagnostics ==
  /\ diag' = ResetTracker
  /\ last_crc_present' = FALSE
  /\ ClearAll
  /\ seen' = <<>>
  /\ UNCHANGED <<state, crc, request, control, framed, suffix>>

DoChecksum ==
  /\ May("doChecksum")
  /\ ResetDiagnostics
  /\ UNCHANGED rx

\* The new stream starts with an empty queue.
ChangeStream ==
  /\ May("ChangeStream")
  /\ rx' = <<>>
  /\ ResetDiagnostics

Next ==
  \/ \E c \in Byte : Arrive(c)
  \/ CallLoop
  \/ Loop
  \/ \E o \in BOOLEAN : Enable(o)
  \/ Disable
  \/ CallClear
  \/ \E n \in 0 .. MaxFieldErrors : Parse(n)
  \/ CallClearAll
  \/ DoChecksum
  \/ ChangeStream

Spec == Init /\ [][Next]_vars

-----------------------------------------------------------------------------
(***************************************************************************)
(* Properties                                                              *)
(***************************************************************************)
\* Every variable keeps its type (P1Reader's members).
TypeOK ==
  /\ state \in {"DISABLED_STATE", "WAITING_STATE", "READING_STATE", "CHECKSUM_STATE"}
  /\ buffer \in Seq(Byte) /\ crc \in Seq(Byte)
  /\ last_crc_present \in BOOLEAN
  /\ diag \in Tracker
  /\ req_pin \in {"LOW", "HIGH"}
  /\ once \in BOOLEAN /\ available \in BOOLEAN
  /\ rx \in Seq(Byte)
  /\ pc \in {"app", "loop"} /\ ret \in BOOLEAN
  /\ framed \in Seq(Byte) /\ suffix \in Seq(Byte) /\ seen \in Seq(BOOLEAN)

SuffixVerified ==
  IF last_crc_present
  THEN Len(suffix) = CRC_LEN /\ ParseCrc(suffix).ok /\ ParseCrc(suffix).value = CrcOf(framed)
  ELSE \E c \in EndOfLine : suffix = <<c>>

\* While available() says so, raw() is everything between the '/' and the
\* '!' of one telegram of the wire, whose suffix was verified.
AvailableIsIntact ==
  available => framed = <<"/">> \o buffer \o <<"!">> /\ SuffixVerified

\* A telegram that is being read is not announced, and between telegrams
\* nothing unannounced is left to be prepended to the next one.
BufferFollowsState ==
  /\ Receiving => ~available
  /\ ~Receiving /\ ~available => buffer = <<>>

\* The detected mode is what most of the first three accepted telegrams
\* carried (P1DiagnosticsTracker, as P1Reader::loop feeds it).
CrcModeIsMajority == diag.crc_mode = MajorityMode(seen)

\* What makes AvailableIsIntact inductive, as long as nobody disturbs a
\* telegram that is being received: buffer and CRC follow the wire, ...
FrameInv ==
  /\ state = "READING_STATE" => framed = <<"/">> \o buffer
  /\ state = "CHECKSUM_STATE" => framed = <<"/">> \o buffer \o <<"!">>
  /\ Receiving /\ ~CrcSkipped => crc = framed
  /\ AvailableIsIntact
  /\ BufferFollowsState

\* ... what is queued before a '!' belongs to a body that still has room, ...
RoomInv ==
  \A i \in DOMAIN rx : rx[i] # "!" =>
    (IF state = "READING_STATE" THEN Len(buffer) ELSE 0) + i <= MaxBody

\* ... and a telegram is listened to only while the pin asks for one.
RequestInv == state = "DISABLED_STATE" <=> req_pin = "LOW"

\* An open detection has counted the votes cast so far.
VotesInv == VotesCounted(diag, seen)

\* The inductive invariant of an undisturbed reader.
IInv == FrameInv /\ RoomInv /\ RequestInv /\ VotesInv

\* A telegram that loop() has read to its end is announced or counted as a
\* CRC error, and not both.
NothingLostSilently ==
  [][pc = "loop" /\ state = "CHECKSUM_STATE" /\ state' # state =>
       (available' <=> diag'.crc_errors = diag.crc_errors)]_vars

Ended(w, t) ==
  \/ \E c \in EndOfLine : t = <<c>>
  \/ Len(t) = CRC_LEN /\ ParseCrc(t).value = CrcOf(w)

Mailbox ==
  INSTANCE TelegramMailbox WITH
    Verified <- Ended,
    slot <- IF available THEN <<buffer>> ELSE <<>>,
    asked <- IF req_pin = "LOW" THEN "off" ELSE IF once THEN "once" ELSE "always",
    wire <- framed,
    tail <- suffix

\* Every step of the reader is a step of the mailbox, or invisible to it.
IsMailbox == Mailbox!Spec
=============================================================================
