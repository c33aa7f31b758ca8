------------------------ MODULE P1PacketAccumulator -------------------------
(***************************************************************************)
(* P1PacketAccumulator (src/src/dsmr3/reader3.h): the byte-driven state    *)
(* machine that collects one P1 telegram                                   *)
(*                                                                         *)
(*     '/' body '!' [4 hexadecimal digits | end of line]                   *)
(*                                                                         *)
(* into a buffer of fixed capacity.  process(c) is one action per branch   *)
(* of its switch; Process(c) is their disjunction, total in every state.   *)
(*                                                                         *)
(* The running CRC is kept as the sequence of bytes it was computed over:  *)
(* crc = <<>> is the code's crc = 0, Append(crc, c) its _crc16_update, and *)
(* CrcOf(crc) the sixteen bits it compares.  buffer holds the code's       *)
(* buffer[0 .. length-1], crc_buf its crc_buf[0 .. crc_pos-1].             *)
(*                                                                         *)
(* framed, suffix and seen are history variables: no action reads them.    *)
(***************************************************************************)
EXTENDS P1DiagnosticsTracker, CrcParser

CONSTANTS
    Byte,          \* the bytes the line can carry
    capacity,      \* size of the caller's buffer, its terminator included
    CrcOf(_),      \* the CRC of a sequence of bytes
    MaxFieldErrors \* largest field_errors a parse reports (uint16_t)

CarriageReturn == "CR"
LineFeed       == "LF"
EndOfLine      == {CarriageReturn, LineFeed}
Start          == "/"
End            == "!"

ASSUME ByteAssumption == {Start, End} \subseteq Byte
ASSUME CapacityAssumption == capacity \in Nat
ASSUME MaxFieldErrorsAssumption == MaxFieldErrors \in Nat

VARIABLES
    state,            \* State
    buffer,           \* the body collected so far; length = Len(buffer)
    crc,              \* the bytes digested so far
    crc_buf,          \* CRC digits collected so far; crc_pos = Len(crc_buf)
    last_crc_present, \* did the telegram in the buffer carry a CRC?
    diag,             \* diagnostics_tracker
    result,           \* what process() returned; "NONE" after another call
    framed,           \* history: the wire bytes from '/' up to now or to '!'
    suffix,           \* history: the wire bytes after the '!'
    seen              \* history: which of the first VotesToLock accepted
                      \* telegrams since the diagnostics reset had a CRC

wireHistory == <<framed, suffix>>
telegram    == <<state, buffer, crc, crc_buf, last_crc_present, wireHistory>>
vars        == <<telegram, diag, result, seen>>

State == {"WAITING_STATE", "READING_STATE", "CHECKSUM_STATE"}

Rejection == {"CHECKSUM_MISMATCH", "MALFORMED_CHECKSUM", "BUFFER_OVERFLOW"}
Result    == {"WAITING", "COMPLETE"} \cup Rejection

CrcSkipped == diag.crc_mode = "ABSENT"

-----------------------------------------------------------------------------
(***************************************************************************)
(* reset(), start(), recordCrcError()                                      *)
(***************************************************************************)
Reset ==
  /\ state' = "WAITING_STATE"
  /\ buffer' = <<>>
  /\ crc' = <<>>
  /\ crc_buf' = <<>>
  /\ last_crc_present' = FALSE
  /\ framed' = <<>>
  /\ suffix' = <<>>

Begin ==
  /\ state' = "READING_STATE"
  /\ buffer' = <<>>
  /\ crc' = IF CrcSkipped THEN <<>> ELSE <<Start>>
  /\ crc_buf' = <<>>
  /\ last_crc_present' = FALSE
  /\ framed' = <<Start>>
  /\ suffix' = <<>>

\* Mutant of RecordCrcError: the rejected telegram stays in the buffer.
CountWithoutReset ==
  /\ diag' = CountCrcError(diag)
  /\ state' = "WAITING_STATE"
  /\ UNCHANGED <<buffer, crc, crc_buf, last_crc_present, wireHistory>>

RecordCrcError ==
  /\ diag' = CountCrcError(diag)
  /\ Reset

-----------------------------------------------------------------------------
(***************************************************************************)
(* process(c), one action per branch                                       *)
(***************************************************************************)
Hunt(c) ==
  /\ state = "WAITING_STATE"
  /\ c # Start
  /\ result' = "WAITING"
  /\ UNCHANGED <<telegram, diag, seen>>

StartTelegram(c) ==
  /\ state = "WAITING_STATE"
  /\ c = Start
  /\ Begin
  /\ result' = "WAITING"
  /\ UNCHANGED <<diag, seen>>

Digest(c) == crc' = IF CrcSkipped THEN crc ELSE Append(crc, c)

EndMarker(c) ==
  /\ state = "READING_STATE"
  /\ c = End
  /\ Digest(c)
  /\ state' = "CHECKSUM_STATE"
  /\ crc_buf' = <<>>
  /\ framed' = Append(framed, c)
  /\ result' = "WAITING"
  /\ UNCHANGED <<buffer, last_crc_present, suffix, diag, seen>>

\* Mutant of BufferFull: no room is left for the terminator.
FullOffByOne == Len(buffer) >= capacity

BufferFull == Len(buffer) + 1 >= capacity

BufferOverflow(c) ==
  /\ state = "READING_STATE"
  /\ c # End
  /\ BufferFull
  /\ Reset
  /\ result' = "BUFFER_OVERFLOW"
  /\ UNCHANGED <<diag, seen>>

StoreByte(c) ==
  /\ state = "READING_STATE"
  /\ c # End
  /\ ~BufferFull
  /\ Digest(c)
  /\ buffer' = Append(buffer, c)
  /\ framed' = Append(framed, c)
  /\ result' = "WAITING"
  /\ UNCHANGED <<state, crc_buf, last_crc_present, suffix, diag, seen>>

\* A telegram is complete: the tracker hears whether it carried a CRC.
Accept(hasCrc) ==
  /\ state' = "WAITING_STATE"
  /\ last_crc_present' = hasCrc
  /\ diag' = ObserveCrc(diag, hasCrc)
  /\ seen' = WithVote(seen, hasCrc)
  /\ result' = "COMPLETE"

\* Mutant of CrcMayBeMissing: a telegram that lost its CRC is let through.
NeverMissed == TRUE

CrcMayBeMissing == diag.crc_mode # "PRESENT"

\* The line ends right after the '!': a telegram without a CRC.
AcceptWithoutCrc(c) ==
  /\ state = "CHECKSUM_STATE"
  /\ c \in EndOfLine /\ crc_buf = <<>>
  /\ CrcMayBeMissing
  /\ Accept(FALSE)
  /\ suffix' = Append(suffix, c)
  /\ UNCHANGED <<buffer, crc, crc_buf, framed>>

MalformedSuffix(c) ==
  /\ state = "CHECKSUM_STATE"
  /\ IF c \in EndOfLine /\ crc_buf = <<>>
     THEN ~CrcMayBeMissing
     ELSE CrcSkipped \/ ~isxdigit(c)
  /\ RecordCrcError
  /\ result' = "MALFORMED_CHECKSUM"
  /\ UNCHANGED seen

\* c is the next CRC digit of a telegram whose CRC is looked at.
IsNextDigit(c) ==
  /\ state = "CHECKSUM_STATE"
  /\ ~(c \in EndOfLine /\ crc_buf = <<>>)
  /\ ~CrcSkipped
  /\ isxdigit(c)

SuffixDigit(c) ==
  /\ IsNextDigit(c)
  /\ Len(crc_buf) + 1 < CRC_LEN
  /\ crc_buf' = Append(crc_buf, c)
  /\ suffix' = Append(suffix, c)
  /\ result' = "WAITING"
  /\ UNCHANGED <<state, buffer, crc, last_crc_present, diag, framed, seen>>

\* The last digit.  CrcParser::parse cannot fail on CRC_LEN hexadecimal digits
\* (lemma HexDigitsParse), so its error branch is dead code here.
VerifyChecksum(c) ==
  LET parsed == ParseCrc(Append(crc_buf, c))
  IN  /\ IsNextDigit(c)
      /\ Len(crc_buf) + 1 >= CRC_LEN
      /\ \/ /\ parsed.value = CrcOf(crc)
            /\ Accept(TRUE)
            /\ crc_buf' = Append(crc_buf, c)
            /\ suffix' = Append(suffix, c)
            /\ UNCHANGED <<buffer, crc, framed>>
         \/ /\ parsed.value # CrcOf(crc)
            /\ RecordCrcError
            /\ result' = "CHECKSUM_MISMATCH"
            /\ UNCHANGED seen

Process(c) ==
  \/ Hunt(c)
  \/ StartTelegram(c)
  \/ EndMarker(c)
  \/ BufferOverflow(c)
  \/ StoreByte(c)
  \/ AcceptWithoutCrc(c)
  \/ MalformedSuffix(c)
  \/ SuffixDigit(c)
  \/ VerifyChecksum(c)

-----------------------------------------------------------------------------
(***************************************************************************)
(* The calls of the owner                                                  *)
(***************************************************************************)
\* Mutant of ResetDiagnostics: the tracker forgets, the telegram stays.
ResetTrackerOnly ==
  /\ diag' = ResetTracker
  /\ seen' = <<>>
  /\ UNCHANGED telegram

\* resetDiagnostics(), and doChecksum() for either argument.
ResetDiagnostics ==
  /\ diag' = ResetTracker
  /\ seen' = <<>>
  /\ Reset

CallReset ==
  /\ Reset
  /\ result' = "NONE"
  /\ UNCHANGED <<diag, seen>>

CallResetDiagnostics ==
  /\ ResetDiagnostics
  /\ result' = "NONE"

CallAddSkippedFields(n) ==
  /\ diag' = AddSkipped(diag, n)
  /\ result' = "NONE"
  /\ UNCHANGED <<telegram, seen>>

-----------------------------------------------------------------------------
Init ==
  /\ state = "WAITING_STATE"
  /\ buffer = <<>>
  /\ crc = <<>>
  /\ crc_buf = <<>>
  /\ last_crc_present = FALSE
  /\ diag = ResetTracker
  /\ result = "NONE"
  /\ framed = <<>>
  /\ suffix = <<>>
  /\ seen = <<>>

Next ==
  \/ \E c \in Byte : Process(c)
  \/ CallReset
  \/ CallResetDiagnostics
  \/ \E n \in 0 .. MaxFieldErrors : CallAddSkippedFields(n)

Spec == Init /\ [][Next]_vars

-----------------------------------------------------------------------------
(***************************************************************************)
(* Properties                                                              *)
(***************************************************************************)
\* Every field keeps its type; the counters stay in their width and the
\* votes below the lock (P1DiagnosticsTracker).
TypeOK ==
  /\ state \in State
  /\ buffer \in Seq(Byte)
  /\ crc \in Seq(Byte)
  /\ crc_buf \in Seq(Byte)
  /\ last_crc_present \in BOOLEAN
  /\ diag \in Tracker
  /\ result \in Result \cup {"NONE"}
  /\ framed \in Seq(Byte)
  /\ suffix \in Seq(Byte)
  /\ seen \in Seq(BOOLEAN)

\* The body and its terminator fit the caller's buffer, also for a capacity
\* of 0 or 1, where no byte is ever stored: buffer[length] = 0 is in bounds.
BufferFits == buffer = <<>> \/ Len(buffer) < capacity

\* The suffix of a telegram that was let through: a CRC over exactly the
\* bytes from '/' to '!', or the end of the line.
SuffixVerified ==
  IF last_crc_present
  THEN /\ Len(suffix) = CRC_LEN
       /\ ParseCrc(suffix).ok
       /\ ParseCrc(suffix).value = CrcOf(framed)
  ELSE \E c \in EndOfLine : suffix = <<c>>

\* Between telegrams the buffer holds nothing, or the whole body of the last
\* telegram on the wire, byte for byte, whose suffix was verified.  A prefix
\* or a tail of a telegram, or a telegram with a wrong CRC, never stays
\* behind for raw(), CompleteRaw() or parse().
HeldTelegramIsIntact ==
  state = "WAITING_STATE" =>
    \/ buffer = <<>> /\ framed = <<>>
    \/ framed = <<Start>> \o buffer \o <<End>> /\ SuffixVerified

Decided == Len(seen) = VotesToLock

\* The detected mode is what most of the first VotesToLock telegrams since
\* the last reset of the diagnostics carried, and undecided before that;
\* rejected telegrams do not vote and nothing moves the mode afterwards.
CrcModeIsMajority == diag.crc_mode = MajorityMode(seen)

\* What makes the two invariants above inductive: while a telegram is being
\* read, the body, the digested bytes and the CRC digits follow the wire ...
FrameInv ==
  /\ state = "READING_STATE" =>
       /\ framed = <<Start>> \o buffer /\ suffix = <<>>
       /\ ~CrcSkipped => crc = framed
  /\ state = "CHECKSUM_STATE" =>
       /\ framed = <<Start>> \o buffer \o <<End>> /\ suffix = crc_buf
       /\ crc_buf \in Seq(HexDigit) /\ Len(crc_buf) < CRC_LEN
       /\ ~CrcSkipped => crc = framed
  /\ HeldTelegramIsIntact

\* ... and an open detection has counted the votes cast so far.
VotesInv == VotesCounted(diag, seen)

\* The inductive invariant: everything above at once.
IInv == BufferFits /\ FrameInv /\ VotesInv

\* A rejected telegram leaves no trace in the buffer and does not vote; it is
\* counted once as a CRC error, an overflow not at all.
RejectionLeavesNoTrace ==
  [][result' \in Rejection =>
       /\ state' = "WAITING_STATE" /\ buffer' = <<>> /\ crc_buf' = <<>>
       /\ crc' = <<>> /\ ~last_crc_present'
       /\ diag' = IF result' = "BUFFER_OVERFLOW" THEN diag ELSE CountCrcError(diag)
    ]_vars

\* Once the vote is decided, a telegram of the other kind is never accepted:
\* a meter that sends a CRC cannot lose it unnoticed, for as long as the
\* diagnostics are not reset.
MinorityKindIsRefused ==
  [][Decided /\ result' = "COMPLETE" => (last_crc_present' <=> MostHadCrc(seen))]_vars
=============================================================================
