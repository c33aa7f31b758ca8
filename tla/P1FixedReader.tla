---------------------------- MODULE P1FixedReader ---------------------------
(***************************************************************************)
(* P1FixedReader (src/src/dsmr3/reader3.h): a P1PacketAccumulator behind   *)
(* a stream, a request pin and an availability flag.                       *)
(*                                                                         *)
(* Three parties take steps.  The line puts bytes into the receive queue   *)
(* of the stream at any moment (Arrive, an interrupt).  The application    *)
(* runs on one thread: it calls loop(), or any other method while loop()   *)
(* is not running.  loop() itself handles one byte per step, so that bytes *)
(* arrive between two of them, and returns when the queue is empty or a    *)
(* telegram is complete.                                                   *)
(***************************************************************************)
EXTENDS Naturals, Sequences

CONSTANTS
    CounterRange, CRC_LEN, Byte, CrcOf(_), MaxFieldErrors,
    capacity,            \* MaxTelegramLength + 1
    FifoSize,            \* bytes the stream can queue
    LoopWhileAvailable   \* may the application call loop() while a telegram
                         \* is available, without consuming it first?

\* Those of P1PacketAccumulator, and of the reader itself.
ASSUME CounterRangeAssumption == CounterRange \in Nat \ {0, 1}
ASSUME CrcLenAssumption == CRC_LEN \in Nat \ {0}
ASSUME ByteAssumption == {"/", "!"} \subseteq Byte
ASSUME CapacityAssumption == capacity \in Nat
ASSUME MaxFieldErrorsAssumption == MaxFieldErrors \in Nat
ASSUME FifoAssumption == FifoSize \in Nat \ {0}
ASSUME LoopAssumption == LoopWhileAvailable \in BOOLEAN

VARIABLES
    acc_state, buffer, crc, crc_buf, last_crc_present, diag, result,
    framed, suffix, seen,  \* the accumulator, its history variables included
    reader_state,          \* state
    req_pin,               \* level of the request pin
    once,
    available,             \* _available
    rx,                    \* bytes received and not read yet
    pc,                    \* who runs: "app", or "loop" inside loop()
    ret                    \* what loop() returned last

acc == INSTANCE P1PacketAccumulator WITH state <- acc_state

telegram    == <<acc_state, buffer, crc, crc_buf, last_crc_present, framed, suffix>>
accumulator == <<telegram, diag, result, seen>>
reader      == <<reader_state, req_pin, once>>
control     == <<pc, ret>>
vars        == <<accumulator, reader, available, rx, control>>

Enabled == reader_state = "WAITING_STATE"

Init ==
  /\ acc!Init
  /\ reader_state = "DISABLED_STATE"
  /\ req_pin = "LOW"
  /\ once = FALSE
  /\ available = FALSE
  /\ rx = <<>>
  /\ pc = "app"
  /\ ret = FALSE

-----------------------------------------------------------------------------
(***************************************************************************)
(* The line                                                                *)
(***************************************************************************)
\* A byte arrives; a byte that finds the queue full is lost.
Arrive(c) ==
  /\ Len(rx) < FifoSize
  /\ rx' = Append(rx, c)
  /\ UNCHANGED <<accumulator, reader, available, control>>

-----------------------------------------------------------------------------
(***************************************************************************)
(* loop()                                                                  *)
(***************************************************************************)
CallLoop ==
  /\ pc = "app"
  /\ LoopWhileAvailable \/ ~available
  /\ pc' = "loop"
  /\ UNCHANGED <<accumulator, reader, available, rx, ret>>

Return(value) == pc' = "app" /\ ret' = value

LoopIdle ==
  /\ pc = "loop" /\ rx = <<>>
  /\ Return(available)
  /\ UNCHANGED <<accumulator, reader, available, rx>>

LoopToss ==
  /\ pc = "loop" /\ rx # <<>> /\ ~Enabled
  /\ rx' = Tail(rx)
  /\ UNCHANGED <<accumulator, reader, available, control>>

\* The pin goes low and whatever is still queued is read away.
StopRequest ==
  /\ req_pin' = "LOW"
  /\ reader_state' = "DISABLED_STATE"
  /\ rx' = <<>>
  /\ UNCHANGED once

\* Mutant of AfterTelegram: a one-shot request stays open.
KeepListening ==
  /\ rx' = Tail(rx)
  /\ UNCHANGED reader

AfterTelegram ==
  IF once THEN StopRequest
          ELSE rx' = Tail(rx) /\ UNCHANGED reader

LoopByte ==
  /\ pc = "loop" /\ rx # <<>> /\ Enabled
  /\ acc!Process(Head(rx))
  /\ \/ /\ result' = "COMPLETE"
        /\ available' = TRUE
        /\ AfterTelegram
        /\ Return(TRUE)
     \/ /\ result' \in acc!Rejection
        /\ available' = FALSE
        /\ rx' = Tail(rx)
        /\ UNCHANGED <<reader, control>>
     \/ /\ result' = "WAITING"
        /\ rx' = Tail(rx)
        /\ UNCHANGED <<reader, available, control>>

-----------------------------------------------------------------------------
(***************************************************************************)
(* The other calls of the application                                      *)
(***************************************************************************)
Enable(o) ==
  /\ pc = "app"
  /\ req_pin' = "HIGH"
  /\ reader_state' = "WAITING_STATE"
  /\ once' = o
  /\ UNCHANGED <<accumulator, available, rx, control>>

\* Mutants of DiscardPartial: a half read telegram survives a disable(), or
\* a complete one does not.
DiscardNothing == UNCHANGED accumulator
DiscardAll     == acc!CallReset

DiscardPartial == IF available THEN UNCHANGED accumulator ELSE acc!CallReset

Disable ==
  /\ pc = "app"
  /\ StopRequest
  /\ DiscardPartial
  /\ UNCHANGED <<available, control>>

\* Mutant of ClearTelegram: the flag is lowered, the telegram stays.
LowerFlag == available' = FALSE /\ UNCHANGED telegram

\* clear(), without the diagnostics it leaves alone.
ClearTelegram ==
  IF available
  THEN acc!Reset /\ available' = FALSE
  ELSE UNCHANGED <<telegram, available>>

Clear ==
  /\ pc = "app"
  /\ ClearTelegram
  /\ result' = "NONE"
  /\ UNCHANGED <<diag, seen, reader, rx, control>>

\* parse(): n lines of the telegram were skipped as malformed.
Parse(n) ==
  /\ pc = "app"
  /\ diag' = acc!AddSkipped(diag, n)
  /\ ClearTelegram
  /\ result' = "NONE"
  /\ UNCHANGED <<seen, reader, rx, control>>

ClearAll ==
  /\ pc = "app"
  /\ acc!CallReset
  /\ available' = FALSE
  /\ UNCHANGED <<reader, rx, control>>

DoChecksum ==
  /\ pc = "app"
  /\ acc!CallResetDiagnostics
  /\ available' = FALSE
  /\ UNCHANGED <<reader, rx, control>>

\* The new stream starts with an empty queue.
ChangeStream ==
  /\ pc = "app"
  /\ rx' = <<>>
  /\ acc!CallResetDiagnostics
  /\ available' = FALSE
  /\ UNCHANGED <<reader, control>>

-----------------------------------------------------------------------------
Loop == LoopIdle \/ LoopToss \/ LoopByte

Next ==
  \/ \E c \in Byte : Arrive(c)
  \/ CallLoop
  \/ Loop
  \/ \E o \in BOOLEAN : Enable(o)
  \/ Disable
  \/ Clear
  \/ \E n \in 0 .. MaxFieldErrors : Parse(n)
  \/ ClearAll
  \/ DoChecksum
  \/ ChangeStream

Spec == Init /\ [][Next]_vars

-----------------------------------------------------------------------------
(***************************************************************************)
(* Properties                                                              *)
(***************************************************************************)
\* Every variable keeps its type (P1FixedReader's members).
TypeOK ==
  /\ acc!TypeOK
  /\ reader_state \in {"DISABLED_STATE", "WAITING_STATE"}
  /\ req_pin \in {"LOW", "HIGH"}
  /\ once \in BOOLEAN
  /\ available \in BOOLEAN
  /\ rx \in Seq(Byte)
  /\ pc \in {"app", "loop"}
  /\ ret \in BOOLEAN

\* While available() says so, raw() is the whole body of a telegram of the
\* wire whose end was verified: never part of one, whatever calls were made
\* while it was read.
AvailableIsIntact ==
  available =>
    /\ acc_state = "WAITING_STATE"
    /\ framed = <<acc!Start>> \o buffer \o <<acc!End>>
    /\ acc!SuffixVerified

\* Between telegrams nothing stays in the buffer that available() does not
\* announce: rawLength() and CompleteRaw() agree with it.
UnannouncedIsEmpty ==
  acc_state = "WAITING_STATE" /\ ~available => buffer = <<>>

\* disable() leaves no half read telegram for a later enable() to continue:
\* bytes of two telegrams never end up in one.
NothingHalfReadWhileDisabled == ~Enabled => acc_state = "WAITING_STATE"

\* What makes these inductive, for an application that consumes a telegram
\* before it calls loop() again: loop() runs while nothing is announced, and
\* the pin is high exactly while the accumulator is fed.
RequestInv == Enabled <=> req_pin = "HIGH"

IInv ==
  /\ acc!FrameInv
  /\ AvailableIsIntact
  /\ UnannouncedIsEmpty
  /\ NothingHalfReadWhileDisabled
  /\ RequestInv
  /\ pc = "loop" => ~available

\* The reader is a mailbox for one verified telegram.
Ended(w, t) ==
  \/ \E c \in acc!EndOfLine : t = <<c>>
  \/ Len(t) = CRC_LEN /\ acc!ParseCrc(t).value = CrcOf(w)

Mailbox ==
  INSTANCE TelegramMailbox WITH
    Verified <- Ended,
    slot <- IF available THEN <<buffer>> ELSE <<>>,
    asked <- IF req_pin = "LOW" THEN "off" ELSE IF once THEN "once" ELSE "always",
    wire <- framed,
    tail <- suffix

\* Every step of the reader is a step of the mailbox, or invisible to it.
IsMailbox == Mailbox!Spec
=============================================================================
