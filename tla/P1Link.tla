------------------------------- MODULE P1Link --------------------------------
(***************************************************************************)
(* P1Reader in its place: a meter on a noisy line, the reader, and one of  *)
(* the sketches that call it:                                              *)
(*                                                                         *)
(*   "read"           examples/read/read.ino: asks for one telegram and,   *)
(*                    every minute, for the next one;                      *)
(*   "parse_to_json"  examples/parse_to_json/parse_to_json.ino: asks for   *)
(*                    one telegram after every call of loop(), and looks   *)
(*                    for it every ten seconds;                            *)
(*   "poll"           "Reading telegrams" of the README: asks once for     *)
(*                    telegrams without end, looks after every loop().     *)
(*                                                                         *)
(* The meter sends the Bodies in turn, with a CRC of its own.  It begins a *)
(* telegram only while it sees the request pin, and ends what it began.    *)
(***************************************************************************)
EXTENDS P1Reader, Crc16

CONSTANTS
    Sketches,    \* the sketches to look at
    Bodies,      \* the bodies the meter sends, one after the other
    Noise,       \* the bytes a disturbed byte can turn into
    MaxFaults,   \* bound: how often the line is disturbed
    PerMinute    \* telegrams a meter sends in a minute, at least

ASSUME SketchAssumption == Sketches \subseteq {"read", "parse_to_json", "poll"}
ASSUME NoiseAssumption == Noise \subseteq Byte \ {"!"}
ASSUME LinkAssumption == MaxFaults \in Nat /\ PerMinute \in Nat \ {0}

VARIABLES
    sketch, app_pc,  \* the sketch, and its next statement
    turn, at,        \* meter: the telegram, and the next byte (0: none is sent)
    faults, burst,   \* line: disturbances so far; is it losing bytes now?
    waited,          \* telegrams begun since the last request
    whole,           \* has the reader been sent all of the telegram so far?
    missed           \* history: whole telegrams since the last one announced

meter   == <<turn, at>>
line    == <<faults, burst>>
link    == <<sketch, app_pc, meter, line, waited, whole, missed>>
allVars == <<vars, link>>

\* The character codes, for the CRC.
Code(c) == IF c \in HexDigit THEN IF HexValue(c) < 10 THEN 48 + HexValue(c)
                                                      ELSE 55 + HexValue(c)
           ELSE [x \in {"/", "!", "CR", "LF"} |->
                   IF x = "/" THEN 47 ELSE IF x = "!" THEN 33
                   ELSE IF x = "CR" THEN 13 ELSE 10][c]

CrcOfBytes(s) == Crc([i \in DOMAIN s |-> Code(s[i])])

Frame(body) == <<"/">> \o body \o <<"!">>

MeterCrc(body) == Remainder([i \in DOMAIN Frame(body) |-> Code(Frame(body)[i])])

Telegram(body) == Frame(body) \o FormatCrc(MeterCrc(body)) \o <<"CR", "LF">>

Telegrams == [i \in DOMAIN Bodies |-> Telegram(Bodies[i])]

ASSUME MeterAssumption ==
  /\ Bodies # <<>> /\ Bodies \in Seq(Seq(Byte \ {"!"}))
  /\ \A i \in DOMAIN Bodies : MeterCrc(Bodies[i]) \in Nat
  /\ EndOfLine \cup ToSet(UpperHex) \subseteq Byte

LastDigit == Len(Telegrams[turn]) - 2

LinkInit ==
  /\ Init
  /\ sketch \in Sketches /\ app_pc = "setup"
  /\ turn = 1 /\ at = 0
  /\ faults = 0 /\ burst = FALSE
  /\ waited = 0 /\ whole = FALSE /\ missed = 0

-----------------------------------------------------------------------------
(***************************************************************************)
(* The meter and the line                                                  *)
(***************************************************************************)
BeginTelegram ==
  /\ at = 0 /\ req_pin = "HIGH"
  /\ at' = 1 /\ whole' = TRUE
  /\ waited' = IF waited < PerMinute THEN waited + 1 ELSE waited
  /\ UNCHANGED <<vars, sketch, app_pc, turn, line, missed>>

\* The next byte leaves the meter; arrived says whether it came through.
Advance(arrived) ==
  /\ at > 0
  /\ IF at < Len(Telegrams[turn])
     THEN at' = at + 1 /\ UNCHANGED turn
     ELSE at' = 0 /\ turn' = (turn % Len(Bodies)) + 1
  /\ whole' = (whole /\ arrived)
  /\ missed' = IF whole' /\ at = LastDigit /\ missed <= MaxFaults + 1
               THEN missed + 1 ELSE missed
  /\ UNCHANGED <<sketch, app_pc, waited>>

SendByte ==
  /\ Advance(TRUE)
  /\ Arrive(Telegrams[turn][at])
  /\ burst' = FALSE /\ UNCHANGED faults

MayDisturb == faults < MaxFaults

\* A run of bytes of one telegram is lost: one disturbance.
LoseByte ==
  /\ burst \/ MayDisturb
  /\ Advance(FALSE)
  /\ faults' = IF burst THEN faults ELSE faults + 1
  /\ burst' = (at' # 0)
  /\ UNCHANGED vars

GarbleByte(c) ==
  /\ MayDisturb
  /\ Advance(FALSE)
  /\ Arrive(c)
  /\ faults' = faults + 1 /\ burst' = FALSE

-----------------------------------------------------------------------------
(***************************************************************************)
(* The sketch and the reader                                               *)
(***************************************************************************)
At(statement) == app_pc = statement /\ pc = "app"

\* A request in the middle of a telegram: the reader has missed its start.
Request(o, next) ==
  /\ Enable(o)
  /\ app_pc' = next
  /\ waited' = 0 /\ whole' = FALSE
  /\ UNCHANGED <<sketch, meter, line, missed>>

Setup == At("setup") /\ Request(sketch # "poll", "loop")

SketchCallsLoop ==
  /\ At("loop") /\ CallLoop
  /\ app_pc' = IF sketch = "poll" THEN "available" ELSE "enable"
  /\ UNCHANGED <<sketch, meter, line, waited, whole, missed>>

\* While no telegram was accepted, a minute is PerMinute telegrams long.
MinuteIsOver == req_pin = "LOW" \/ waited = PerMinute

EnableAgain ==
  /\ At("enable") /\ (sketch = "read" => MinuteIsOver)
  /\ Request(TRUE, "available")

Continue(next) ==
  app_pc' = next /\ UNCHANGED <<vars, sketch, meter, line, waited, whole, missed>>

NotYetAgain == At("enable") /\ sketch = "read" /\ Continue("available")

\* parse_to_json looks every ten seconds only.
NothingToParse ==
  /\ At("available") /\ (~available \/ sketch = "parse_to_json")
  /\ Continue("loop")

ParseTelegram ==
  /\ At("available") /\ available
  /\ Parse(0)
  /\ app_pc' = "loop"
  /\ UNCHANGED <<sketch, meter, line, waited, whole, missed>>

ReaderStep ==
  /\ Loop
  /\ missed' = IF available' /\ ~available THEN 0 ELSE missed
  /\ UNCHANGED <<sketch, app_pc, meter, line, waited, whole>>

Sketch ==
  \/ Setup \/ SketchCallsLoop
  \/ NotYetAgain \/ NothingToParse \/ ParseTelegram

LinkNext ==
  \/ BeginTelegram \/ SendByte
  \/ LoseByte \/ \E c \in Noise : GarbleByte(c)
  \/ Sketch \/ EnableAgain
  \/ ReaderStep

\* Weak fairness of ReaderStep, which is enabled exactly inside loop().
ReaderGoesOn == []<>(pc # "loop") \/ []<><<ReaderStep>>_allVars

\* The meter goes on sending, the processor goes on, and so does the clock.
Fairness ==
  /\ WF_allVars(BeginTelegram) /\ WF_allVars(SendByte)
  /\ WF_allVars(Sketch) /\ ReaderGoesOn
  /\ SF_allVars(EnableAgain)

LinkSpec == LinkInit /\ [][LinkNext]_allVars /\ Fairness

-----------------------------------------------------------------------------
(***************************************************************************)
(* Properties                                                              *)
(***************************************************************************)
\* What some of them ask of the meter, the heap and the stream (P1ReaderProofs):
\* the reader computes the CRC of the meter, which has CRC_LEN digits; ...
SameCrc ==
  \A i \in DOMAIN Bodies :
    /\ MeterCrc(Bodies[i]) = CrcOf(Frame(Bodies[i]))
    /\ MeterCrc(Bodies[i]) < 65536
    /\ Shifted(MeterCrc(Bodies[i]))[CRC_LEN] = 0

\* ... the heap has room for every body; ...
RoomForBodies == \A i \in DOMAIN Bodies : Len(Bodies[i]) <= HeapLimit

\* ... the stream queues no more than a telegram.
SmallQueue == \A i \in DOMAIN Bodies : FifoSize <= Len(Telegrams[i])

\* What available() announces is the body of a telegram the meter sent, not
\* a part of one or two of them joined (class comment of P1Reader: "Once a
\* full and correct message is received").
AnnouncedIsSent == available => \E i \in DOMAIN Bodies : buffer = Bodies[i]

\* A disturbance costs the telegram it hits and at most one more, whose
\* beginning the reader took for the suffix of the disturbed one; the telegram
\* on its way now is the last one counted.
MissedIsBounded == missed <= faults + 1

\* The String of the reader holds at most one telegram more than there were
\* disturbances: one that lost its '!' runs on into the next.
BufferIsBounded ==
  \E i \in DOMAIN Bodies :
    Len(buffer) <= (faults + 1) * Len(Telegrams[i])

\* Telegrams are parsed for ever: after a disturbance the reader finds the
\* beginning of a telegram again.
Resynchronises == []<><<ParseTelegram>>_allVars

\* loop() returns, although it reads as long as bytes keep coming.
LoopReturns == pc = "loop" ~> pc = "app"
=============================================================================
