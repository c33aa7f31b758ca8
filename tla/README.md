# dsmr3Lib in TLA+

A model of the telegram path of dsmr3Lib: from a meter that writes a reading,
over a noisy line and the bytes of its P1 port, to the fields of a `ParsedData`.
TLC checks it on small instances; what it checks of the accumulator, of both
readers, of the agreement of the two framings and of the line cutting is proved
with TLAPS for every value of the parameters, and so is the safety of the whole
link and that an accepted value was read to its end, as far as section 4 says. `src/...` below means the library's own sources, `src/dsmr3/...`.

## 1. The system

A P1 telegram on the wire is

    '/' identification line, data lines '!' [4 hexadecimal digits] end of line

and the library takes it through these parts:

| Part | Source | State | Operations |
| --- | --- | --- | --- |
| `P1DiagnosticsTracker` | `reader3.h:77-129` | CRC mode, two counters, two vote counters | reset, addSkippedFields, recordCrcError, observeCrc |
| `P1PacketAccumulator` | `reader3.h:137-302` | state (WAITING, READING, CHECKSUM), fixed buffer and length, running CRC, CRC digits, `last_crc_present`, a tracker | process(byte), reset, resetDiagnostics, doChecksum, addSkippedFields |
| `P1FixedReader` | `reader3.h:304-459` | DISABLED/WAITING, request pin, `once`, `_available`, an accumulator | loop, enable, disable, available, raw, parse, clear, clearAll, doChecksum, ChangeStream, CompleteRaw |
| `P1Reader` | `reader3.h:482-782` | the same, with its own four-state machine, a growing `String` and a running CRC of its own | the same |
| `CrcParser`, `CompleteRaw` | `parser3.h:336-363`, `reader3.h:376-396` | none | four characters to a number, a number to four characters |
| `P1Parser::parse` | `parser3.h:374-416` | none (a text) | framing and CRC of a whole telegram |
| `parse_data`, `parse_line`, `ParsedData` | `parser3.h:68-163, 425-516` | two pointers, the `*_present` flags, the result | cut lines, dispatch them to fields |
| `ObisIdParser`, `StringParser`, `NumParser` | `parser3.h:166-334` | none | the pieces of a line |
| `ValueDecoder`, field types | `fields3.cpp`, `fields3.h` | the values | timestamps, fixed point, two line fields, M-Bus sentinels |
| CRC-16 | `crc16.h` | none | one byte into a running CRC |
| field catalogue | `fields3.h:278-513` | none | name, OBIS id, type, unit and limits of each field |
| the example sketches | `examples/read`, `examples/parse_to_json` | the minute clock | setup and loop: when they ask, poll and parse |
| error texts | `util.h:144-177`, `captureFieldWarning` | none | not modelled |

How they interact. A reader owns a `Stream`, whose receive queue is filled by an
interrupt at any moment. Everything else runs on one thread: the application
calls `loop()` as often as it can, asks `available()`, then calls `parse()`,
`raw()` or `CompleteRaw()`, and may call `enable`, `disable`, `clear`,
`clearAll`, `doChecksum` or `ChangeStream` in between. `loop()` does not keep
control: it returns when the queue is empty and goes on in the state it left.
`P1FixedReader` feeds its accumulator and mirrors its result in `_available`;
`P1Reader` repeats the accumulator's logic by hand, with `peek()` and a wait for
four queued bytes behind the '!'. Both hand the stored body to `parse_data`
(not to `P1Parser::parse`: the CRC was checked already), count its malformed
lines in the diagnostics and clear the telegram. `P1Parser::parse` is the entry
for a telegram the application has as text.

What is hard about it, and what would be correct:

* the accumulator sees any byte stream, with bytes lost, changed and joined, and
  calls between any two bytes. Between telegrams its buffer must hold nothing or
  the whole body of one telegram whose CRC matched (or that had none), and it
  must never overrun;
* three flags and states have to move together (`_available`, `state`, the
  contents of the buffer), with `disable()`, `clear()` and one-shot requests in
  the order the code happens to use;
* the CRC mode is a vote over three telegrams that changes what the next ones
  have to look like;
* the same rules are written down twice or three times (accumulator, `P1Reader`,
  `P1Parser::parse`) and must agree;
* a malformed line must not harm the lines around it, although a field may read
  ahead into the next line;
* whatever the line loses or changes, the reader has to find the next telegram,
  and never announce one that was not sent;
* the value that ends up in a field is what the meter wrote: the right field
  among nearly ninety with similar ids, the right decimals, unit, season and order,
  and nothing of a line that was refused.

`PROJECT.json` lists each hazard at its line with the properties that cover it.

## 2. Modules

    P1DiagnosticsTracker   CrcParser            operators: the tracker, the CRC digits
             \              /     \
          P1PacketAccumulator   P1Parser        the byte machine; a text as a telegram
                    |       \     /
                 P1Fixed-  P1ParserAgreement    the reader; both readings of a line
                  Reader
                    |         P1Reader          the other reader (tracker and CRC digits only)
                    |        /
                 TelegramMailbox                what both readers promise

                    P1Reader  Crc16
                        \      /
                         P1Link                 meter, line, reader and sketch together

    P1DataParser             the lines of a body, and which of them set a field

    Characters               characters, texts, digits (used by both halves)
        |
    ObisIdParser  NumParser                     the id of a line; a number in parentheses
            \      /
          ValueDecoder                          strings, timestamps, values
               |
         FieldCatalogue                         the fields of fields3.h as data
               |
           FieldLine                            parse_line and dispatch, on characters
               |
          FieldReading                          what a meter writes, and the reference

The proofs are in modules of their own, which the models do not use:

    TextLemmas                        scans, folds and least counterexamples
        |
        |-- P1DataParserProofs        extends P1DataParser
        |-- FieldReadingProofs        extends FieldReading
        |
    ReaderLemmas                      the tracker, CRC digits and frames
        |
        |-- P1PacketAccumulatorProofs     extends P1PacketAccumulator
        |       |-- P1FixedReaderProofs       extends P1FixedReader; the accumulator
        |       |                             and its proofs are instances in it
        |       |-- P1ParserAgreementProofs   extends P1ParserAgreement
        |
        |-- P1ReaderProofs                extends P1Link: P1Reader alone, then in its place

`MC<module>` gives a module small sets and a checksum for TLC. Every definition
that models code is listed in `PROJECT.json` with its lines; a definition named
"Mutant of X" is a plausible bug, which takes the place of X to show that a
property notices it.

**P1DiagnosticsTracker** has no control of its own. It is a record and one
operator per method. Counters wrap at `CounterRange` (2^32 in the code).

**CrcParser** models `strtoul(buf, &endp, 16)` on characters: white space, sign,
prefix, digits. That is more than hexadecimal digits, and the difference is
visible (finding 5 in section 6).

**P1PacketAccumulator** has one action per branch of `process`: `Hunt`,
`StartTelegram`, `EndMarker`, `BufferOverflow`, `StoreByte`, `AcceptWithoutCrc`,
`MalformedSuffix`, `SuffixDigit`, `VerifyChecksum`, and one per call of the
owner. `Process(c)` is their disjunction and total. The running CRC is kept as
the sequence of bytes it was computed over, `CrcOf` being a parameter: the
properties hold for any function of the bytes. `framed`, `suffix` and `seen`
are history variables (the bytes of the wire from '/' to '!', those after it, and
the first three votes); no guard reads them.

**P1FixedReader** instantiates the accumulator and adds the line (`Arrive`), the
steps of `loop()` (one per byte, so that bytes arrive in between) and the calls.
`pc` says who runs: a call is possible only while `loop()` is not running.
`LoopWhileAvailable` says whether the application may call `loop()` again before
it has consumed a telegram.

**P1Reader** models the other `loop()`: the byte states, and behind the '!' the
peek, the wait for `CRC_LEN` queued bytes and the read of all of them.
`HeapLimit` is the longest `String` the heap has room for, `MidTelegram` the set
of calls an application makes while a telegram is being received.

**TelegramMailbox** is the abstract specification of both: a slot that is empty
or holds the body of a verified telegram, filled only while telegrams are asked
for, never overwritten, emptied by a one-shot rule. `IsMailbox` in each reader is
the refinement: slot is the buffer if `_available`, asked is the pin and `once`.

**P1Parser** is `P1Parser::parse` as an operator on texts, with `CompleteRaw`.
**P1ParserAgreement** lets a fresh accumulator hear a line byte by byte and
compares its verdict with that operator's.

**P1DataParser** models `parse_data`, `parse_line` and the dispatch of
`ParsedData`. Characters that are no end of line are grouped into lexemes ("the
id of a selected field and a value it accepts", ...), which is all the line
cutting can tell apart; the pointers `line_start` and `line_end` are kept, and
the scan for the next end of line is one step, since it changes nothing else. The
field that spans two lines is the real algorithm of
`doubleLineTimestampedFixed` on lexemes.

**Crc16** is the bit loop of `crc16.h` with a word as the set of its one bits, and,
for the meter, the CRC as the standard defines it: the remainder of a polynomial
division. Only P1Link uses it; elsewhere `CrcOf` is a parameter.

**P1Link** extends P1Reader with the two ends of the line. The meter sends its
bodies in turn, framed and with its own CRC, and begins a telegram only while the
request pin is high (`BeginTelegram`, `SendByte`). The line loses a run of bytes
(`LoseByte`, one disturbance) or changes one (`GarbleByte`). The sketch is a
program of three statements (`app_pc`): `loop()`, `enable(true)`, and
`available()`/`parse()`, in the order of the example: `read` asks again when the
minute is over, `parse_to_json` after every `loop()`, `poll` (the README's) never.
`waited`, `whole` and `missed` are for the clock and the properties.

**Characters** has texts as sequences of one-character strings, the digits and
`isxdigit`.

**ObisIdParser** folds `ObisIdParser::parse` over a text: the limit of 255 before
each digit, the separators, parts that are missing, 1-1 taken for 1-0.
**NumParser** is `NumParser::parse`, its template arguments as parameters,
**ValueDecoder** `StringParser` and `fields3.cpp`, one operator per function. A
decoder returns the record of its field as it leaves it, since several change
it before they find the value wrong.

**FieldCatalogue** lists the fields of `fields3.h`: name, id, field template and
its arguments, and the width of the member an integer goes to.

**FieldLine** is `parse_line`, `ParsedData::parse_line` with the provisional
`present()`, `clear_present` and the `parse()` of each field template, on
characters, for the selected `Fields`. It is the lower half of what P1DataParser
leaves open, and P1DataParser has what is left out here: the two pointers. A
line and, for the field that takes two, the next one are handled in a step.

**FieldReading** is the meter and the reference. It writes a reading (the numbers
of the id, with or without zeros and the sixth part; a value; something behind
it) as a line, `Init`, and says independently of the parser which field the
reading is for, whether the field has a place for the value, and what it should
hold: digits weighed by their positions, instants as numbers. The properties
compare that with the `ParsedData`.

## 3. Runs

| Run | Asks | Instance |
| --- | --- | --- |
| `accumulator` | Does any interleaving of bytes and calls leave a wrong buffer or a wrong mode? | six bytes, capacity 4 (three bytes and the terminator), 4 CRC digits, counters of 3 values |
| `fixed_reader` | Is `P1FixedReader` a mailbox, with bytes arriving inside `loop()` and calls in between? | four bytes, bodies of up to 2, queue of 2 |
| `reader` | Is `P1Reader` a mailbox? | four bytes, bodies of up to 2, 2 CRC digits, queue of 2 |
| `parser_agreement` | Do accumulator and `P1Parser::parse` agree, and does `CompleteRaw()` parse? | every line of up to 8 of seven characters, 3 CRC digits |
| `data_parser` | Is every line handled once, and are the flags and counts right? | every body of up to 6 of seven lexemes, fresh and reused data, both values of `unknown_error` |
| `link` | Is only what was sent announced, what does a disturbance cost, and does the reader always come back? | two bodies with their real CRC, one disturbance, a queue of 4, the sketches `read` and `poll` |
| `field_line` | Is what the meter wrote what the field holds? | every field of the catalogue; see below |

The other runs are the violations of section 6.

Why these bounds are enough to meet the interesting cases:

* `accumulator`: capacity 4 holds an empty body, a body that fits exactly and one
  that overflows; the checksum has sixteen values, each of which can and cannot
  match; three telegrams with and without CRC fit in the votes, so that all
  three modes are reached and rejected telegrams fall between votes. The proofs
  remove these bounds.
* the readers: a queue of two makes the CRC of `P1Reader` arrive in parts and
  lets `disable()` and `ChangeStream()` drop bytes; bodies of two tell an intact
  body from a prefix, a tail and a concatenation. The checksum depends on the
  order of the bytes and matches the suffix "0..0" for about half of them.
  `P1Reader` uses two digits instead of four: the code treats the digits as one
  block, and one digit too few and exactly enough both occur.
* `MaxBody` bounds the unbounded `String`: a telegram that has grown that long
  only goes on with its '!'.
* `parser_agreement`: 8 characters are '/', a body of up to two, '!', a suffix of
  up to four digits (one more than `CRC_LEN`) and the end of the line.
* `data_parser`: 6 lexemes are an identification, a two line field, its value
  and two more ends of line or fields behind it, which is as far as the pointers
  can influence each other: after an end of line beyond `line_start` they are
  equal again.
* `link`: the bodies differ in length, so that two joined telegrams differ from
  each; the queue holds exactly one CRC. One disturbance is every way to lose any
  run of bytes of one telegram, or to turn any byte into '/', a digit or a
  carriage return. Two are beyond what the properties claim: two telegrams whose
  suffix is cut off while the mode is DETECTING fix it as ABSENT, and from then
  on every intact telegram is refused. For the same reason `Noise` leaves out
  '!': a byte turned into '!' in front of an end of line is a telegram without a
  CRC, which the library accepts as long as the mode is not PRESENT, as
  DESIGN.md says. `PerMinute = 6` is a telegram every ten seconds: a request is
  repeated after six telegrams at the earliest, and one of them is accepted. With
  a slower meter (`PerMinute = 1`), or more noise than one disturbance, `read`
  repeats it in the middle of a telegram and ends as `parse_to_json` does
  (finding 2).
* `field_line`: each field gets values of its type in all forms of its id (five
  parts, six, channel 1, leading zeros), string fields lengths around their limits;
  the ids of one field are changed in each part, with the numbers around 255; one
  field of each numeric type gets all numbers of up to two digits and four
  decimals (one more than are stored) over the digits 0 and 9, with the units it
  may have; the timestamp gets instants around every limit of its parts; four
  values are damaged at each character; twelve readings, right and wrong, are
  combined in pairs. `WordRange = 2^20` makes numbers of a few digits overflow;
  the narrower members have their real 2^8 and 2^16.

Deadlock is checked where the system goes on forever; `P1ParserAgreement`,
`P1DataParser` and `FieldReading` end with their text.

What the passing runs show:

* `HeldTelegramIsIntact`, `RejectionLeavesNoTrace`, `BufferFits`: whatever comes
  in, the buffer between telegrams is empty or one verified body;
* `IInv` of the accumulator, of both readers and of `parse_data`: the inductive
  invariants of section 4, on the instances of the runs;
* `CrcModeIsMajority`, `MinorityKindIsRefused`: the mode is the majority of the
  first three accepted telegrams and from then on one kind only is accepted;
* `AvailableIsIntact`, `UnannouncedIsEmpty`, `NothingHalfReadWhileDisabled`,
  `NothingLostSilently`, `IsMailbox`: the flags and the buffer of the readers
  agree at all times, bytes of two telegrams are never joined, a telegram read to
  its end is announced or counted. `P1Reader`'s `BufferFollowsState` and
  `CrcModeIsMajority` are parts of its `IInv`;
* `ParserAcceptsOnlyWhatReaderHeld`, `ReaderHoldsOnlyWhatParserAccepts`,
  `SameReason`, `CompleteRawParses`: the two implementations agree, up to
  suffixes that are not hexadecimal. A suffix of more than `CRC_LEN` digits is a
  difference too, and the properties allow it: the byte machine has accepted
  at the last digit it needs, the text parser rejects the line;
* `LinesAreForward`, `EveryLineOnce`, `PresentIfAccepted`, `ErrorsAreCounted`:
  `*line_end == '\r' || *line_end == '\n' && line_start <= line_end` lacks
  parentheses, and is right as it stands: between a line that was read ahead and
  `line_start` there is no carriage return. `PresentIfAccepted` and
  `ErrorsAreCounted` hold after every line, not only at the end: a flag is set
  exactly if it was set before or one of the lines handled so far was accepted,
  and the count is that of the refused lines, modulo its width;
* `AnnouncedIsSent`, `MissedIsBounded`, `BufferIsBounded`: with the real CRC and
  one disturbance, what is announced was sent; a disturbance costs the telegram it hits and at most the
  next one, whose beginning was taken for the lost digits; the `String` grows by
  one telegram for a lost '!' and no further;
* `Resynchronises`, `LoopReturns`: the liveness side of the same system, see
  Fairness;
* `RightField`: a line sets no field but the one its id stands for. That the
  catalogue gives no id to two fields follows, since each field is tried;
* `ValueIsExact`, `MilliIsThousandth`, `InstantIsKept`, `EitherOrder`: the value
  is the one written, for what fits the word and the member. Larger numbers wrap
  without an error (4294968 units and more);
* `AcceptedIsWhole`, `FirstReadingCounts`: nothing of an accepted line is left
  unread (`SetByWholeLines`, for messages of any length, is a theorem and no part
  of a run), and of several lines for a field the first right one counts as if the
  others had not been there, although a refused one has written part of the field.

**Fairness.** P1Link states it: the meter goes on (weak fairness of beginning a
telegram and of sending the next byte), the processor goes on (weak fairness of
the sketch and of `loop()`), and the minute clock is real (strong fairness of
asking again, as the sketch comes by that statement again and again and the
minute does end). Nothing is assumed of the line: it need neither disturb nor stop
to. `ReaderGoesOn` is weak fairness of `loop()` spelled out, its enabling
condition being `pc = "loop"`. Under that, telegrams are parsed for ever
(`Resynchronises`), and `loop()` returns (`LoopReturns`) although it reads as
long as bytes are queued: it returns behind a telegram whatever is queued, and in
front of one the meter's silence gives it the empty queue. The other
specifications state no fairness; their properties are safety properties.

## 4. Proofs

Every theorem holds for every value of the constants that the named assumptions
of the modules allow: an alphabet that has the '/' and the '!' (and, for
`P1Reader`, an end of line), a CRC that is some function of the bytes, one CRC
digit or more, counters of two values or more, a capacity, a queue and a heap of
any size. A hypothesis beyond that stands in the theorem's own ASSUME. The proofs follow
the model: one step per action, and below it one per part of the invariant that
the action can disturb.

### The accumulator

`P1PacketAccumulatorProofs`, no further hypothesis: type correctness, the three
safety invariants (`BufferAlwaysFits`, `HeldTelegramAlwaysIntact`,
`CrcModeAlwaysMajority`), the two action properties (`RejectionNeverLeavesTrace`,
`MinorityKindAlwaysRefused`) and `InductiveInvariant`.

None of the invariants is inductive as it stands. `IInv` adds what is true in the
middle of a telegram (`FrameInv`: the body, the digested bytes and the CRC digits
follow the wire, unless the mode is ABSENT, in which the CRC is not computed) and
of an open vote (`VotesInv`: the counters are the votes in `seen`). The link
between the two is that the mode cannot change while a telegram is read: only
`Accept` and a reset change it, and both end the telegram. That is why a CRC
begun in one mode is never compared in another. `HexDigitsParse` shows on the way
that the error branch behind `CrcParser::parse` in `process`
(`reader3.h:231-234`) cannot be taken: hexadecimal digits always parse.

### P1FixedReader

`P1FixedReaderProofs`. Whatever the application does: `TypeCorrect` and
`UnannouncedAlwaysEmpty`. Under `LoopWhileAvailable = FALSE`, the application
that consumes a telegram before it calls `loop()` again:
`InductiveInvariant`, `AvailableAlwaysIntact`, `NeverHalfReadWhileDisabled` and
`FixedReaderIsMailbox`. The hypothesis is needed: without it
`AvailableAlwaysIntact` and the refinement fail, which is finding 1. It is how
the library's README uses the reader (`README.md:100-115`: parse as soon as
`available()`). The class comment allows more: a message is also cleared when
"loop() is called and the start of a new message is available"
(`reader3.h:473-476`), and that part of it `P1FixedReader` does not keep.

`IInv` is the accumulator's `FrameInv`, the three invariants, the pin (HIGH
exactly while the reader is enabled) and `pc = "loop" => ~available`, the step
that the hypothesis buys. The accumulator is an instance inside the reader, and
again an instance, `accProofs`, of the proof module, so that its lemmas can be
cited; the first section of the module shows that the two instances have the same
types, the same frames and the same steps. The refinement is one lemma per
action: a step of the reader is a step of `TelegramMailbox` or leaves its slot
and its request alone.

### P1Reader

`P1ReaderProofs`. Whatever the application does and however small the heap:
`TypeCorrect`, `CrcModeAlwaysMajority` and `NothingEverLostSilently`. Under
`"enable" \notin MidTelegram`: `BufferAlwaysFollowsState`. Under
`MidTelegram = {}` (no `enable`, `clearAll`, `doChecksum` or `ChangeStream` in
the middle of a telegram) and `MaxBody <= HeapLimit` (a body fits the heap):
`InductiveInvariant`, `AvailableAlwaysIntact` and `ReaderIsMailbox`. Both are
needed: findings 2 and 3 are what happens without the first, and without the
second a failed `String::concat` leaves a body with holes (section 6). The first
is an application that leaves the reader alone while it receives, as the loop of
the README does; `parse_to_json` is not one, and `read` only as long as its
minute does not end inside a telegram.

`IInv` has four parts. `FrameInv`: buffer and CRC follow the wire, and buffer,
state and flag stay together. `RoomInv`: bytes that are queued in front of a '!'
still have room in a body of `MaxBody`, so that `concat` does not fail. That is
a relation between the queue and the buffer, kept by `Arrive` and by each
byte read. `RequestInv`: the pin is LOW exactly while the reader is disabled.
`VotesInv` is the accumulator's, over the reader's own tracker.

### Accumulator and P1Parser::parse

`P1ParserAgreementProofs` proves for every line, however long,
`ReaderAlwaysHoldsWhatParserAccepts` and `AlwaysSameReason` without a
hypothesis. `ParserAcceptsOnlyHeldOrOverflow` is the other direction: what
`parse()` accepts of a whole line with a suffix of digits, the accumulator has
accepted with the same body, unless its buffer overflowed.
`ParserAlwaysAcceptsWhatReaderHeld` is the run's own invariant, under
`MaxText <= capacity`: the text parser has no buffer, so a line that does not fit
the reader's is where the two differ by design.

The argument. While the accumulator is undecided, the text is exactly its
`framed \o suffix`, and the mode is DETECTING (`UndecidedInv`), so that the
CRC is computed and its absence allowed. The byte that decides leaves a fact about the
text alone (`DecidedInv`): a whole frame the text begins with, or a marker
followed by too few digits and then something that is no digit (`ShortSuffix`),
or by `CRC_LEN` digits of another value (`WrongSuffix`), or more bytes than the
buffer has. Those facts stay true as the rest of the line arrives
(`GrownDecision`). On the other side, `DataEndIs` and `SuffixIs` show that the
scans of `parse()` find that marker and the first end of line, and
`ShortIsMalformed`, `WrongIsRejected` and `FrameIsParsed` what it then says. The
instance of `CrcParser` inside `P1Parser` is shown to be the accumulator's
(`SameParse`).

The other way round, `CompleteRawAlwaysParses`: what `CompleteRaw()` hands out is
accepted by `parse()` with the body that was heard, for the library's CRC of
sixteen bits in four digits; `CompleteRawParsesIfPrintable` asks only that the
digits have room for the CRC. It rests on `PrintedCrcParses`, that `strtoul` reads
back the number whose digits were printed. Both directions are recursions over
the digits, as long as CRC_LEN says, and the library's induction theorems are out
of reach (below). `TextLemmas` goes around them for what is needed: a set of
numbers that is not empty has a least element (`LeastOf`), so a claim
about every k that is wrong is wrong at a least k, and the step below it is right
(`FoldExists`, `ShiftedIs`, `HexNumberIs`).

### parse_data

`P1DataParserProofs`, for every text of every length and no further hypothesis:
`TypeCorrect`, `LinesAlwaysForward`, `EveryLineAlwaysOnce`,
`AlwaysPresentIfAccepted`, `ErrorsAlwaysCounted` and `InductiveInvariant`.

The condition `*line_end == '\r' || *line_end == '\n' && line_start <= line_end`
(`parser3.h:463`) reads as if a carriage return behind the pointer could end a
line that begins after it. `PointersInv` is why it does not: `line_end` is never
beyond `line_start`, and between the two there is no carriage return, since a
value that was read ahead ends at the first one. `ProgressInv` says what has been
done in front of `line_start`: every line there is handled, or is the
read-ahead line the pointer stands in, whose beginning is the value of the line
before it; and every accepted line of two parts has its value there. With
`NoValueTwice` (no value is taken by two lines) and `InOrder` that gives
`EveryLineOnce`. The flags and the counts are invariants over the lines handled
so far, each line changing them once (`TakenSets`, `OneMoreCounted`).

### The link

`P1ReaderProofs`, its second part: reader, sketch, meter and line together, for every sequence of
bodies, every noise, number of disturbances, CRC and size of the queue.
`ReaderInPlace` says that the reader in its place is a `P1Reader`, so that what
is proved above of every application and every byte holds of the sketches.

Bound of the `String`. `BufferAlwaysBounded` is for `LeftAlone`: the sketch
is `poll`, or no `enable()` falls into a telegram. The code has no limit of its
own (`reader3.h:673-683`): what ends a body is the '!'. So `RunInv` is a
statement about the bytes between two '!': of any stretch of the queue without one,
together with what is stored if the stretch follows on the buffer, it says that it is
not longer than one telegram for each disturbance and one more, and that the
stretch at the end of the queue is not longer than what has been sent since the
last '!' came through (`Trail`). A lost or changed '!' makes two stretches one and
has paid for it, as it is a disturbance; a burst that takes several '!' takes
the bytes between them as well. The call of `enable()` matters because it clears
nothing that was not announced: the first part of the telegram would stay in the
buffer and the next one would be added to it (`BufferFollowsStateInPlace`).

What is announced. `AnnouncedAsSent` and `NoneMissed` are about `poll` on a line
that has not been disturbed (`faults = 0`): available() announces only what the
meter sent, no telegram is refused (`crc_errors = 0`), and each is announced
before the next one has ended, however the bytes fall between the calls of
`loop()`. In `UndisturbedInv` every byte in the queue has its place in a telegram
of the meter, each behind the one before (`Places`, `Holds`); what the reader
has stored is the part of that telegram in front of its next byte (`Heard`), its
CRC and its votes are those of the meter (`Agreed`); and the last digit of a
telegram that was sent and not announced is still queued (`InTime`).

The hypotheses, in P1Link beside the properties: `RoomForBodies`, the heap has
room for every body, without which a failed `concat` leaves holes in it; for
`NoneMissed` also `SameCrc`, that the meter's CRC is the reader's and has
`CRC_LEN` digits, and `SmallQueue`, that the stream queues no more than a telegram:
with a longer one the sketch may be two telegrams behind without a byte lost.
The run `link` evaluates the three on its instance (`TheoremsApply`), with the
bit loop of `crc16.h` as the reader's CRC and the polynomial division as the
meter's.

### The value of a line

`FieldReadingProofs`: what a field may be set by, for every list of fields and every
message. A list is one that C++ compiles: no field twice, each of one of the
templates of `fields3.h` (`FieldsAssumption`, which TLC evaluates for the
catalogue).

`AlwaysSetByWholeLines`: a field that is present keeps what it holds, whatever
lines follow; and a field becomes present only by a line of which all that is
behind the id was read, a group in parentheses or, for a timestamp and a value, two,
one right behind the other. Only raw fields, which take any text, and the value
on a second line, whose rest nobody looks at (section 6), are not promised that.
`AcceptedAlwaysWhole` is `AcceptedIsWhole` of the run `field_line`, about what
the meter wrote and not about where the parser saw the id end. It asks that the
reading is written on one line and that its value does not begin with a
character of an id (`IsOneLine`): a value that lost its parenthesis, as in
`1-0:1.8.1123*kWh)`, goes on the number of the id. MCFieldReading has TLC
evaluate that every reading that is neither damaged nor on two lines is such a one.

The argument follows the parsers from the inside out. Each returns a position
behind a ")" with a "(" at the beginning and no ")" between (`StringIs`,
`NumberIs`, `TimestampIs`), for NumParser because its three scans stop at the
first ")" or before it (`IntEndIs`, `DecimalsEndIs`, `NumEndIs`); two in a row
read two groups, in either order (`TimestampedFixedIs`). The parser of the id
is a fold over the line: `IdStates` unfolds it into the states of the C loop, and
`ObisIdIs` shows that what is in front of the position it returns are
characters of an id. `DispatchIs` is the rest: a refused value, a duplicate, a
sentinel and trailing characters each leave the flag off (`Mark`,
`ClearPresent`), and a value that passed `CheckWhole` ends where the line does,
so that the groups are the whole of it.

### What stays with TLC

* Liveness and fairness: `Resynchronises`, `LoopReturns`.
* `AnnouncedIsSent` and `MissedIsBounded` after a disturbance: what a CRC detects
  is arithmetic on concrete words. `AnnouncedIsSent`, `MissedIsBounded` and
  `BufferIsBounded` for `read`, which may call `enable()` in the middle of a
  telegram and does not in the run because the minute is long enough.
* What FieldReading says of a value and of an id, as against where they end:
  `RightField`, `ValueIsExact`, `MilliIsThousandth`, `InstantIsKept`, `EitherOrder`
  and `FirstReadingCounts` compare the result of the folds over digits with a
  reference that is a fold as well.

TLC checks each `IInv` too (runs `accumulator`, `fixed_reader`, `reader`,
`data_parser`; not that of FieldReadingProofs, whose properties it does), on the same configurations as the properties it carries.

## 5. Assumptions of the models

* A byte that arrives at a full queue is lost; the model does not let it arrive,
  which is the same as a wire without it.
* `CrcOf` is a function of the bytes. That the CRC detects errors is not
  claimed: a body with a matching CRC counts as verified.
* Methods that only report (`raw`, `rawLength`, `GetCRC`, `diagnostics`,
  `CompleteRaw`) have no action; what they report is in the state.
* `ChangeStream` switches to a stream with an empty queue.
* The string end of a C text never belongs to a number: `strchr("*.)", c)` also
  finds a NUL, which no telegram text contains.
* P1Link: a disturbance hits bytes, not the request pin; the meter finishes the
  telegram it has begun when the pin falls.
* FieldReading: a meter ends its lines with CR LF, the line of a two line field
  included; its second line is taken to the end of the text where it is missing.
* P1DataParser: the character behind a body is '!' or NUL, so that a two line
  field at the very end finds no value there.

## 6. Where code and documentation disagree

Each is a run that TLC ends with a counterexample; `PROJECT.json` quotes the
lines.

1. `fixed_reader_unconsumed`: `P1FixedReader` stays available while the next
   telegram overwrites the announced one.
2. `parse_to_json`: the sketch calls `enable(true)` after every `loop()`. In the
   middle of a telegram that makes `P1Reader` announce its first part joined with
   the next telegram, whose CRC matches.
3. `reader_mid_telegram`: `clearAll()`, `doChecksum()`, `ChangeStream()` in the
   middle of a telegram make it announce what came after the call, a tail or
   nothing.
4. `switched_order`: a value in front of its timestamp is taken for the timestamp
   when it has twelve or thirteen characters, as `00473.789*m3` of the source's
   own example has.
5. `parser_non_hex`: `P1Parser::parse` accepts "0x1F" as four hexadecimal digits.

Also seen in the code and in the models, without a run of their own:

* a failed `String::concat` is ignored (`reader3.h:681`): with `HeapLimit` below
  `MaxBody`, P1Reader announces a body with holes under a matching CRC;
* the second line of a two line field that was not requested counts as a skipped
  field (`parser3.h:495`), although DESIGN.md says that unrequested fields are
  ignored: in P1DataParser, `ErrorsAreCounted` pins it down;
* "1.5*mA" is stored as 15 (`parser3.h:269`): the milli-unit cancels the missing
  zeros, not the decimals that were read;
* `P1Reader::loop()` returns true after a CRC error (`reader3.h:651`) and false
  while a telegram waits and no byte does (`reader3.h:657`), so that it is not
  "just like available" (`reader3.h:594-596`). `P1FixedReader::loop()` is;
* once the mode is PRESENT, a line ending behind the '!' is refused, which the
  tests expect (`v3_reader.cpp:132-134`) and the table of DESIGN.md does not say;
* characters behind the value on the second line of a two line field do not take
  the field back: `parse_line` returns before the check for trailing characters
  (`parser3.h:503`);
* "()" is the integer 0 in every integer field (`parser3.h:209`), which
  `fields3.h:193-195` denies;
* `parse()` of both readers always returns true and never sets `err`, since
  `parse_data` reports malformed lines by number only (`reader3.h:714`,
  `parser3.h:484`).

## 7. Not modelled, and the plan

Modelled: the accumulator, both readers, the link with the sketches, framing,
lines, ids, values and the catalogue; proved: section 4. In this order next:

1. Proofs: that the vote is closed under any number of rejected telegrams, for
   `P1Reader` in the words of `MinorityKindIsRefused`; `EitherOrder`, once what a
   string and a number return is known beyond where they end; the first group of
   a value on two lines.
2. FieldLine as a refinement of P1DataParser: the lexemes as what the character
   model finds on a line, so that the pointers and the values are in one run.
3. P1FixedReader at the end of the same line as P1Reader, and the CRC vote under
   more than one disturbance (how likely a mode is fixed wrongly is not a
   question for these models).
4. Which position an error names (`fullError`, `captureFieldWarning`): so far
   only `first_field_line` of P1DataParser.

Left out for good: the wording of error texts and of the warning line, the
printed units (`int_unit`) and the `Printer` visitors (formatting), `parse.ino`
(a compiled-in text handed to `P1Parser::parse`), what the sketches print or
display, benchmarks, tests, tools and build files.
