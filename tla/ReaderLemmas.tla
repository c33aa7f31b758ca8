----------------------------- MODULE ReaderLemmas ---------------------------
(***************************************************************************)
(* Lemmas about the operators both readers are built from: the diagnostics *)
(* tracker, CrcParser::parse, and the bytes of a framed telegram.          *)
(***************************************************************************)
EXTENDS P1DiagnosticsTracker, CrcParser, TextLemmas

(***************************************************************************)
(* The tracker's values                                                    *)
(***************************************************************************)
\* The reset tracker is a tracker (P1DiagnosticsTracker::reset).
LEMMA TrackerReset == ResetTracker \in Tracker
BY CounterRangeAssumption DEF ResetTracker, Tracker, P1CrcMode, VotesToLock

\* A tracker stays a tracker: its counters wrap inside their width.
LEMMA TrackerCounters ==
  ASSUME NEW t \in Tracker, NEW n \in Nat
  PROVE  /\ CountCrcError(t) \in Tracker
         /\ AddSkipped(t, n) \in Tracker
<1>1. /\ (t.crc_errors + 1) % CounterRange \in 0 .. CounterRange - 1
      /\ (t.skipped_fields + n) % CounterRange \in 0 .. CounterRange - 1
  BY CounterRangeAssumption DEF Tracker
<1>2. QED
  BY <1>1 DEF CountCrcError, AddSkipped, Tracker

\* A vote closes the detection before the votes leave their range.
LEMMA TrackerVotes ==
  ASSUME NEW t \in Tracker, NEW present \in BOOLEAN
  PROVE  ObserveCrc(t, present) \in Tracker
<1> DEFINE voted == CastVote(t, present)
           votes == voted.crc_present_votes + voted.crc_absent_votes
<1>1. voted \in [crc_mode : P1CrcMode,
                 crc_errors : 0 .. CounterRange - 1,
                 skipped_fields : 0 .. CounterRange - 1,
                 crc_present_votes : 0 .. VotesToLock,
                 crc_absent_votes : 0 .. VotesToLock]
  BY DEF CastVote, Tracker, VotesToLock
<1>2. LockMode(voted) \in Tracker
  <2> HIDE DEF voted
  <2>1. ModeOfVotes(voted.crc_present_votes) \in P1CrcMode
    BY DEF ModeOfVotes, P1CrcMode
  <2>2. QED
    BY <1>1, <2>1 DEF LockMode, Tracker, VotesToLock
<1>3. ASSUME ~(votes >= VotesToLock) PROVE voted \in Tracker
  <2> HIDE DEF voted
  <2>1. votes < VotesToLock /\ voted.crc_present_votes \in Nat /\ voted.crc_absent_votes \in Nat
    BY <1>1, <1>3 DEF VotesToLock
  <2>2. QED
    BY <1>1, <2>1 DEF Tracker, VotesToLock
<1>4. QED
  BY <1>2, <1>3 DEF ObserveCrc

\* A counted error is visible: the counter wraps, but never onto itself
\* (P1DiagnosticsTracker::recordCrcError).
LEMMA CountShows ==
  ASSUME NEW t \in Tracker
  PROVE  CountCrcError(t).crc_errors # t.crc_errors
<1>1. t.crc_errors \in 0 .. CounterRange - 1 /\ CounterRange \in Nat \ {0, 1}
  BY CounterRangeAssumption DEF Tracker
<1>2. CountCrcError(t).crc_errors = (t.crc_errors + 1) % CounterRange
  BY DEF CountCrcError, Tracker
<1>3. CASE t.crc_errors + 1 < CounterRange
  <2>1. (t.crc_errors + 1) % CounterRange = t.crc_errors + 1
    BY <1>1, <1>3
  <2>2. QED
    BY <1>1, <1>2, <2>1
<1>4. CASE t.crc_errors + 1 = CounterRange
  <2>1. CounterRange % CounterRange = 0
    BY <1>1
  <2>2. QED
    BY <1>1, <1>2, <1>4, <2>1
<1>5. QED
  BY <1>1, <1>3, <1>4

\* A vote leaves the error counter alone.
LEMMA VoteKeepsErrors ==
  ASSUME NEW t \in Tracker, NEW p \in BOOLEAN
  PROVE  ObserveCrc(t, p).crc_errors = t.crc_errors
BY DEF ObserveCrc, CastVote, LockMode, Tracker

(***************************************************************************)
(* The votes                                                               *)
(***************************************************************************)
\* A reset of the diagnostics opens a new detection.
LEMMA NoVotes == VotesCounted(ResetTracker, <<>>)
BY DEF ResetTracker, VotesCounted, MajorityMode, VotesToLock

\* Counting an error or skipped fields does not touch the votes.
LEMMA CountersKeepVotes ==
  ASSUME NEW t \in Tracker, NEW votes, NEW n, VotesCounted(t, votes)
  PROVE  /\ VotesCounted(CountCrcError(t), votes)
         /\ VotesCounted(AddSkipped(t, n), votes)
BY DEF CountCrcError, AddSkipped, VotesCounted, Tracker

\* At most three telegrams vote.
LEMMA UpToThree ==
  \A n \in Nat : n <= VotesToLock =>
    n \in 0 .. 3 /\ (n = 3 \/ n < 3) /\ (n < 3 => n < 2 \/ n = 2)
  BY DEF VotesToLock

\* The vote of an accepted telegram is counted, and a third one decides by
\* majority (P1DiagnosticsTracker::observeCrc).
LEMMA VoteCounts ==
  ASSUME NEW t \in Tracker, NEW votes \in Seq(BOOLEAN), NEW p \in BOOLEAN,
         VotesCounted(t, votes)
  PROVE  VotesCounted(ObserveCrc(t, p), WithVote(votes, p))
<1> DEFINE Cast(i, present) ==
             IF i \in DOMAIN votes /\ votes[i] = present THEN 1 ELSE 0
           u == ObserveCrc(t, p)
           after == WithVote(votes, p)
<1> SUFFICES VotesCounted(u, after)
  OBVIOUS
<1>0. /\ Len(votes) <= VotesToLock
      /\ Len(votes) < VotesToLock =>
           /\ t.crc_present_votes = Cast(1, TRUE) + Cast(2, TRUE)
           /\ t.crc_absent_votes = Cast(1, FALSE) + Cast(2, FALSE)
      /\ t.crc_mode = MajorityMode(votes)
  BY DEF VotesCounted
<1>1. /\ Len(votes) \in 0 .. 3 /\ (Len(votes) = 3 \/ Len(votes) < 3)
      /\ Len(votes) < 3 => Len(votes) < 2 \/ Len(votes) = 2
  <2>1. Len(votes) \in Nat
    BY LenProperties, Zenon
  <2>2. QED
    BY <1>0, <2>1, UpToThree, Zenon
<1>2. CASE Len(votes) = 3
  <2>1. u = t /\ after = votes
    BY <1>0, <1>2 DEF ObserveCrc, WithVote, MajorityMode, VotesToLock
  <2>2. QED
    BY <2>1
<1>3. CASE Len(votes) < 3
  <2> DEFINE voted == CastVote(t, p)
  <2>1. t.crc_mode = "DETECTING"
    BY <1>0, <1>1, <1>3 DEF MajorityMode, VotesToLock
  <2>2. /\ t.crc_present_votes = Cast(1, TRUE) + Cast(2, TRUE)
        /\ t.crc_absent_votes = Cast(1, FALSE) + Cast(2, FALSE)
    BY <1>0, <1>3, Zenon DEF VotesToLock
  <2>3. after = Append(votes, p)
    BY <1>3 DEF WithVote, VotesToLock
  <2>4. /\ voted.crc_mode = "DETECTING"
        /\ voted.crc_present_votes = t.crc_present_votes + (IF p THEN 1 ELSE 0)
        /\ voted.crc_absent_votes = t.crc_absent_votes + (IF p THEN 0 ELSE 1)
    BY <1>1, <2>1 DEF CastVote, Tracker
  <2>5. /\ Len(after) = Len(votes) + 1 /\ DOMAIN after = 1 .. Len(votes) + 1
        /\ \A i \in 1 .. Len(votes) : after[i] = votes[i]
        /\ after[Len(votes) + 1] = p
        /\ DOMAIN votes = 1 .. Len(votes)
    BY <1>1, <2>3
  <2>6. CASE Len(votes) < 2
    <3>1. u = voted
      BY <1>1, <2>1, <2>2, <2>4, <2>5, <2>6 DEF ObserveCrc, VotesToLock
    <3> HIDE DEF voted, u, after
    <3>2. QED
      BY <1>1, <2>2, <2>4, <2>5, <2>6, <3>1 DEF VotesCounted, MajorityMode, VotesToLock
  <2>7. CASE Len(votes) = 2
    <3>1. u = LockMode(voted)
      BY <1>1, <2>1, <2>2, <2>4, <2>5, <2>7 DEF ObserveCrc, VotesToLock
    <3>2. u.crc_mode = ModeOfVotes(voted.crc_present_votes)
      BY <3>1 DEF LockMode
    <3> HIDE DEF voted, u, after
    <3>3. QED
      BY <1>1, <2>2, <2>4, <2>5, <2>7, <3>2
         DEF VotesCounted, MajorityMode, MostHadCrc, ModeOfVotes, VotesToLock
  <2>8. Len(votes) < 2 \/ Len(votes) = 2
    BY <1>1, <1>3, Zenon
  <2>9. QED
    BY <2>6, <2>7, <2>8, Zenon
<1>4. QED
  BY <1>1, <1>2, <1>3, Zenon

(***************************************************************************)
(* CrcParser                                                               *)
(***************************************************************************)
\* Hexadecimal digits are no white space, sign or prefix to strtoul, so that
\* it takes all of them for digits.
LEMMA HexDigitsAreDigits ==
  ASSUME NEW s \in Seq(HexDigit), s # <<>>
  PROVE  Digits(s) = s /\ ~IsNegative(s)
<1>1. /\ Len(s) \in Nat \ {0}
      /\ \A i \in 1 .. Len(s) : s[i] \in HexDigit
      /\ Head(s) = s[1]
  BY EmptySeq, ElementOfSeq
<1>2. \A d \in HexDigit : d \notin Space \cup {"+", "-", "x", "X"}
  BY DEF HexDigit, Space
<1>3. AfterSpace(s) = s
  <2> DEFINE P(k) == /\ \A i \in 1 .. k : s[i] \in Space
                     /\ k < Len(s) => s[k + 1] \notin Space
  <2>1. P(0) /\ 0 \in 0 .. Len(s)
    BY <1>1, <1>2
  <2>2. \A k \in 0 .. Len(s) : P(k) => k = 0
    BY <1>1, <1>2
  <2>3. LeadingSpaces(s) = 0
    <3>1. LeadingSpaces(s) = CHOOSE k \in 0 .. Len(s) : P(k)
      BY DEF LeadingSpaces
    <3> HIDE DEF P
    <3>2. QED
      BY <2>1, <2>2, <3>1
  <2>4. SubSeq(s, 1, Len(s)) = s
    BY SubSeqFull
  <2>5. QED
    BY <2>3, <2>4 DEF AfterSpace
<1>4. AfterSign(s) = s
  BY <1>1, <1>2 DEF AfterSign, IsSigned
<1>5. AfterPrefix(s) = s
  BY <1>1, <1>2 DEF AfterPrefix, HasPrefix
<1>6. Digits(s) = s
  BY <1>3, <1>4, <1>5 DEF Digits
<1>7. QED
  BY <1>1, <1>2, <1>3, <1>6 DEF IsNegative

\* So CrcParser::parse reads them all: the error branch that process() keeps
\* for it cannot be taken ...
LEMMA HexDigitsParse ==
  ASSUME NEW s \in Seq(HexDigit), s # <<>>
  PROVE  ParseCrc(s).ok
<1>1. Digits(s) = s
  BY HexDigitsAreDigits
<1>2. \A i \in 1 .. Len(s) : isxdigit(s[i])
  BY DEF isxdigit
<1>3. QED
  BY <1>1, <1>2 DEF ParseCrc

\* ... and the result is their value (CrcParser::parse).
LEMMA HexDigitsValue ==
  ASSUME NEW s \in Seq(HexDigit), s # <<>>
  PROVE  ParseCrc(s).value = HexNumber(s) % 65536
<1>1. Digits(s) = s /\ ~IsNegative(s)
  BY HexDigitsAreDigits
<1>2. \A i \in 1 .. Len(s) : isxdigit(s[i])
  BY DEF isxdigit
<1>3. QED
  BY <1>1, <1>2 DEF ParseCrc

\* The sixteen digits that are printed have the sixteen values.
LEMMA UpperHexValues ==
  \A i \in 0 .. 15 : /\ UpperHex[i + 1] \in HexDigit
                      /\ HexValue(UpperHex[i + 1]) = i
<1> SUFFICES ASSUME NEW i \in 0 .. 15
             PROVE  UpperHex[i + 1] \in HexDigit /\ HexValue(UpperHex[i + 1]) = i
  OBVIOUS
<1>1. /\ i + 1 \in 1 .. 16
      /\ i + 1 \in {1, 2, 3, 4, 5, 6, 7, 8, 9, 10, 11, 12, 13, 14, 15, 16}
  OBVIOUS
<1>2. \A j \in 1 .. 16 : UpperHex[i + 1] \in {UpperHex[j], LowerHex[j]} <=> j = i + 1
  BY <1>1 DEF UpperHex, LowerHex
<1>3. (CHOOSE j \in 1 .. 16 : UpperHex[i + 1] \in {UpperHex[j], LowerHex[j]}) = i + 1
  BY <1>1, <1>2
<1>4. HexValue(UpperHex[i + 1]) = (i + 1) - 1
  BY <1>3, Zenon DEF HexValue
<1>5. QED
  BY <1>1, <1>4 DEF UpperHex, HexDigit

\* ... and no other digit is printed.
LEMMA PrintedValues ==
  \A c \in ToSet(UpperHex) : c \in HexDigit /\ HexValue(c) \in 0 .. 15
<1> SUFFICES ASSUME NEW j \in DOMAIN UpperHex
             PROVE  UpperHex[j] \in HexDigit /\ HexValue(UpperHex[j]) \in 0 .. 15
  BY DEF ToSet
<1>1. DOMAIN UpperHex = 1 .. 16
  BY DEF UpperHex
<1>2. j - 1 \in 0 .. 15 /\ (j - 1) + 1 = j
  BY <1>1
<1>3. QED
  BY <1>2, UpperHexValues

\* What is left behind the last k digits, digit by digit.
LEMMA ShiftedIs ==
  ASSUME NEW v \in Nat
  PROVE  /\ Shifted(v) \in [0 .. CRC_LEN -> Nat] /\ Shifted(v)[0] = v
         /\ \A k \in 1 .. CRC_LEN : Shifted(v)[k] = Shifted(v)[k - 1] \div 16
<1> DEFINE step == [k \in 1 .. CRC_LEN |-> [x \in Nat |-> x \div 16]]
<1>0. CRC_LEN \in Nat
  BY CrcLenAssumption
<1>1. \A k \in 1 .. CRC_LEN : \A x \in Nat : step[k][x] = x \div 16
  OBVIOUS
<1>11. step \in [1 .. CRC_LEN -> [Nat -> Nat]]
  OBVIOUS
<1> HIDE DEF step
<1>20. PICK f : Unfolds(f, Nat, v, CRC_LEN, step)
  BY <1>0, <1>11, RecursionExists
<1>2. f \in [0 .. CRC_LEN -> Nat] /\ f[0] = v /\ \A k \in 1 .. CRC_LEN : f[k] = step[k][f[k - 1]]
  BY <1>20 DEF Unfolds
<1>3. ASSUME NEW k \in 1 .. CRC_LEN PROVE f[k - 1] \in Nat /\ f[k] = f[k - 1] \div 16
  <2>1. k - 1 \in 0 .. CRC_LEN
    BY CrcLenAssumption
  <2>2. QED
    BY <1>1, <1>2, <2>1
<1>31. f = [k \in 0 .. CRC_LEN |-> IF k = 0 THEN v ELSE f[k - 1] \div 16]
  BY <1>2, <1>3, CrcLenAssumption
<1>4. Shifted(v) = [k \in 0 .. CRC_LEN |-> IF k = 0 THEN v ELSE Shifted(v)[k - 1] \div 16]
  BY <1>31 DEF Shifted
<1> DEFINE S == {k \in 0 .. CRC_LEN : Shifted(v)[k] \in Nat}
<1>5. Shifted(v)[0] = v /\ \A k \in 1 .. CRC_LEN : Shifted(v)[k] = Shifted(v)[k - 1] \div 16
  BY <1>4, CrcLenAssumption
<1>6. 0 .. CRC_LEN \subseteq S
  <2>1. 0 \in S
    BY <1>5, CrcLenAssumption
  <2>2. ASSUME NEW m \in 0 .. CRC_LEN - 1, m \in S PROVE m + 1 \in S
    <3>1. Shifted(v)[m + 1] = Shifted(v)[m] \div 16
      BY <1>5, CrcLenAssumption
    <3>2. QED
      BY <2>2, <3>1, CrcLenAssumption
  <2> HIDE DEF S
  <2>3. QED
    BY <1>0, <2>1, <2>2, UpTo
<1>7. QED
  BY <1>4, <1>5, <1>6, CrcLenAssumption

\* CRC_LEN digits are printed, each for its part of the value
\* (CompleteRaw of both readers, snprintf).
LEMMA UpperDigitsAre ==
  ASSUME NEW v \in Nat
  PROVE  /\ UpperDigits(v) \in Seq(ToSet(UpperHex)) /\ Len(UpperDigits(v)) = CRC_LEN
         /\ \A i \in 1 .. CRC_LEN : HexValue(UpperDigits(v)[i]) = Shifted(v)[CRC_LEN - i] % 16
<1>1. ASSUME NEW i \in 1 .. CRC_LEN
      PROVE  Shifted(v)[CRC_LEN - i] % 16 \in 0 .. 15
  <2>1. CRC_LEN - i \in 0 .. CRC_LEN
    BY CrcLenAssumption
  <2>2. Shifted(v)[CRC_LEN - i] \in Nat
    BY <2>1, ShiftedIs
  <2>3. QED
    BY <2>2
<1>2. \A k \in 0 .. 15 : UpperHex[k + 1] \in ToSet(UpperHex)
  <2>1. DOMAIN UpperHex = 1 .. 16
    BY DEF UpperHex
  <2>2. QED
    BY <2>1 DEF ToSet
<1>3. QED
  BY <1>1, <1>2, UpperHexValues, CrcLenAssumption DEF UpperDigits

\* The value of printed digits, from the first to the last (CrcParser::parse).
LEMMA HexNumberIs ==
  ASSUME NEW s \in Seq(ToSet(UpperHex))
  PROVE  \E f \in [0 .. Len(s) -> Nat] :
           /\ f[0] = 0 /\ \A k \in 1 .. Len(s) : f[k] = 16 * f[k - 1] + HexValue(s[k])
           /\ HexNumber(s) = f[Len(s)]
<1> DEFINE step == [d \in ToSet(UpperHex) |-> [x \in Nat |-> 16 * x + HexValue(d)]]
           It(it) == it = [S \in SUBSET (DOMAIN s) |->
                             IF S = {} THEN 0 ELSE 16 * it[S \ {Max(S)}] + HexValue(s[Max(S)])]
<1>0. \A d \in ToSet(UpperHex) : HexValue(d) \in Nat
  BY PrintedValues
<1>1. /\ step \in [ToSet(UpperHex) -> [Nat -> Nat]]
      /\ \A d \in ToSet(UpperHex), x \in Nat : step[d][x] = 16 * x + HexValue(d)
  BY <1>0
<1> HIDE DEF step
<1>2. PICK it : Folds(it, 0, s, step) /\ it \in [SUBSET (DOMAIN s) -> Nat]
  BY <1>1, FoldExists
<1>3. It(it)
  <2>1. ASSUME NEW S \in SUBSET (DOMAIN s), S # {}
        PROVE  step[s[Max(S)]][it[S \ {Max(S)}]] = 16 * it[S \ {Max(S)}] + HexValue(s[Max(S)])
    <3>1. Max(S) \in S
      <4>1. S \in SUBSET (1 .. Len(s)) /\ Len(s) \in Nat
        OBVIOUS
      <4>2. QED
        BY <2>1, <4>1, LastWithin
    <3>2. s[Max(S)] \in ToSet(UpperHex) /\ it[S \ {Max(S)}] \in Nat
      BY <1>2, <3>1
    <3>3. QED
      BY <1>1, <3>2
  <2>2. QED
    BY <1>2, <2>1 DEF Folds
<1> DEFINE ch == CHOOSE g : It(g)
<1>4. It(ch)
  BY <1>3
<1>5. HexNumber(s) = ch[DOMAIN s]
  BY DEF HexNumber, FoldLeft, MapThenFoldSet
<1> DEFINE f == [k \in 0 .. Len(s) |-> ch[1 .. k]]
<1> HIDE DEF ch
<1>6. f[0] = 0 /\ HexNumber(s) = f[Len(s)]
  <2>1. {} \in SUBSET (DOMAIN s) /\ 1 .. 0 = {} /\ DOMAIN s = 1 .. Len(s) /\ Len(s) \in Nat
    OBVIOUS
  <2>2. ch[{}] = 0
    BY <1>4, <2>1
  <2>3. QED
    BY <1>5, <2>1, <2>2
<1>7. ASSUME NEW k \in 1 .. Len(s) PROVE f[k] = 16 * f[k - 1] + HexValue(s[k])
  <2>0. DOMAIN s = 1 .. Len(s) /\ Len(s) \in Nat
    OBVIOUS
  <2> HIDE DEF f
  <2>a. k \in Nat \ {0} /\ k <= Len(s)
    BY <2>0
  <2>b. 1 .. k \subseteq 1 .. Len(s) /\ 1 \in 1 .. k
    BY <2>0, <2>a
  <2>1. 1 .. k \in SUBSET (DOMAIN s) /\ 1 .. k # {} /\ k \in Nat \ {0}
    BY <2>0, <2>a, <2>b
  <2>2. ch[1 .. k] = 16 * ch[(1 .. k) \ {Max(1 .. k)}] + HexValue(s[Max(1 .. k)])
    BY <1>4, <2>1
  <2>3. ch[1 .. k] = 16 * ch[1 .. k - 1] + HexValue(s[k])
    BY <2>1, <2>2, LastOf
  <2>4. f[k] = ch[1 .. k] /\ f[k - 1] = ch[1 .. k - 1]
    BY <2>0 DEF f
  <2>5. QED
    BY <2>3, <2>4
<1>8. f \in [0 .. Len(s) -> Nat]
  <2> DEFINE S == {k \in 0 .. Len(s) : f[k] \in Nat}
  <2>1. 0 \in S
    BY <1>6
  <2>2. ASSUME NEW m \in 0 .. Len(s) - 1, m \in S PROVE m + 1 \in S
    <3>0. m + 1 \in 1 .. Len(s) /\ (m + 1) - 1 = m /\ m + 1 \in 0 .. Len(s)
      OBVIOUS
    <3>3. f[m] \in Nat
      BY <2>2
    <3>4. HexValue(s[m + 1]) \in Nat
      BY <1>0, <3>0
    <3> HIDE DEF f
    <3>1. f[m + 1] = 16 * f[m] + HexValue(s[m + 1])
      BY <1>7, <3>0
    <3>2. QED
      BY <3>0, <3>1, <3>3, <3>4
  <2>3. 0 .. Len(s) \subseteq S
    <3> HIDE DEF S
    <3>1. \A m \in 0 .. Len(s) - 1 : m \in S => m + 1 \in S
      BY <2>2
    <3>2. Len(s) \in Nat
      OBVIOUS
    <3>3. QED
      BY <2>1, <3>1, <3>2, UpTo
  <2>4. QED
    BY <2>3
<1>9. QED
  <2> HIDE DEF f
  <2>1. QED
    BY <1>6, <1>7, <1>8

\* What is printed in CRC_LEN digits, and has no more, is read back
\* (CompleteRaw of both readers and CrcParser::parse).
LEMMA PrintedIsRead ==
  ASSUME NEW v \in Nat, Shifted(v)[CRC_LEN] = 0
  PROVE  HexNumber(UpperDigits(v)) = v
<1> DEFINE s == UpperDigits(v)
<1>1. /\ s \in Seq(ToSet(UpperHex)) /\ Len(s) = CRC_LEN
      /\ \A i \in 1 .. CRC_LEN : HexValue(s[i]) = Shifted(v)[CRC_LEN - i] % 16
  BY UpperDigitsAre
<1> HIDE DEF s
<1>2. PICK f \in [0 .. CRC_LEN -> Nat] :
        /\ f[0] = 0 /\ \A k \in 1 .. CRC_LEN : f[k] = 16 * f[k - 1] + HexValue(s[k])
        /\ HexNumber(s) = f[CRC_LEN]
  BY <1>1, HexNumberIs
<1> DEFINE S == {k \in 0 .. CRC_LEN : f[k] = Shifted(v)[CRC_LEN - k]}
<1>3. /\ CRC_LEN \in Nat /\ CRC_LEN - 0 = CRC_LEN /\ CRC_LEN - CRC_LEN = 0
      /\ Shifted(v)[0] = v
  BY CrcLenAssumption, ShiftedIs
<1>4. 0 \in S
  BY <1>2, <1>3
<1>5. ASSUME NEW m \in 0 .. CRC_LEN - 1, m \in S PROVE m + 1 \in S
  <2> DEFINE k == CRC_LEN - m
  <2>1. /\ k \in 1 .. CRC_LEN /\ CRC_LEN - (m + 1) = k - 1 /\ k - 1 \in 0 .. CRC_LEN
        /\ m + 1 \in 1 .. CRC_LEN /\ (m + 1) - 1 = m /\ m + 1 \in 0 .. CRC_LEN
    BY <1>3
  <2> HIDE DEF k
  <2>2. /\ f[m + 1] = 16 * f[m] + HexValue(s[m + 1])
        /\ HexValue(s[m + 1]) = Shifted(v)[k - 1] % 16
    BY <1>1, <1>2, <2>1
  <2>3. Shifted(v)[k] = Shifted(v)[k - 1] \div 16 /\ Shifted(v)[k - 1] \in Nat
    BY <2>1, ShiftedIs
  <2>4. f[m] = Shifted(v)[k]
    BY <1>5 DEF k
  <2>5. f[m + 1] = Shifted(v)[k - 1]
    BY <2>2, <2>3, <2>4
  <2>6. QED
    BY <2>1, <2>5
<1>6. 0 .. CRC_LEN \subseteq S
  <2> HIDE DEF S
  <2>1. \A m \in 0 .. CRC_LEN - 1 : m \in S => m + 1 \in S
    BY <1>5
  <2>2. QED
    BY <1>3, <1>4, <2>1, UpTo
<1>7. CRC_LEN \in S
  BY <1>3, <1>6
<1>8. QED
  BY <1>2, <1>3, <1>7 DEF s

\* CrcParser::parse reads a printed CRC back.
LEMMA PrintedCrcParses ==
  ASSUME NEW v \in Nat, v < 65536, Shifted(v)[CRC_LEN] = 0
  PROVE  /\ FormatCrc(v) \in Seq(ToSet(UpperHex)) /\ Len(FormatCrc(v)) = CRC_LEN
         /\ ParseCrc(FormatCrc(v)).ok /\ ParseCrc(FormatCrc(v)).value = v
<1>1. FormatCrc(v) = UpperDigits(v)
  BY DEF FormatCrc
<1>2. UpperDigits(v) \in Seq(ToSet(UpperHex)) /\ Len(UpperDigits(v)) = CRC_LEN
  BY UpperDigitsAre
<1>3. HexNumber(UpperDigits(v)) = v /\ v % 65536 = v
  BY PrintedIsRead
<1> DEFINE s == UpperDigits(v)
<1>4. s \in Seq(HexDigit) /\ s # <<>>
  BY <1>2, PrintedValues, CrcLenAssumption
<1>5. ParseCrc(s).ok /\ ParseCrc(s).value = HexNumber(s) % 65536
  <2> HIDE DEF s
  <2>1. QED
    BY <1>4, HexDigitsParse, HexDigitsValue
<1>6. QED
  BY <1>1, <1>2, <1>3, <1>5

\* Four digits are enough for a CRC of sixteen bits.
LEMMA FourDigits ==
  ASSUME CRC_LEN = 4, NEW v \in Nat, v < 65536
  PROVE  Shifted(v)[CRC_LEN] = 0
<1> DEFINE left == Shifted(v)
<1>1. left[0] = v /\ \A k \in 1 .. CRC_LEN : left[k] = left[k - 1] \div 16
  BY ShiftedIs
<1> HIDE DEF left
<1>2. /\ left[1] = v \div 16 /\ left[2] = left[1] \div 16
      /\ left[3] = left[2] \div 16 /\ left[4] = left[3] \div 16
  BY <1>1
<1>3. left[1] \in 0 .. 4095
  BY <1>2
<1>4. left[2] \in 0 .. 255
  BY <1>2, <1>3
<1>5. left[3] \in 0 .. 15
  BY <1>2, <1>4
<1>6. QED
  BY <1>2, <1>5 DEF left

(***************************************************************************)
(* The bytes of a framed telegram: a start byte, a body and an end byte    *)
(***************************************************************************)
\* <<h>> is the frame of an empty body.
LEMMA BeginFrames ==
  ASSUME NEW S, NEW h \in S
  PROVE  <<h>> = <<h>> \o <<>>
BY ConcatEmptySeq

\* Storing a byte extends the frame by the same byte.
LEMMA StoreExtendsFrame ==
  ASSUME NEW S, NEW h \in S, NEW b \in Seq(S), NEW c \in S
  PROVE  Append(<<h>> \o b, c) = <<h>> \o Append(b, c)
<1>1. <<h>> \in Seq(S) /\ <<c>> \in Seq(S) /\ <<h>> \o b \in Seq(S)
  BY ConcatProperties
<1>2. Append(<<h>> \o b, c) = (<<h>> \o b) \o <<c>> /\ Append(b, c) = b \o <<c>>
  BY <1>1, AppendIsConcat
<1>3. QED
  BY <1>1, <1>2, ConcatAssociative

\* The end byte closes the frame.
LEMMA EndClosesFrame ==
  ASSUME NEW S, NEW h \in S, NEW b \in Seq(S), NEW e \in S
  PROVE  Append(<<h>> \o b, e) = <<h>> \o b \o <<e>>
<1>1. <<h>> \o b \in Seq(S)
  BY ConcatProperties
<1>2. QED
  BY <1>1, AppendIsConcat

\* What is between the ends of a closed frame is the body.
LEMMA FrameBody ==
  ASSUME NEW S, NEW h \in S, NEW b \in Seq(S), NEW e \in S,
         NEW w, w = <<h>> \o b \o <<e>>
  PROVE  /\ w \in Seq(S) /\ Len(w) = Len(b) + 2
         /\ w[1] = h /\ w[Len(w)] = e
         /\ SubSeq(w, 2, Len(w) - 1) = b
<1>1. <<h>> \in Seq(S) /\ <<e>> \in Seq(S) /\ <<h>> \o b \in Seq(S) /\ w \in Seq(S)
  BY ConcatProperties
<1>2. QED
  BY <1>1
=============================================================================
