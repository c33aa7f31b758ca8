------------------------ MODULE P1DiagnosticsTracker ------------------------
(***************************************************************************)
(* The counters and the CRC auto-detection that both readers keep next to  *)
(* their telegram buffer (src/src/dsmr3/reader3.h, P1DiagnosticsTracker).  *)
(*                                                                         *)
(* The tracker has no control of its own: its methods are called from the  *)
(* handlers of the accumulator and of P1Reader.  It is therefore modelled  *)
(* as a record and one operator per method, which returns the record the   *)
(* method leaves behind.                                                   *)
(***************************************************************************)
EXTENDS Naturals, Sequences

CONSTANT CounterRange   \* number of values of a uint32_t counter (2^32)

ASSUME CounterRangeAssumption == CounterRange \in Nat \ {0, 1}

P1CrcMode == {"DETECTING", "PRESENT", "ABSENT"}

VotesToLock == 3

\* The values a tracker can hold: a third vote closes the detection, so
\* fewer than VotesToLock votes are ever kept.
Tracker ==
  {t \in [crc_mode : P1CrcMode,
          crc_errors : 0 .. CounterRange - 1,
          skipped_fields : 0 .. CounterRange - 1,
          crc_present_votes : 0 .. VotesToLock - 1,
          crc_absent_votes : 0 .. VotesToLock - 1] :
     t.crc_present_votes + t.crc_absent_votes < VotesToLock}

ResetTracker ==
  [crc_mode |-> "DETECTING", crc_errors |-> 0, skipped_fields |-> 0,
   crc_present_votes |-> 0, crc_absent_votes |-> 0]

AddSkipped(t, n) ==
  [t EXCEPT !.skipped_fields = (@ + n) % CounterRange]

CountCrcError(t) ==
  [t EXCEPT !.crc_errors = (@ + 1) % CounterRange]

-----------------------------------------------------------------------------
\* Mutant of ModeOfVotes: one telegram without a CRC decides alone.
UnanimousOnly(present) == IF present >= 3 THEN "PRESENT" ELSE "ABSENT"

ModeOfVotes(present) == IF present >= 2 THEN "PRESENT" ELSE "ABSENT"

\* Mutant of LockMode: the votes of the closed detection are left behind.
LockKeepsVotes(t) ==
  [t EXCEPT !.crc_mode = ModeOfVotes(t.crc_present_votes)]

LockMode(t) ==
  [crc_mode |-> ModeOfVotes(t.crc_present_votes),
   crc_errors |-> t.crc_errors,
   skipped_fields |-> t.skipped_fields,
   crc_present_votes |-> 0,
   crc_absent_votes |-> 0]

CastVote(t, present) ==
  IF present THEN [t EXCEPT !.crc_present_votes = @ + 1]
             ELSE [t EXCEPT !.crc_absent_votes = @ + 1]

ObserveCrc(t, present) ==
  LET voted == CastVote(t, present)
      votes == voted.crc_present_votes + voted.crc_absent_votes
  IN  IF t.crc_mode # "DETECTING" THEN t
      ELSE IF votes >= VotesToLock THEN LockMode(voted) ELSE voted

-----------------------------------------------------------------------------
(***************************************************************************)
(* The history of a detection, kept by the readers for their properties:   *)
(* for each of the first VotesToLock accepted telegrams, had it a CRC?     *)
(***************************************************************************)
WithVote(votes, present) ==
  IF Len(votes) < VotesToLock THEN Append(votes, present) ELSE votes

MostHadCrc(votes) == \E i, j \in DOMAIN votes : i # j /\ votes[i] /\ votes[j]

MajorityMode(votes) ==
  IF Len(votes) < VotesToLock THEN "DETECTING"
  ELSE IF MostHadCrc(votes) THEN "PRESENT" ELSE "ABSENT"

\* A tracker that has heard these votes: the mode is their majority, and an
\* open detection has counted them.
VotesCounted(t, votes) ==
  LET Cast(i, present) ==
        IF i \in DOMAIN votes /\ votes[i] = present THEN 1 ELSE 0
  IN  /\ Len(votes) <= VotesToLock
      /\ Len(votes) < VotesToLock =>
           /\ t.crc_present_votes = Cast(1, TRUE) + Cast(2, TRUE)
           /\ t.crc_absent_votes = Cast(1, FALSE) + Cast(2, FALSE)
      /\ t.crc_mode = MajorityMode(votes)
=============================================================================
