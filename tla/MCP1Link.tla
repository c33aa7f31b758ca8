------------------------------ MODULE MCP1Link -------------------------------
(***************************************************************************)
(* An instance of P1Link for TLC: two telegrams of different length, with  *)
(* four CRC digits and the real CRC.                                       *)
(***************************************************************************)
EXTENDS P1Link

MCByte   == {"/", "!", "CR", "LF"} \cup ToSet(UpperHex)
MCBodies == << <<"A", "LF">>, <<"A", "LF", "7">> >>

\* The theorems about an undisturbed line are about this instance, too.
ASSUME TheoremsApply == SameCrc /\ RoomForBodies /\ SmallQueue
=============================================================================
