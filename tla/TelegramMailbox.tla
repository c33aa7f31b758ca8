--------------------------- MODULE TelegramMailbox --------------------------
(***************************************************************************)
(* What both readers promise their application, without saying how: a      *)
(* mailbox for one telegram, filled from the wire while telegrams are      *)
(* asked for.                                                              *)
(*                                                                         *)
(*   - the mailbox is empty or holds the whole body of one telegram of the *)
(*     wire, whose end was verified (class comment of P1Reader: "Once a    *)
(*     full and correct message is received, loop() (and available())      *)
(*     start returning true, until the message is cleared");               *)
(*   - a telegram in the mailbox never changes and is never overtaken by   *)
(*     the next one: it is taken out first;                                *)
(*   - telegrams are put in only while they are asked for, and enable(true)*)
(*     asks for one.                                                       *)
(*                                                                         *)
(* wire is the telegram heard last and tail what followed its '!'; the     *)
(* mailbox constrains them only when a telegram is delivered.              *)
(***************************************************************************)
EXTENDS Naturals, Sequences

CONSTANT Verified(_, _)  \* Verified(w, t): t may end the telegram w

VARIABLES
    slot,   \* <<>>, or <<body>> of the telegram the application can read
    asked,  \* "off", "once" or "always": are telegrams asked for?
    wire,   \* environment: the bytes from '/' on
    tail    \* environment: the bytes after '!'

mailbox == <<slot, asked>>

IsTelegram(w) == Len(w) >= 2 /\ w[1] = "/" /\ w[Len(w)] = "!"

Body(w) == SubSeq(w, 2, Len(w) - 1)

Init == slot = <<>> /\ asked = "off"

Ask == asked' \in {"once", "always"} /\ UNCHANGED slot

StopAsking == asked' = "off" /\ UNCHANGED slot

Deliver ==
  /\ slot = <<>> /\ asked # "off"
  /\ IsTelegram(wire') /\ Verified(wire', tail')
  /\ slot' = <<Body(wire')>>
  /\ asked' = IF asked = "once" THEN "off" ELSE asked

TakeOut == slot' = <<>> /\ UNCHANGED asked

Next == Ask \/ StopAsking \/ Deliver \/ TakeOut

Spec == Init /\ [][Next]_mailbox
=============================================================================
