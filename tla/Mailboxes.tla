------------------------------ MODULE Mailboxes ------------------------------
(***************************************************************************)
(* What the message store of the chat server amounts to, seen from the     *)
(* outside: one box per group, which can be written once, and which is     *)
(* sealed by the first look at it.  MessageStore implements this.          *)
(***************************************************************************)
CONSTANTS Group, Text

VARIABLES
  box,      \* what each group's box holds
  looked    \* everything anyone has seen in it

Open   == [kind |-> "open"]
Sealed == [kind |-> "sealed"]
Holding(t) == [kind |-> "holding", text |-> t]

BoxInit == box = [g \in Group |-> Open] /\ looked = [g \in Group |-> {}]

\* The first message for a group is kept.
Put(g, t) ==
  /\ box[g] = Open
  /\ box' = [box EXCEPT ![g] = Holding(t)]
  /\ UNCHANGED looked

\* A look at an open box seals it.
Look(g) ==
  /\ box' = [box EXCEPT ![g] = IF @ = Open THEN Sealed ELSE @]
  /\ looked' = [looked EXCEPT ![g] = @ \cup {box'[g]}]

BoxNext == \E g \in Group : Look(g) \/ \E t \in Text : Put(g, t)

BoxSpec == BoxInit /\ [][BoxNext]_<<box, looked>>
=============================================================================
