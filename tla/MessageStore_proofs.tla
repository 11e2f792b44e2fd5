------------------------ MODULE MessageStore_proofs ------------------------
(***************************************************************************)
(* The message store keeps what it was first asked to keep, or nothing.    *)
(*                                                                         *)
(* LooksAgree is not inductive: it says nothing of the map the next look   *)
(* will read.  Frozen ties the two: once a group has been looked at, its   *)
(* key is in the map and its vector is the one that was seen.              *)
(***************************************************************************)
EXTENDS MessageStore, TLAPS

Frozen ==
  \A g \in Group : looked[g] # {} => g \in DOMAIN messages /\ looked[g] = {messages[g]}

StoreInv == StoreTypeOK /\ Frozen

\* What one look does, seen from every group.
LEMMA LookEffect ==
  ASSUME StoreTypeOK, NEW g \in Group, Look(g)
  PROVE  /\ Vector(g) \in Mail
         /\ DOMAIN messages' = DOMAIN messages \cup {g}
         /\ messages'[g] = Vector(g)
         /\ \A h \in DOMAIN messages : messages'[h] = messages[h]
         /\ messages' \in [DOMAIN messages' -> Mail]
         /\ looked' = [looked EXCEPT ![g] = @ \cup {Vector(g)}]
         /\ sent' = sent
  BY DEF Look, Touch, Vector, StoreTypeOK, Mail

\* What SEND_MSG makes of the map.
LEMMA SendEffect ==
  ASSUME StoreTypeOK, NEW g \in Group, NEW t \in Text, SendMsg(g, t)
  PROVE  /\ DOMAIN messages' = DOMAIN messages \cup {g}
         /\ g \notin DOMAIN messages => messages'[g] = <<t>>
         /\ \A h \in DOMAIN messages : messages'[h] = messages[h]
         /\ messages' \in [DOMAIN messages' -> Mail]
         /\ looked' = looked
         /\ sent' \in [Group -> SUBSET Text]
  BY DEF SendMsg, StoreTypeOK, Mail

\* The empty map satisfies the store's invariant.
LEMMA StoreInvInit == StoreInit => StoreInv
  BY DEF StoreInit, StoreInv, StoreTypeOK, Frozen

\* Every operation of the store keeps its invariant.
LEMMA StoreInvStep == StoreInv /\ [StoreNext]_store => StoreInv'
<1>. SUFFICES ASSUME StoreInv, [StoreNext]_store PROVE StoreInv'
  OBVIOUS
<1>1. ASSUME NEW g \in Group, Look(g) PROVE StoreInv'
  <2>1. StoreTypeOK'
    <3>1. DOMAIN messages' \subseteq Group /\ messages' \in [DOMAIN messages' -> Mail]
      BY <1>1, LookEffect DEF StoreInv, StoreTypeOK
    <3>2. looked' \in [Group -> SUBSET Mail] /\ sent' = sent
      <4>1. Vector(g) \in Mail /\ looked' = [looked EXCEPT ![g] = @ \cup {Vector(g)}]
        BY <1>1, LookEffect DEF StoreInv
      <4>. QED BY <1>1, <4>1, LookEffect DEF StoreInv, StoreTypeOK
    <3>. QED BY <3>1, <3>2 DEF StoreInv, StoreTypeOK
  <2>2. Frozen'
    <3>. SUFFICES ASSUME NEW h \in Group, looked'[h] # {}
                  PROVE  h \in DOMAIN messages' /\ looked'[h] = {messages'[h]}
      BY DEF Frozen
    <3>1. CASE h = g
      <4>1. looked'[g] = looked[g] \cup {Vector(g)} /\ messages'[g] = Vector(g)
        BY <1>1, LookEffect DEF StoreInv, StoreTypeOK
      <4>2. looked[g] # {} => looked[g] = {Vector(g)}
        BY DEF StoreInv, Frozen, Vector
      <4>. QED BY <1>1, <3>1, <4>1, <4>2, LookEffect DEF StoreInv
    <3>2. CASE h # g
      BY <1>1, <3>2, LookEffect DEF StoreInv, StoreTypeOK, Frozen
    <3>. QED BY <3>1, <3>2
  <2>. QED BY <2>1, <2>2 DEF StoreInv
<1>2. ASSUME NEW g \in Group, NEW t \in Text, SendMsg(g, t) PROVE StoreInv'
  BY <1>2, SendEffect DEF StoreInv, StoreTypeOK, Frozen
<1>3. CASE UNCHANGED store
  BY <1>3 DEF store, StoreInv, StoreTypeOK, Frozen
<1>. QED BY <1>1, <1>2, <1>3 DEF StoreNext, FetchMsg, Count

\* The store's invariant always holds.
LEMMA StoreInvariance == StoreSpec => []StoreInv
  BY StoreInvInit, StoreInvStep, PTL DEF StoreSpec

\* No vector in the store ever has two elements.
THEOREM StoreTypeCorrect == StoreSpec => []StoreTypeOK
  BY StoreInvariance, PTL DEF StoreInv

\* Everyone who looks for the messages of a group finds the same, for ever.
THEOREM LooksAlwaysAgree == StoreSpec => []LooksAgree
<1>1. StoreInv => LooksAgree
  BY DEF StoreInv, Frozen, LooksAgree
<1>. QED BY <1>1, StoreInvariance, PTL

-----------------------------------------------------------------------------
(* The refinement. *)

BoxMap  == [g \in Group |-> IF g \in DOMAIN messages THEN BoxOf(messages[g])
                                                     ELSE [kind |-> "open"]]
SeenMap == [g \in Group |-> {BoxOf(m) : m \in looked[g]}]

\* An empty box, a sealed one and a full one are different.
LEMMA BoxesDiffer ==
  /\ BoxOf(<<>>) = Abstract!Sealed
  /\ \A t \in Text : BoxOf(<<t>>) = Abstract!Holding(t)
  /\ \A m \in Mail : BoxOf(m) # Abstract!Open
<1>1. BoxOf(<<>>) = Abstract!Sealed
  BY DEF BoxOf, Abstract!Sealed
<1>2. \A t \in Text : BoxOf(<<t>>) = Abstract!Holding(t)
  BY DEF BoxOf, Abstract!Holding
<1>3. \A m \in Mail : BoxOf(m).kind # "open"
  BY DEF BoxOf, Mail
<1>4. Abstract!Open.kind = "open"
  BY DEF Abstract!Open
<1>. QED BY <1>1, <1>2, <1>3, <1>4

\* An operation that looks at a group looks into its box.
LEMMA LookRefines ==
  ASSUME StoreInv, NEW g \in Group, Look(g)
  PROVE  Abstract!Look(g)
<1>1. StoreTypeOK
  BY DEF StoreInv
<1>2. BoxMap' = [BoxMap EXCEPT ![g] = IF @ = Abstract!Open THEN Abstract!Sealed ELSE @]
  <2>1. BoxMap'[g] = IF BoxMap[g] = Abstract!Open THEN Abstract!Sealed ELSE BoxMap[g]
    <3>1. BoxMap'[g] = BoxOf(Vector(g))
      BY <1>1, LookEffect DEF BoxMap, BoxOf
    <3>2. CASE g \in DOMAIN messages
      <4>1. BoxMap[g] = BoxOf(messages[g]) /\ messages[g] \in Mail
        BY <1>1, <3>2 DEF BoxMap, StoreTypeOK
      <4>. QED BY <3>1, <3>2, <4>1, BoxesDiffer DEF Vector
    <3>3. CASE g \notin DOMAIN messages
      <4>1. BoxMap[g] = Abstract!Open
        BY <3>3 DEF BoxMap, Abstract!Open
      <4>. QED BY <3>1, <3>3, <4>1, BoxesDiffer DEF Vector
    <3>. QED BY <3>2, <3>3
  <2>2. \A h \in Group \ {g} : BoxMap'[h] = BoxMap[h]
    BY <1>1, LookEffect DEF BoxMap, BoxOf
  <2>3. DOMAIN BoxMap = Group /\ DOMAIN BoxMap' = Group
    BY DEF BoxMap
  <2>. QED BY <2>1, <2>2, <2>3 DEF BoxMap
<1>3. SeenMap' = [SeenMap EXCEPT ![g] = @ \cup {BoxMap'[g]}]
  <2>1. BoxMap'[g] = BoxOf(Vector(g))
    BY <1>1, LookEffect DEF BoxMap, BoxOf
  <2>2. looked' = [looked EXCEPT ![g] = @ \cup {Vector(g)}]
    BY <1>1, LookEffect
  <2>3. SeenMap'[g] = SeenMap[g] \cup {BoxOf(Vector(g))}
    BY <1>1, <2>2 DEF SeenMap, StoreTypeOK, BoxOf
  <2>4. \A h \in Group \ {g} : SeenMap'[h] = SeenMap[h]
    BY <1>1, <2>2 DEF SeenMap, StoreTypeOK, BoxOf
  <2>. QED BY <2>1, <2>3, <2>4 DEF SeenMap
<1>. QED BY <1>2, <1>3 DEF Abstract!Look, BoxMap, SeenMap

\* SEND_MSG puts a message into an unseen, empty box, or changes none.
LEMMA SendRefines ==
  ASSUME StoreInv, NEW g \in Group, NEW t \in Text, SendMsg(g, t)
  PROVE  Abstract!Put(g, t) \/ UNCHANGED <<BoxMap, SeenMap>>
<1>1. StoreTypeOK
  BY DEF StoreInv
<1>2. SeenMap' = SeenMap
  BY <1>1, SendEffect DEF SeenMap, BoxOf
<1>3. CASE g \in DOMAIN messages
  <2>1. \A h \in Group : BoxMap'[h] = BoxMap[h]
    BY <1>1, <1>3, SendEffect DEF BoxMap, BoxOf
  <2>. QED BY <1>2, <2>1 DEF BoxMap
<1>4. CASE g \notin DOMAIN messages
  <2>1. BoxMap[g] = Abstract!Open
    BY <1>4 DEF BoxMap, Abstract!Open
  <2>2. BoxMap'[g] = Abstract!Holding(t)
    BY <1>1, <1>4, SendEffect, BoxesDiffer DEF BoxMap, BoxOf
  <2>3. \A h \in Group \ {g} : BoxMap'[h] = BoxMap[h]
    BY <1>1, SendEffect DEF BoxMap, BoxOf
  <2>4. BoxMap' = [BoxMap EXCEPT ![g] = Abstract!Holding(t)]
    BY <2>2, <2>3 DEF BoxMap
  <2>. QED BY <1>2, <2>1, <2>4 DEF Abstract!Put, BoxMap, SeenMap
<1>. QED BY <1>3, <1>4

\* The store implements write-once boxes that the first look seals.
THEOREM StoreImplementsMailboxes == StoreSpec => ImplementsMailboxes
<1>1. StoreInit => Abstract!BoxInit
  BY DEF StoreInit, Abstract!BoxInit, Abstract!Open
<1>2. StoreInv /\ [StoreNext]_store => [Abstract!BoxNext]_<<BoxMap, SeenMap>>
  <2>. SUFFICES ASSUME StoreInv, [StoreNext]_store
                PROVE  [Abstract!BoxNext]_<<BoxMap, SeenMap>>
    OBVIOUS
  <2>1. ASSUME NEW g \in Group, Look(g) PROVE Abstract!BoxNext
    BY <2>1, LookRefines DEF Abstract!BoxNext
  <2>2. ASSUME NEW g \in Group, NEW t \in Text, SendMsg(g, t)
        PROVE  Abstract!BoxNext \/ UNCHANGED <<BoxMap, SeenMap>>
    BY <2>2, SendRefines DEF Abstract!BoxNext
  <2>3. CASE UNCHANGED store
    BY <2>3 DEF store, BoxMap, SeenMap, BoxOf
  <2>. QED BY <2>1, <2>2, <2>3 DEF StoreNext, FetchMsg, Count
<1>. QED BY <1>1, <1>2, StoreInvariance, PTL
     DEF StoreSpec, ImplementsMailboxes, Abstract!BoxSpec, BoxMap, SeenMap
=============================================================================
