---------------------------- MODULE MessageStore ----------------------------
(***************************************************************************)
(* The `messages` map of the chat server (project3/server.cpp): from the   *)
(* name of a group to the vector of the messages cached for it.  Three     *)
(* operations touch it: FETCH_MSG and SEND_MSG from a chat client, and the *)
(* keep-alive thread.  The two server commands that would (FETCH_MSGS and  *)
(* SEND_MSG with five tokens) follow a null pointer first: see Fatal in    *)
(* ChatSockets.  STATUSREQ and STATUSRESP only read it.                    *)
(***************************************************************************)
EXTENDS Sequences, FiniteSets

CONSTANTS
  Group,   \* names, the empty name of an unidentified server included
  Text     \* contents of messages

VARIABLES
  messages,  \* the map; a key is in its domain once it has been mentioned
  sent,      \* history: every message a client asked the server to send
  looked     \* history: every vector a FETCH_MSG or a KEEPALIVE has found

store == <<messages, sent, looked>>

StoreInit ==
  /\ messages = [g \in {} |-> <<>>]
  /\ sent = [g \in Group |-> {}]
  /\ looked = [g \in Group |-> {}]

\* operator[] of std::map: an absent key comes into being with an empty vector.
Vector(g) == IF g \in DOMAIN messages THEN messages[g] ELSE <<>>
Touch(g)  == messages' = [h \in DOMAIN messages \cup {g} |-> Vector(h)]

\* Looking for the messages of g, which brings the key into being.
Look(g) ==
  /\ Touch(g)
  /\ looked' = [looked EXCEPT ![g] = @ \cup {Vector(g)}]
  /\ UNCHANGED sent

\* The two statements behind FETCH_MSG's reply that are commented out.
FetchMsgErasing(g) ==
  /\ messages' = [h \in DOMAIN messages \cup {g} |->
                    IF h = g /\ Vector(g) # <<>> THEN Tail(Vector(g)) ELSE Vector(h)]
  /\ looked' = [looked EXCEPT ![g] = @ \cup {Vector(g)}]
  /\ UNCHANGED sent

\* FETCH_MSG: the reply is the front of a copy of the vector, which stays.
FetchMsg(g) == Look(g)

\* Two other ways to write SEND_MSG: appending, and assigning to the key.
SendMsgAppending(g, t) ==
  /\ messages' = [h \in DOMAIN messages \cup {g} |->
                    IF h = g THEN Append(Vector(g), t) ELSE Vector(h)]
  /\ sent' = [sent EXCEPT ![g] = @ \cup {t}]
  /\ UNCHANGED looked

SendMsgAssigning(g, t) ==
  /\ messages' = [h \in DOMAIN messages \cup {g} |-> IF h = g THEN <<t>> ELSE Vector(h)]
  /\ sent' = [sent EXCEPT ![g] = @ \cup {t}]
  /\ UNCHANGED looked

\* SEND_MSG: insert() does nothing when the key is there.
SendMsg(g, t) ==
  /\ messages' = [h \in DOMAIN messages \cup {g} |->
                    IF h \in DOMAIN messages THEN messages[h] ELSE <<t>>]
  /\ sent' = [sent EXCEPT ![g] = @ \cup {t}]
  /\ UNCHANGED looked

\* The keep-alive thread counts the messages for a server by its name.
Count(g) == Look(g)

StoreNext ==
  \E g \in Group : FetchMsg(g) \/ Count(g) \/ \E t \in Text : SendMsg(g, t)

StoreSpec == StoreInit /\ [][StoreNext]_store

-----------------------------------------------------------------------------
\* A vector never has more than one element.
Mail == {<<>>} \cup {<<t>> : t \in Text}

StoreTypeOK ==
  /\ DOMAIN messages \subseteq Group
  /\ messages \in [DOMAIN messages -> Mail]
  /\ sent \in [Group -> SUBSET Text]
  /\ looked \in [Group -> SUBSET Mail]

\* Whoever looks for the messages of a group, and whenever, finds the same: a
\* FETCH_MSG that was told "No message" will be told so for ever, and one that
\* got a message gets it again, however many are sent in between.
LooksAgree == \A g \in Group : \A x, y \in looked[g] : x = y

\* The store is a set of write-once boxes that a look seals.
BoxOf(m) == IF m = <<>> THEN [kind |-> "sealed"]
                        ELSE [kind |-> "holding", text |-> Head(m)]

Abstract == INSTANCE Mailboxes WITH
  box    <- [g \in Group |-> IF g \in DOMAIN messages THEN BoxOf(messages[g])
                                                      ELSE [kind |-> "open"]],
  looked <- [g \in Group |-> {BoxOf(m) : m \in looked[g]}]

ImplementsMailboxes == Abstract!BoxSpec

\* server.cpp:535: "cache the message and wait until someone fetches the
\* message": nothing is ever fetched away, so all that was sent is in the cache.
CachedUntilFetched ==
  \A g \in Group : \A t \in sent[g] : \E i \in DOMAIN Vector(g) : Vector(g)[i] = t
=============================================================================
