------------------------- MODULE ChatServer_proofs -------------------------
(***************************************************************************)
(* What is proved of the event loop alone and of the store alone holds in  *)
(* the whole server.  The threads are modelled so that a step of theirs    *)
(* is, for the event loop, a stutter or its death, and a step of any       *)
(* thread is, for the store, one operation or a stutter.  The two lemmas   *)
(* that say so only record that shape, for the theorems that rest on it.   *)
(***************************************************************************)
EXTENDS ChatServer, ChatSockets_proofs

\* The steps of the two threads: what they leave of the event loop's state.
LEMMA ThreadsLeaveMain ==
  ASSUME KeepAlive \/ Updates \/ Race
  PROVE  Alive /\ MainUntouched /\ (status' = status \/ status' = "crashed")
<1>1. CASE KeepAlive
  <2>1. ASSUME NEW f \in Fd, KeepAliveSends(f) \/ KeepAliveBreaks(f) \/ KeepAliveDies(f)
        PROVE  Alive /\ MainUntouched /\ (status' = status \/ status' = "crashed")
    BY <2>1 DEF KeepAliveSends, KeepAliveBreaks, KeepAliveDies, KeepAliveCounts
  <2>. QED BY <1>1, <2>1 DEF KeepAlive, KeepAliveWakes, KeepAliveEnds
<1>2. CASE Updates
  <2>1. ASSUME NEW f \in Fd, UpdatesSends(f) \/ UpdatesBreaks(f) \/ UpdatesDies(f)
        PROVE  Alive /\ MainUntouched /\ (status' = status \/ status' = "crashed")
    BY <2>1 DEF UpdatesSends, UpdatesBreaks, UpdatesDies, UpdatesAtEntry
  <2>. QED BY <1>2, <2>1 DEF Updates, UpdatesWakes, UpdatesEnds
<1>3. CASE Race
  BY <1>3 DEF Race
<1>. QED BY <1>1, <1>2, <1>3

\* A step of the whole server is a step of the event loop, or leaves it alone.
LEMMA StepIsSocketsStep == [ServerNext]_allvars => [Next]_vars
<1>. SUFFICES ASSUME [ServerNext]_allvars PROVE [Next]_vars
  OBVIOUS
<1>1. CASE MainThread
  BY <1>1 DEF MainThread, Next
<1>2. CASE Outside
  BY <1>2 DEF Outside, Next
<1>3. CASE KeepAlive \/ Updates \/ Race
  <2>1. Alive /\ MainUntouched /\ (status' = status \/ status' = "crashed")
    BY <1>3, ThreadsLeaveMain
  <2>. QED BY <2>1 DEF MainUntouched, Next, Killed, vars
<1>4. CASE Stopped \/ UNCHANGED allvars
  BY <1>4 DEF Stopped, allvars
<1>. QED BY <1>1, <1>2, <1>3, <1>4 DEF ServerNext

\* A behaviour of the server with its threads is one of the event loop.
LEMMA ServerRunsLoop == ServerSpec => Spec
<1>1. ServerInit => Init
  BY DEF ServerInit
<1>. QED BY <1>1, StepIsSocketsStep, PTL DEF ServerSpec, Spec

\* A step of the whole server performs at most one operation of the store.
LEMMA StepIsStoreStep == [ServerNext]_allvars => [Store!StoreNext]_store
<1>. SUFFICES ASSUME [ServerNext]_allvars PROVE Store!StoreNext \/ UNCHANGED store
  OBVIOUS
<1>. USE DEF Store!StoreNext
<1>1. CASE MainThread
  BY <1>1 DEF MainThread
<1>2. CASE KeepAlive
  <2>1. ASSUME NEW f \in Fd, KeepAliveCounts(f) PROVE Store!StoreNext
    <3>1. PICK g \in NameOf(f) : Store!Count(g)
      BY <2>1 DEF KeepAliveCounts
    <3>2. g \in Group
      BY GroupAssumption DEF NameOf
    <3>. QED BY <3>1, <3>2
  <2>. QED BY <1>2, <2>1
       DEF KeepAlive, KeepAliveWakes, KeepAliveEnds, KeepAliveSends, KeepAliveBreaks,
           KeepAliveDies
<1>3. CASE Updates
  BY <1>3 DEF Updates, UpdatesWakes, UpdatesEnds, UpdatesSends, UpdatesBreaks,
              UpdatesDies, UpdatesAtEntry
<1>4. CASE Outside \/ Race \/ Stopped \/ UNCHANGED allvars
  BY <1>4 DEF Outside, Race, Stopped, allvars
<1>. QED BY <1>1, <1>2, <1>3, <1>4 DEF ServerNext

\* And it is a behaviour of the store, which main and the keep-alive thread use.
LEMMA ServerRunsStore == ServerSpec => Store!StoreSpec
<1>1. ServerInit => Store!StoreInit
  BY DEF ServerInit
<1>2. store = Store!store
  BY DEF store, Store!store
<1>. QED BY <1>1, <1>2, StepIsStoreStep, PTL
     DEF ServerSpec, Store!StoreSpec, store, Store!store

\* What was proved of the event loop holds beside the threads: the connections
\* select() watches are exactly the live ones, maxfds covers them, select()
\* never fails, and accepted connections stay listed.
THEOREM ServerKeepsLoopSafe ==
  ServerSpec => [](/\ MonitorsConnections /\ SelectCoversAll /\ SelectNeverFails
                   /\ AcceptedIsListed /\ BufferFromThisRound)
  BY ServerRunsLoop, ConnectionsMonitored, MaxfdsCovers, ServerNeverFinishes,
     AcceptedStaysListed, BufferIsOfThisRound, PTL

-----------------------------------------------------------------------------
(* The types of the whole, from those of its parts. *)

StoreProofs == INSTANCE MessageStore_proofs

\* The store's types hold in the server.
LEMMA ServerStoreTypes == ServerSpec => []Store!StoreTypeOK
<1>1. Store!StoreInit => StoreProofs!StoreInit
  BY DEF Store!StoreInit, StoreProofs!StoreInit
<1>2. ASSUME NEW g PROVE Store!Look(g) => StoreProofs!Look(g)
  BY DEF Store!Look, Store!Touch, Store!Vector,
         StoreProofs!Look, StoreProofs!Touch, StoreProofs!Vector
<1>3. ASSUME NEW g, NEW t PROVE Store!SendMsg(g, t) => StoreProofs!SendMsg(g, t)
  BY DEF Store!SendMsg, StoreProofs!SendMsg
<1>4. [Store!StoreNext]_Store!store => [StoreProofs!StoreNext]_StoreProofs!store
  BY <1>2, <1>3 DEF Store!StoreNext, Store!FetchMsg, Store!Count, Store!store,
     StoreProofs!StoreNext, StoreProofs!FetchMsg, StoreProofs!Count, StoreProofs!store
<1>5. StoreProofs!StoreTypeOK => Store!StoreTypeOK
  BY DEF Store!StoreTypeOK, StoreProofs!StoreTypeOK, Store!Mail, StoreProofs!Mail
<1>6. StoreProofs!StoreSpec => []StoreProofs!StoreTypeOK
  BY StoreProofs!StoreTypeCorrect
<1>. QED BY <1>1, <1>4, <1>5, <1>6, ServerRunsStore, PTL
     DEF Store!StoreSpec, StoreProofs!StoreSpec

\* The iterators of the two threads are entries of the table, or its end.
ThreadsTypeOK ==
  /\ keepAlive \in {"asleep", "walking"} /\ keepAliveAt \in Fd \cup {NoFd}
  /\ updates \in {"asleep", "walking", "done"} /\ updatesAt \in Fd \cup {NoFd}

\* Where a thread's walk over servers goes next is a descriptor or the end.
LEMMA WalkRange ==
  ASSUME TypeOK, NEW f \in Fd
  PROVE  First(servers) \subseteq Fd \cup {NoFd} /\ WalkOn(f) \subseteq Fd \cup {NoFd}
  BY DEF TypeOK, First, After, WalkOn

\* Where a walk over servers starts is a descriptor or the end, too.
LEMMA FirstRange == TypeOK => First(servers) \subseteq Fd \cup {NoFd}
  BY DEF TypeOK, First

\* A step keeps the types of the two threads.
LEMMA ThreadsType == TypeOK /\ ThreadsTypeOK /\ [ServerNext]_allvars => ThreadsTypeOK'
<1>. SUFFICES ASSUME TypeOK, ThreadsTypeOK, [ServerNext]_allvars PROVE ThreadsTypeOK'
  OBVIOUS
<1>. USE DEF ThreadsTypeOK
<1>1. CASE KeepAlive
  <2>1. ASSUME NEW f \in Fd, KeepAliveSends(f) \/ KeepAliveBreaks(f) \/ KeepAliveDies(f)
        PROVE  ThreadsTypeOK'
    BY <2>1, WalkRange DEF KeepAliveSends, KeepAliveBreaks, KeepAliveDies, threads
  <2>. QED BY <1>1, <2>1, FirstRange DEF KeepAlive, KeepAliveWakes, KeepAliveEnds
<1>2. CASE Updates
  <2>1. ASSUME NEW f \in Fd, UpdatesSends(f) \/ UpdatesBreaks(f) \/ UpdatesDies(f)
        PROVE  ThreadsTypeOK'
    BY <2>1, WalkRange DEF UpdatesSends, UpdatesBreaks, UpdatesDies, UpdatesAtEntry
  <2>. QED BY <1>2, <2>1, FirstRange DEF Updates, UpdatesWakes, UpdatesEnds
<1>3. CASE MainThread \/ Outside \/ Race \/ Stopped \/ UNCHANGED allvars
  BY <1>3 DEF MainThread, Outside, Race, Stopped, allvars, threads
<1>. QED BY <1>1, <1>2, <1>3 DEF ServerNext

\* Every variable of the whole server keeps its type.  The keep-alive thread
\* in particular never ends: a failed send() ends its walk and no more.
THEOREM ServerTypeCorrect == ServerSpec => []ServerTypeOK
<1>1. ServerInit => ThreadsTypeOK
  BY DEF ServerInit, ThreadsTypeOK
<1>2. ServerSpec => []TypeOK
  BY ServerRunsLoop, TypeCorrect, PTL
<1>3. TypeOK /\ ThreadsTypeOK /\ Store!StoreTypeOK => ServerTypeOK
  BY DEF ServerTypeOK, ThreadsTypeOK
<1>. QED BY <1>1, <1>2, <1>3, ThreadsType, ServerStoreTypes, PTL DEF ServerSpec
=============================================================================
