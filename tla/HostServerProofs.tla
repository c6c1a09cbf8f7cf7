-------------------------- MODULE HostServerProofs --------------------------
(***************************************************************************)
(* The safety of the resident host, for any number of connections, slots and *)
(* restarts: one accept thread at a time, slots conserved, and no connection *)
(* out of the reach of stop().                                               *)
(***************************************************************************)
EXTENDS HostServer, FiniteSetTheorems, TLAPS

Holding == {"slot", "enter", "spawn"}

\* TypeOK, but for the upper bound of the slots, which SlotsConserved gives.
HostTypeOK ==
    /\ listener \in Starts \cup {NoListener}
    /\ listening \in BOOLEAN /\ stopping \in BOOLEAN
    /\ slots \in Nat
    /\ tracked \subseteq Conns /\ shut \subseteq Conns
    /\ conn \in [Conns -> ConnStates]
    /\ born \in [Conns -> 0..MaxStarts]
    /\ apc \in [Starts -> AcceptSteps]
    /\ hand \in [Starts -> SUBSET Conns]
    /\ starts \in 0..MaxStarts
    /\ cpc \in ControlSteps

\* The listener is that of the last start, and stop() has set its flag.
ControlAgrees ==
    /\ listener # NoListener => listener = starts
    /\ \A s \in Starts : s > starts => apc[s] = "none"
    /\ cpc # "idle" => stopping
    /\ cpc \in {"close", "join"} => listener # NoListener

\* An accept thread holds the connection that it took, and nothing else.
HandsHold ==
    \A s \in Starts :
      IF apc[s] \in Holding
      THEN \E c \in Conns : hand[s] = {c} /\ conn[c] = "held" /\ born[c] = s
      ELSE hand[s] = {}

\* A tracked connection is with its handler, or about to be.
TrackedIsOpen ==
    \A c \in tracked :
      conn[c] \in {"serving", "closed"} \/ \E s \in Starts : apc[s] = "spawn" /\ hand[s] = {c}

HostInv ==
    /\ HostTypeOK /\ ControlAgrees /\ OneAcceptThread /\ HandsHold /\ TrackedIsOpen
    /\ SlotsConserved /\ StopReachesAll

-----------------------------------------------------------------------------
(* The connections that hold a slot                                          *)

\* A connection that is with its handler, or was taken with a slot.
Occupied(where, steps, hands) ==
    {c \in Conns : \/ where[c] \in {"serving", "closed", "left"}
                   \/ \E s \in Starts : steps[s] \in {"enter", "spawn"} /\ c \in hands[s]}

\* SlotHolders, without the union.
LEMMA HoldersOccupy ==
  ASSUME HostTypeOK
  PROVE  SlotHolders = Occupied(conn, apc, hand)
  BY DEF SlotHolders, Occupied, HostTypeOK

\* The slots of a step, from what it does to the set of holders.
LEMMA SlotsFollow ==
  ASSUME SlotsConserved, HostTypeOK, HostTypeOK',
         \/ SlotHolders' = SlotHolders /\ slots' = slots
         \/ \E c \in Conns \ SlotHolders : SlotHolders' = SlotHolders \cup {c} /\ slots' = slots - 1
         \/ \E c \in SlotHolders : SlotHolders' = SlotHolders \ {c} /\ slots' = slots + 1
  PROVE  SlotsConserved'
  <1>1. IsFiniteSet(SlotHolders) /\ Cardinality(SlotHolders) \in Nat
    <2>1. SlotHolders \subseteq Conns
      BY HoldersOccupy DEF Occupied
    <2> QED BY <2>1, FS_Subset, FS_CardinalityType, HostAssumption
  <1>2. CASE SlotHolders' = SlotHolders /\ slots' = slots
    BY <1>2 DEF SlotsConserved
  <1>3. CASE \E c \in Conns \ SlotHolders : SlotHolders' = SlotHolders \cup {c} /\ slots' = slots - 1
    <2>1. PICK c \in Conns \ SlotHolders : SlotHolders' = SlotHolders \cup {c} /\ slots' = slots - 1
      BY <1>3
    <2>2. Cardinality(SlotHolders') = Cardinality(SlotHolders) + 1
      BY <1>1, <2>1, FS_AddElement
    <2> QED BY <1>1, <2>1, <2>2 DEF SlotsConserved, HostTypeOK
  <1>4. CASE \E c \in SlotHolders : SlotHolders' = SlotHolders \ {c} /\ slots' = slots + 1
    <2>1. PICK c \in SlotHolders : SlotHolders' = SlotHolders \ {c} /\ slots' = slots + 1
      BY <1>4
    <2>2. Cardinality(SlotHolders') = Cardinality(SlotHolders) - 1
      BY <1>1, <2>1, FS_RemoveElement
    <2> QED BY <1>1, <2>1, <2>2 DEF SlotsConserved, HostTypeOK
  <1> QED BY <1>2, <1>3, <1>4

\* A step that changes neither who holds what nor the slots.
LEMMA SlotsStand ==
  ASSUME SlotsConserved, HostTypeOK, HostTypeOK', slots' = slots,
         Occupied(conn, apc, hand)' = Occupied(conn, apc, hand)
  PROVE  SlotsConserved'
  <1>1. SlotHolders' = SlotHolders
    <2>1. SlotHolders' = Occupied(conn, apc, hand)'
      BY DEF SlotHolders, Occupied, HostTypeOK
    <2> QED BY <2>1, HoldersOccupy
  <1> QED BY <1>1, SlotsFollow

\* A step that takes a slot for one connection, or gives it back.
LEMMA OccupiedFollow ==
  ASSUME SlotsConserved, HostTypeOK, HostTypeOK', NEW c \in Conns,
         \/ /\ Occupied(conn, apc, hand)' = Occupied(conn, apc, hand) \cup {c}
            /\ c \notin Occupied(conn, apc, hand) /\ slots' = slots - 1
         \/ /\ Occupied(conn, apc, hand)' = Occupied(conn, apc, hand) \ {c}
            /\ c \in Occupied(conn, apc, hand) /\ slots' = slots + 1
  PROVE  SlotsConserved'
  <1>1. SlotHolders' = Occupied(conn, apc, hand)'
    BY DEF SlotHolders, Occupied, HostTypeOK
  <1> QED BY <1>1, HoldersOccupy, SlotsFollow

-----------------------------------------------------------------------------
(* Initially, and in start() and stop()                                      *)

\* Nothing has started, every connection is outside and every slot is free.
LEMMA HostStarts == Init => HostInv
  <1> SUFFICES ASSUME Init PROVE HostInv
    OBVIOUS
  <1> USE HostAssumption DEF Init
  <1>1. HostTypeOK
    <2>1. starts \in 0..MaxStarts /\ slots \in Nat /\ 0 \in 0..MaxStarts
      OBVIOUS
    <2>2. conn \in [Conns -> ConnStates] /\ born \in [Conns -> 0..MaxStarts]
      BY <2>1 DEF ConnStates
    <2>3. apc \in [Starts -> AcceptSteps] /\ hand \in [Starts -> SUBSET Conns]
      BY DEF AcceptSteps
    <2> QED BY <2>1, <2>2, <2>3 DEF HostTypeOK, ControlSteps
  <1>2. ControlAgrees /\ OneAcceptThread /\ HandsHold /\ TrackedIsOpen /\ StopReachesAll
    <2>1. \A s \in Starts : apc[s] = "none" /\ hand[s] = {}
      OBVIOUS
    <2>2. ControlAgrees /\ TrackedIsOpen /\ StopReachesAll
      BY <2>1 DEF ControlAgrees, TrackedIsOpen, StopReachesAll
    <2>3. OneAcceptThread /\ HandsHold
      BY <2>1 DEF OneAcceptThread, HandsHold, Holding
    <2> QED BY <2>2, <2>3
  <1>3. SlotsConserved
    <2>1. SlotHolders = {}
      BY <1>1, HoldersOccupy DEF Occupied
    <2> QED BY <2>1, FS_EmptySet DEF SlotsConserved
  <1> QED BY <1>1, <1>2, <1>3 DEF HostInv

\* A new listener, with nobody left from before.
LEMMA StartKeeps == ASSUME HostInv, Start PROVE HostInv'
  <1> USE HostAssumption DEF HostInv, Start, serverVars, slotVars, connVars, At
  <1>1. HostTypeOK'
    <2>1. starts' \in 0..MaxStarts /\ starts' \in Starts
      BY DEF HostTypeOK, Starts
    <2>2. apc' \in [Starts -> AcceptSteps]
      BY DEF HostTypeOK, AcceptSteps
    <2> QED BY <2>1, <2>2 DEF HostTypeOK
  <1>2. starts + 1 \in Starts /\ apc[starts + 1] = "none" /\ hand' = hand
    <2>1. starts + 1 \in Starts /\ starts + 1 > starts
      BY DEF HostTypeOK, Starts
    <2> QED BY <2>1 DEF ControlAgrees
  <1>8. \A s \in Starts : apc'[s] = IF s = starts + 1 THEN "check" ELSE apc[s]
    BY <1>2 DEF HostTypeOK
  <1>9. \A s \in Starts : apc[s] \in {"none", "ended"}
    BY DEF OneAcceptThread, Starts, NoListener
  <1>3. ControlAgrees' /\ OneAcceptThread'
    <2>1. ControlAgrees'
      BY <1>8 DEF HostTypeOK, ControlAgrees, Starts, NoListener
    <2>2. OneAcceptThread'
      BY <1>8, <1>9 DEF OneAcceptThread
    <2> QED BY <2>1, <2>2
  <1>4. HandsHold'
    BY <1>2 DEF HostTypeOK, HandsHold, Holding
  <1>5. TrackedIsOpen'
    BY <1>2 DEF HostTypeOK, TrackedIsOpen
  <1>6. SlotsConserved'
    <2>1. Occupied(conn, apc, hand)' = Occupied(conn, apc, hand)
      BY <1>2 DEF HostTypeOK, Occupied
    <2> QED BY <1>1, <2>1, SlotsStand
  <1>7. StopReachesAll'
    BY DEF StopReachesAll, HostTypeOK
  <1> QED BY <1>1, <1>3, <1>4, <1>5, <1>6, <1>7

\* The steps of stop() reach all that is tracked, and leave the accept thread alone.
LEMMA StopKeeps == ASSUME HostInv, StopBegin \/ StopStep PROVE HostInv'
  <1> USE HostAssumption
      DEF HostInv, StopStep, serverVars, slotVars, connVars, acceptVars
  <1>1. /\ UNCHANGED <<slots, tracked, born, apc, hand, starts>>
        /\ \A c \in Conns : conn'[c] = conn[c] \/ (conn[c] = "backlog" /\ conn'[c] = "dropped")
    <2>1. CASE StopBegin \/ StopShutdown \/ StopJoin
      BY <2>1 DEF StopBegin, StopShutdown, StopJoin
    <2>2. CASE StopClose
      BY <2>2 DEF StopClose, Backlog
    <2> QED BY <2>1, <2>2
  <1>2. HostTypeOK'
    <2>1. conn' \in [Conns -> ConnStates]
      BY <1>1 DEF StopBegin, StopShutdown, StopClose, StopJoin, HostTypeOK, ConnStates
    <2>2. listener' \in Starts \cup {NoListener} /\ stopping' \in BOOLEAN /\ cpc' \in ControlSteps
      BY DEF StopBegin, StopShutdown, StopClose, StopJoin, HostTypeOK, ControlSteps
    <2>3. listening' \in BOOLEAN /\ shut' \subseteq Conns
      BY DEF StopBegin, StopShutdown, ShutTracked, StopClose, ListensOn, StopJoin, HostTypeOK
    <2> QED BY <1>1, <2>1, <2>2, <2>3 DEF HostTypeOK
  <1>3. ControlAgrees' /\ OneAcceptThread'
    <2>1. CASE StopBegin \/ StopShutdown \/ StopClose
      BY <1>1, <2>1 DEF StopBegin, StopShutdown, StopClose, ControlAgrees, OneAcceptThread
    <2>2. CASE StopJoin
      BY <1>1, <2>2 DEF StopJoin, AcceptorEnded, ControlAgrees, OneAcceptThread
    <2> QED BY <2>1, <2>2
  <1>4. HandsHold' /\ TrackedIsOpen'
    BY <1>1, <1>2 DEF HostTypeOK, HandsHold, TrackedIsOpen
  <1>5. SlotsConserved'
    <2>1. Occupied(conn, apc, hand)' = Occupied(conn, apc, hand)
      BY <1>1 DEF Occupied
    <2> QED BY <1>1, <1>2, <2>1, SlotsStand
  <1>6. StopReachesAll'
    BY <1>1 DEF StopBegin, StopShutdown, ShutTracked, StopClose, StopJoin, StopReachesAll,
           ControlAgrees, HostTypeOK
  <1> QED BY <1>2, <1>3, <1>4, <1>5, <1>6

-----------------------------------------------------------------------------
(* The accept thread                                                         *)

\* What an accept thread leaves alone, and what it does to the slots.
LEMMA AcceptKeeps ==
  ASSUME HostInv, NEW s \in Starts, AcceptStep(s) \/ AcceptFails(s)
  PROVE  HostInv'
  <1> USE HostAssumption DEF HostInv, serverVars, slotVars, connVars, At
  <1>0. UNCHANGED <<listener, stopping, shut, starts, cpc>> /\ apc[s] \notin {"none", "ended"}
    BY DEF AcceptStep, AcceptCheck, Accept, AcceptClosed, AcceptFails, AcquireSlot, Refuse,
           Track, DropLate, Spawn
  <1>1. s = listener /\ s = starts /\ \A r \in Starts : r # s => apc[r] \notin Holding
    BY <1>0 DEF OneAcceptThread, ControlAgrees, Holding, Starts, NoListener
  <1>2. HostTypeOK'
    <2>1. CASE AcceptCheck(s) \/ AcceptClosed(s) \/ AcceptFails(s)
      BY <2>1 DEF AcceptCheck, AcceptClosed, AcceptFails, HostTypeOK, AcceptSteps
    <2>2. CASE Accept(s)
      BY <2>2 DEF Accept, Backlog, HostTypeOK, AcceptSteps, ConnStates, Starts
    <2>3. CASE AcquireSlot(s) \/ Track(s)
      BY <2>3 DEF AcquireSlot, SlotFree, Track, HostTypeOK, AcceptSteps
    <2>4. CASE Refuse(s) \/ DropLate(s) \/ Spawn(s)
      BY <2>4 DEF Refuse, DropLate, SlotGivenBack, Spawn, HostTypeOK, AcceptSteps, ConnStates
    <2> QED BY <2>1, <2>2, <2>3, <2>4 DEF AcceptStep
  <1>3. ControlAgrees' /\ OneAcceptThread'
    <2>1. \A r \in Starts : r # s => apc'[r] = apc[r]
      BY DEF AcceptStep, AcceptCheck, Accept, AcceptClosed, AcceptFails, AcquireSlot, Refuse,
             Track, DropLate, Spawn, HostTypeOK
    <2> QED BY <1>0, <1>1, <2>1 DEF ControlAgrees, OneAcceptThread, HostTypeOK, Starts
  <1>4. CASE AcceptCheck(s) \/ AcceptClosed(s) \/ AcceptFails(s)
    <2>1. UNCHANGED <<slots, tracked, conn, born, hand>> /\ apc[s] \notin Holding
          /\ apc'[s] \notin Holding /\ \A r \in Starts : r # s => apc'[r] = apc[r]
      BY <1>4 DEF AcceptCheck, AcceptClosed, AcceptFails, HostTypeOK, Holding
    <2>2. HandsHold' /\ TrackedIsOpen'
      BY <2>1 DEF HandsHold, TrackedIsOpen, Holding
    <2>3. SlotsConserved'
      <3>1. Occupied(conn, apc, hand)' = Occupied(conn, apc, hand)
        BY <2>1 DEF Occupied, Holding
      <3> QED BY <1>2, <2>1, <3>1, SlotsStand
    <2>4. StopReachesAll'
      BY <1>0, <2>1 DEF StopReachesAll
    <2> QED BY <1>2, <1>3, <2>2, <2>3, <2>4
  <1>5. CASE Accept(s)
    <2>1. PICK c \in Conns :
            /\ conn[c] = "backlog" /\ conn' = [conn EXCEPT ![c] = "held"]
            /\ born' = [born EXCEPT ![c] = s] /\ hand' = [hand EXCEPT ![s] = {c}]
            /\ apc[s] = "accept" /\ apc' = [apc EXCEPT ![s] = "slot"]
            /\ UNCHANGED <<slots, tracked>>
      BY <1>5 DEF Accept, Backlog
    <2>2. c \notin tracked
      <3>1. ~ \E r \in Starts : apc[r] = "spawn"
        BY <1>1, <2>1 DEF Holding
      <3> QED BY <2>1, <3>1 DEF TrackedIsOpen
    <2>3. HandsHold'
      BY <1>1, <2>1 DEF HandsHold, HostTypeOK, Holding
    <2>4. TrackedIsOpen'
      BY <1>1, <2>1, <2>2 DEF TrackedIsOpen, HostTypeOK, Holding
    <2>5. SlotsConserved'
      <3>1. Occupied(conn, apc, hand)' = Occupied(conn, apc, hand)
        BY <1>1, <2>1 DEF Occupied, HostTypeOK, Holding
      <3> QED BY <1>2, <2>1, <3>1, SlotsStand
    <2>6. StopReachesAll'
      BY <1>0, <2>1, <2>2 DEF StopReachesAll, HostTypeOK
    <2> QED BY <1>2, <1>3, <2>3, <2>4, <2>5, <2>6
  <1>6. CASE AcquireSlot(s) \/ Refuse(s) \/ Track(s) \/ DropLate(s) \/ Spawn(s)
    <2>1. apc[s] \in Holding
      BY <1>6 DEF AcquireSlot, Refuse, Track, DropLate, Spawn, Holding
    <2>2. PICK c \in Conns : hand[s] = {c} /\ conn[c] = "held" /\ born[c] = s
      BY <2>1 DEF HandsHold
    <2>3. \A r \in Starts : r # s => hand[r] = {} /\ hand'[r] = {} /\ apc'[r] = apc[r]
      BY <1>1, <1>6 DEF HandsHold, AcquireSlot, Refuse, Track, DropLate, Spawn, HostTypeOK
    <2>4. \A d \in Conns : d # c => conn'[d] = conn[d]
      BY <1>6, <2>2 DEF AcquireSlot, Refuse, Track, DropLate, Spawn, HostTypeOK
    <2>5. born' = born
      BY <1>6 DEF AcquireSlot, Refuse, Track, DropLate, Spawn
    <2>6. CASE AcquireSlot(s)
      <3>1. /\ UNCHANGED <<tracked, conn, hand>> /\ slots' = slots - 1
            /\ apc[s] = "slot" /\ apc'[s] = "enter"
        BY <2>6 DEF AcquireSlot, HostTypeOK
      <3>2. HandsHold' /\ TrackedIsOpen'
        BY <1>1, <2>2, <2>3, <2>5, <3>1 DEF HandsHold, TrackedIsOpen, Holding
      <3>3. SlotsConserved'
        <4>1. Occupied(conn, apc, hand)' = Occupied(conn, apc, hand) \cup {c}
          BY <2>2, <2>3, <3>1 DEF Occupied
        <4>2. c \notin Occupied(conn, apc, hand)
          BY <2>2, <2>3, <3>1 DEF Occupied
        <4> QED BY <1>2, <3>1, <4>1, <4>2, OccupiedFollow
      <3>4. StopReachesAll'
        BY <1>0, <2>5, <3>1 DEF StopReachesAll
      <3> QED BY <1>2, <1>3, <3>2, <3>3, <3>4
    <2>7. CASE Track(s)
      <3>1. /\ UNCHANGED <<slots, conn, hand>> /\ tracked' = tracked \cup {c} /\ ~stopping
            /\ apc[s] = "enter" /\ apc'[s] = "spawn"
        BY <2>2, <2>7 DEF Track, Admissible, HostTypeOK
      <3>2. HandsHold' /\ TrackedIsOpen'
        BY <1>1, <2>2, <2>3, <2>5, <3>1 DEF HandsHold, TrackedIsOpen, Holding
      <3>3. SlotsConserved'
        <4>1. Occupied(conn, apc, hand)' = Occupied(conn, apc, hand)
          BY <2>2, <2>3, <3>1 DEF Occupied
        <4> QED BY <1>2, <3>1, <4>1, SlotsStand
      <3>4. StopReachesAll'
        BY <1>0, <1>1, <2>2, <2>5, <3>1 DEF StopReachesAll, ControlAgrees, HostTypeOK, Starts,
               NoListener
      <3> QED BY <1>2, <1>3, <3>2, <3>3, <3>4
    <2>8. CASE Refuse(s) \/ DropLate(s) \/ Spawn(s)
      <3>1. hand'[s] = {} /\ apc'[s] = "check" /\ tracked' = tracked
        BY <2>8 DEF Refuse, DropLate, Spawn, HostTypeOK
      <3>2. HandsHold'
        BY <1>1, <2>3, <3>1 DEF HandsHold, Holding
      <3>3. TrackedIsOpen' /\ SlotsConserved'
        <4>1. CASE Refuse(s)
          <5>1. apc[s] = "slot" /\ conn'[c] = "refused" /\ slots' = slots
            BY <2>2, <4>1 DEF Refuse, HostTypeOK
          <5>2. c \notin tracked
            BY <2>2, <2>3, <5>1 DEF TrackedIsOpen
          <5>3. Occupied(conn, apc, hand)' = Occupied(conn, apc, hand)
            BY <2>2, <2>3, <2>4, <3>1, <5>1 DEF Occupied
          <5>4. TrackedIsOpen'
            BY <2>2, <2>3, <2>4, <3>1, <5>1, <5>2 DEF TrackedIsOpen, HostTypeOK
          <5> QED BY <1>2, <5>1, <5>3, <5>4, SlotsStand
        <4>2. CASE DropLate(s)
          <5>1. apc[s] = "enter" /\ conn'[c] = "dropped" /\ slots' = slots + 1
            BY <2>2, <4>2 DEF DropLate, SlotGivenBack, HostTypeOK
          <5>2. c \notin tracked
            BY <2>2, <2>3, <5>1 DEF TrackedIsOpen
          <5>3. Occupied(conn, apc, hand)' = Occupied(conn, apc, hand) \ {c}
            BY <2>2, <2>3, <2>4, <3>1, <5>1 DEF Occupied
          <5>4. c \in Occupied(conn, apc, hand)
            BY <2>2, <5>1 DEF Occupied
          <5>5. TrackedIsOpen'
            BY <2>2, <2>3, <2>4, <3>1, <5>1, <5>2 DEF TrackedIsOpen, HostTypeOK
          <5> QED BY <1>2, <5>1, <5>3, <5>4, <5>5, OccupiedFollow
        <4>3. CASE Spawn(s)
          <5>1. apc[s] = "spawn" /\ conn'[c] = "serving" /\ slots' = slots
            BY <2>2, <4>3 DEF Spawn, HostTypeOK
          <5>2. Occupied(conn, apc, hand)' = Occupied(conn, apc, hand)
            BY <2>2, <2>3, <2>4, <3>1, <5>1 DEF Occupied
          <5>3. TrackedIsOpen'
            BY <2>2, <2>3, <2>4, <3>1, <5>1 DEF TrackedIsOpen, HostTypeOK
          <5> QED BY <1>2, <5>1, <5>2, <5>3, SlotsStand
        <4> QED BY <2>8, <4>1, <4>2, <4>3
      <3>4. StopReachesAll'
        BY <1>0, <2>5, <3>1 DEF StopReachesAll
      <3> QED BY <1>2, <1>3, <3>2, <3>3, <3>4
    <2> QED BY <1>6, <2>6, <2>7, <2>8
  <1> QED BY <1>4, <1>5, <1>6 DEF AcceptStep

-----------------------------------------------------------------------------
(* Handlers and the daemon                                                   *)

\* A handler lets go of its own connection; the daemon opens one that nobody holds.
LEMMA HandlerKeeps ==
  ASSUME HostInv, NEW c \in Conns, HandlerStep(c) \/ Connect(c)
  PROVE  HostInv'
  <1> USE HostAssumption DEF HostInv, serverVars, slotVars, connVars, acceptVars
  <1>0. /\ UNCHANGED <<listener, stopping, shut, born, apc, hand, starts, cpc>>
        /\ tracked' \subseteq tracked /\ conn[c] \notin {"held", "backlog"}
        /\ \A d \in Conns : d # c => conn'[d] = conn[d]
    BY DEF HandlerStep, Serve, Untrack, ReleaseSlot, Connect, HostTypeOK
  <1>1. HostTypeOK'
    BY DEF HandlerStep, Serve, Untrack, ReleaseSlot, Connect, HostTypeOK, ConnStates
  <1>2. ControlAgrees' /\ OneAcceptThread' /\ StopReachesAll'
    BY <1>0 DEF ControlAgrees, OneAcceptThread, StopReachesAll
  <1>3. HandsHold'
    BY <1>0 DEF HandsHold
  <1>4. c \notin UNION {hand[s] : s \in Starts}
    BY <1>0 DEF HandsHold
  <1>5. TrackedIsOpen'
    BY <1>0, <1>4 DEF HandlerStep, Serve, Untrack, ReleaseSlot, Connect, TrackedIsOpen, HostTypeOK
  <1>6. SlotsConserved'
    <2>1. CASE Serve(c) \/ Untrack(c) \/ Connect(c)
      <3>1. Occupied(conn, apc, hand)' = Occupied(conn, apc, hand) /\ slots' = slots
        BY <1>0, <2>1 DEF Serve, Untrack, Connect, Occupied, HostTypeOK
      <3> QED BY <1>1, <3>1, SlotsStand
    <2>2. CASE ReleaseSlot(c)
      <3>1. conn[c] = "left" /\ conn'[c] = "answered" /\ slots' = slots + 1
        BY <2>2 DEF ReleaseSlot, HostTypeOK
      <3>2. /\ Occupied(conn, apc, hand)' = Occupied(conn, apc, hand) \ {c}
            /\ c \in Occupied(conn, apc, hand)
        BY <1>0, <1>4, <3>1 DEF Occupied
      <3> QED BY <1>1, <3>1, <3>2, OccupiedFollow
    <2> QED BY <2>1, <2>2 DEF HandlerStep
  <1> QED BY <1>1, <1>2, <1>3, <1>5, <1>6

-----------------------------------------------------------------------------
\* The inductive invariant holds in every reachable state of the host.
THEOREM HostInvariance == Spec => []HostInv
  <1>1. HostInv /\ [Next]_vars => HostInv'
    <2> SUFFICES ASSUME HostInv, [Next]_vars PROVE HostInv'
      OBVIOUS
    <2>1. CASE Next
      BY <2>1, StartKeeps, StopKeeps, AcceptKeeps, HandlerKeeps DEF Next
    <2>2. CASE UNCHANGED vars
      BY <2>2 DEF vars, serverVars, slotVars, connVars, acceptVars, HostInv, HostTypeOK,
             ControlAgrees, OneAcceptThread, HandsHold, TrackedIsOpen, SlotsConserved,
             SlotHolders, StopReachesAll
    <2> QED BY <2>1, <2>2
  <1> QED BY <1>1, HostStarts, PTL DEF Spec

\* The semaphore of the host is exact on every path and across restarts
\* (_host/server.py: a slot is acquired by the accept thread, released by the handler).
THEOREM SlotsAreConserved == Spec => []SlotsConserved
  BY HostInvariance, PTL DEF HostInv

\* A stop() that has passed its shutdown section has reached every connection of its run.
THEOREM EveryConnectionReached == Spec => []StopReachesAll
  BY HostInvariance, PTL DEF HostInv

\* A restarted host has the accept thread of its own listener only.
THEOREM AcceptThreadIsAlone == Spec => []OneAcceptThread
  BY HostInvariance, PTL DEF HostInv
\* Every reachable state is well typed: the semaphore is never below zero and never
\* above its bound, and no flag or table takes a value the code does not give it.
THEOREM HostTypeCorrect == Spec => []TypeOK
  <1>1. HostInv => TypeOK
    <2> SUFFICES ASSUME HostInv PROVE TypeOK
      OBVIOUS
    <2>1. SlotHolders \subseteq Conns
      BY HoldersOccupy DEF HostInv, Occupied
    <2>2. Cardinality(SlotHolders) \in Nat
      BY <2>1, FS_Subset, FS_CardinalityType, HostAssumption
    <2>3. slots \in 0..MaxActive
      BY <2>2, HostAssumption DEF HostInv, HostTypeOK, SlotsConserved
    <2> QED BY <2>3 DEF HostInv, HostTypeOK, TypeOK
  <1> QED BY <1>1, HostInvariance, PTL

-----------------------------------------------------------------------------
(* stop() and the accept thread                                              *)

\* While stop() joins the accept thread, that thread has begun and does not block in
\* accept(): the join needs no bound of its own (_host/server.py, stop()).
JoinWakes ==
    cpc = "join" => apc[listener] # "none" /\ (apc[listener] = "accept" => ~listening)

\* The listener is open until stop() has closed it, and its accept thread was started.
ListenerAgrees ==
    /\ listener # NoListener => apc[listener] # "none"
    /\ cpc = "join" => ~listening

\* The join of stop() waits for a thread that runs and that accept() lets go (JoinWakes).
THEOREM JoinNeverBlocks == Spec => []JoinWakes
  <1> USE DEF ListenerAgrees, HostInv, serverVars, slotVars, connVars, acceptVars
  <1>1. Init => ListenerAgrees
    BY DEF Init
  <1>2. HostInv /\ ListenerAgrees /\ [Next]_vars => ListenerAgrees'
    <2> SUFFICES ASSUME HostInv, ListenerAgrees, [Next]_vars PROVE ListenerAgrees'
      OBVIOUS
    <2>1. CASE Start
      BY <2>1, HostAssumption DEF Start, At, HostTypeOK, Starts, NoListener
    <2>2. CASE StopBegin \/ StopStep
      BY <2>2 DEF StopBegin, StopStep, StopShutdown, StopClose, ListensOn, StopJoin
    <2>3. ASSUME NEW s \in Starts, AcceptStep(s) \/ AcceptFails(s)
          PROVE  ListenerAgrees'
      <3>1. UNCHANGED <<listener, listening, cpc>>
        BY <2>3 DEF AcceptStep, AcceptCheck, Accept, AcceptClosed, AcceptFails, AcquireSlot, Refuse,
                    Track, DropLate, Spawn
      <3>2. \A r \in Starts : apc[r] # "none" => apc'[r] # "none"
        BY <2>3 DEF AcceptStep, AcceptCheck, Accept, AcceptClosed, AcceptFails, AcquireSlot, Refuse,
                    Track, DropLate, Spawn, At, HostTypeOK
      <3> QED BY <3>1, <3>2 DEF HostTypeOK
    <2>4. ASSUME NEW c \in Conns, HandlerStep(c) \/ Connect(c) PROVE ListenerAgrees'
      BY <2>4 DEF HandlerStep, Serve, Untrack, ReleaseSlot, Connect
    <2>5. CASE UNCHANGED vars
      BY <2>5 DEF vars
    <2> QED BY <2>1, <2>2, <2>3, <2>4, <2>5 DEF Next
  <1>3. HostInv /\ ListenerAgrees => JoinWakes
    BY DEF JoinWakes, ControlAgrees
  <1> QED BY <1>1, <1>2, <1>3, HostInvariance, PTL DEF Spec

-----------------------------------------------------------------------------
(* Refinement                                                                *)

\* The host implements its interface (ServesController): a stop() that has begun
\* ends without a listener, with or without one to close.
THEOREM HostServes == Spec => ServesController
  <1> USE DEF Control!controlVars, serverVars, slotVars, connVars, acceptVars
  <1>1. Init => Control!Init
    BY DEF Init, Control!Init
  <1>2. HostInv /\ [Next]_vars => [Control!Next]_Control!controlVars
    <2> SUFFICES ASSUME HostInv, [Next]_vars PROVE [Control!Next]_Control!controlVars
      OBVIOUS
    <2>1. CASE Start
      BY <2>1 DEF Start, Starts, NoListener, HostInv, HostTypeOK, Control!Next, Control!Open
    <2>2. CASE StopBegin
      BY <2>2 DEF StopBegin, Control!Next, Control!Close
    <2>3. CASE StopStep
      BY <2>3 DEF StopStep, StopShutdown, StopClose, StopJoin, Control!Next, Control!Closed
    <2>4. ASSUME NEW s \in Starts, AcceptStep(s) \/ AcceptFails(s) PROVE UNCHANGED <<listener, cpc>>
      BY <2>4 DEF AcceptStep, AcceptCheck, Accept, AcceptClosed, AcceptFails, AcquireSlot, Refuse,
                  Track, DropLate, Spawn
    <2>5. ASSUME NEW c \in Conns, HandlerStep(c) \/ Connect(c) PROVE UNCHANGED <<listener, cpc>>
      BY <2>5 DEF HandlerStep, Serve, Untrack, ReleaseSlot, Connect
    <2>6. CASE UNCHANGED vars
      BY <2>6 DEF vars
    <2> QED BY <2>1, <2>2, <2>3, <2>4, <2>5, <2>6 DEF Next
  <1> QED BY <1>1, <1>2, HostInvariance, PTL DEF Spec, ServesController, Control!Spec
=============================================================================
