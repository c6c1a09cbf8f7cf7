-------------------------- MODULE HostSessionProofs --------------------------
(***************************************************************************)
(* One invocation, for any number of helper threads, items and input       *)
(* frames: frames are whole, the outcome is last, and the end of the input *)
(* and its gaps are told truly.                                            *)
(***************************************************************************)
EXTENDS HostSession, TLAPS

Concluding == {"write", "half"}

\* One thread at a time sends, and the handler only while its function runs.
OneSender ==
    /\ \A t \in Threads : spc[t] # "idle" =>
         IF mode = "duplex" THEN writer = t /\ Saw("ran") ELSE t = Main
    /\ spc[Main] # "idle" => hpc = "run"

\* The handler answers after its session ended, or before it had one; nothing
\* is written once it has left.
HandlerFollowsSession ==
    /\ session = "terminal" => hpc \in Concluding \cup {"done"}
    /\ hpc \in Concluding => IsOutcome(outcome) /\ (session = "terminal" \/ ~Saw("ran"))
    /\ hpc = "done" => ~up
    /\ hpc \in {"receive", "lookup", "context"} => ~Saw("ran")

\* What is on the socket ends within a frame only while its writer is between
\* its two parts, or when nothing can be written any more.
WireFollowsWriters ==
    Saw("overlap") \/
      /\ hpc \in Concluding => \A t \in Threads : spc[t] \in {"idle", "emit"}
      /\ \A t \in Threads : spc[t] = "half" =>
           wire # <<>> /\ wire[Len(wire)] = [frame |-> Item(item[t]), part |-> 1]
      /\ hpc = "half" => wire # <<>> /\ wire[Len(wire)] = [frame |-> outcome, part |-> 1]
      /\ (up /\ wire # <<>> /\ wire[Len(wire)].part = 1) =>
           hpc = "half" \/ \E t \in Threads : spc[t] = "half"
      /\ \A i \in 1..Len(wire) : IsOutcome(wire[i].frame) =>
           hpc \in {"half", "done"} /\ wire[i].frame = outcome

\* The part of the session that writes.
OutputInv == OneSender /\ HandlerFollowsSession /\ WireFollowsWriters /\ FramesWhole /\ OutcomeLast

\* An item that is counted and not yet on the socket as a whole.
InFlight(t) == spc[t] \in {"write", "half"}

\* The outcome still counts what the session counted.
OutcomeCounts ==
    outcome.kind = "terminal" => session = "terminal" /\ outcome.seq = frames

\* The items on the socket are in order, before the one in flight, and, where a
\* TERMINAL may still follow, all that the session counted.
ItemsCounted ==
    /\ \A t \in Threads : InFlight(t) => item[t] + 1 = frames
    /\ \A j \in Sent : SeqAt(j) < frames
    /\ \A j \in Sent, t \in Threads : InFlight(t) => SeqAt(j) < item[t]
    /\ \A j, k \in Sent : j < k => SeqAt(j) < SeqAt(k)
    /\ (up /\ (session = "open" \/ outcome.kind = "terminal")) =>
         \A k \in 0..(frames - 1) :
             (\E j \in Sent : SeqAt(j) = k) \/ \E t \in Threads : InFlight(t) /\ item[t] = k
    /\ (\E i \in 1..Len(wire) : wire[i].frame.kind = "terminal") =>
         \A k \in 0..(frames - 1) : \E j \in Sent : SeqAt(j) = k

\* The part of the session that counts.
CountInv == OutcomeCounts /\ (Saw("overlap") \/ Saw("oversize") \/ ItemsCounted)

\* One thread at a time has a frame in hand.
OneReader == \A t \in Threads : got[t] # NoFrame => reader = t

\* Frames are numbered as the peer sent them, and nothing follows a half-close.
InputNumbered ==
    /\ \A i \in 1..Len(inflow) :
         /\ inflow[i].kind = "item" => inflow[i].seq < nextIn
         /\ inflow[i].kind = "half_close" =>
              Saw("half_closed") /\ inflow[i].seq = nextIn /\ i = Len(inflow)
    /\ \A t \in Threads :
         /\ got[t].kind = "item" => got[t].seq < nextIn
         /\ got[t].kind = "half_close" =>
              Saw("half_closed") /\ got[t].seq = nextIn /\ inflow = <<>>

\* What was answered is what the sequence counts.
ItemsAnswered == Answered(0..(inSeq - 1))

\* After the half-close that is all.
ClosedAtEnd ==
    inClosed => /\ Saw("half_closed") /\ inSeq = nextIn
                   /\ \A t \in Threads : got[t] = NoFrame

\* The sequence of the next frame to be taken: one item may be in hand.
NextTaken == IF \E t \in Threads : got[t].kind = "item" THEN inSeq + 1 ELSE inSeq

\* Without a fault of the peer no number is missing between the two ends.
InputGapless ==
    ~Saw("faulty") =>
      /\ ~Saw("gap")
      /\ \A t \in Threads : got[t] # NoFrame =>
           got[t].seq = inSeq /\ got[t].kind \in {"item", "half_close"}
      /\ \A i \in 1..Len(inflow) :
           inflow[i].seq = NextTaken + i - 1 /\ inflow[i].kind \in {"item", "half_close"}
      /\ ~Saw("half_closed") => nextIn = NextTaken + Len(inflow)

\* The part of the session that receives.
InputInv == OneReader /\ InputNumbered /\ ItemsAnswered /\ ClosedAtEnd /\ InputGapless

SessionInv == TypeOK /\ OutputInv /\ InputInv

USE SessionAssumption
USE DEF callVars, outVars, sendVars, peerVars, recvVars, Threads, Mark, Saw

-----------------------------------------------------------------------------
(* The input lane *)

InputEvents == {"half_closed", "gap", "faulty"}

\* A step that answers no item.
LEMMA ItemsStand ==
    ASSUME ItemsAnswered, UNCHANGED <<inSeq, delivered, raised>>
    PROVE  ItemsAnswered'
BY DEF ItemsAnswered, Answered

\* A step that neither receives nor sends input keeps the input lane.
LEMMA InputStands ==
    ASSUME InputInv, UNCHANGED <<peerVars, recvVars>>,
           \A e \in InputEvents : e \in seen' <=> e \in seen
    PROVE  InputInv'
BY ItemsStand DEF InputInv, OneReader, InputNumbered, ClosedAtEnd, InputGapless, NextTaken,
   InputEvents

\* The handler and the senders stay off the input lane, and so does a lost connection.
LEMMA OutputLeavesInput ==
    ASSUME InputInv, HandlerStep \/ Drop \/ \E t \in Threads : SendStep(t)
    PROVE  InputInv'
<1>1. UNCHANGED <<peerVars, recvVars>>
  BY DEF HandlerStep, ReceiveBad, Receive, LookupRefused, Lookup, ContextBuilt, ContextRaises,
         FnItem, FnReturns, FnRaises, FnEscapes, ContextCloses, ContextCloseRaises, Finish,
         OutcomeBegin, OutcomeEnd, OutcomeLost, Drop, SendStep, SendBegin, Emit,
         EmitOversize, EmitRefused, WriteBegin, WriteEnd, WriteLost
<1>2. \A e \in InputEvents : e \in seen' <=> e \in seen
  <2> USE DEF InputEvents
  <2>1. CASE HandlerStep
    BY <2>1 DEF HandlerStep, ReceiveBad, Receive, LookupRefused, Lookup, Enter, ContextBuilt,
         ContextRaises, FnItem, FnReturns, FnRaises, FnEscapes, ContextCloses,
         ContextCloseRaises, Finish, OutcomeBegin, OutcomeEnd, OutcomeLost, Conclude, Leave
  <2>2. CASE Drop
    BY <2>2 DEF Drop
  <2>3. ASSUME NEW t \in Threads, SendStep(t)
        PROVE  \A e \in InputEvents : e \in seen' <=> e \in seen
    BY <2>3 DEF SendStep, SendBegin, Emit, EmitOversize, EmitRefused, ItemRaises, Conclude,
         WriteBegin, WriteEnd, WriteLost
  <2>. QED  BY <2>1, <2>2, <2>3
<1>. QED  BY <1>1, <1>2, InputStands

\* The peer numbers what it sends, and sends nothing after its half-close.
LEMMA PeerKeepsInput ==
    ASSUME TypeOK, InputInv, PeerItem \/ PeerOther \/ PeerHalfClose \/ PeerSkip
    PROVE  InputInv'
<1>1. /\ ~Saw("half_closed") /\ UNCHANGED recvVars
      /\ nextIn \in 0..MaxInput /\ nextIn' \in 0..MaxInput /\ nextIn <= nextIn'
      /\ inflow \in Seq(InFrames)
      /\ "gap" \in seen' <=> "gap" \in seen
      /\ seen \subseteq seen'
  BY DEF TypeOK, PeerItem, PeerOther, PeerHalfClose, PeerSkip, PeerSends
<1>2. OneReader' /\ ItemsAnswered' /\ ClosedAtEnd'
  BY <1>1, ItemsStand DEF InputInv, OneReader, ClosedAtEnd
<1>3. CASE PeerSkip
  <2>1. InputNumbered'
    <3>1. /\ \A i \in 1..Len(inflow) : inflow[i].seq \in Int /\ inflow[i].kind # "half_close"
          /\ \A t \in Threads : got[t].seq \in Int /\ got[t].kind # "half_close"
      <4>1. /\ \A i \in 1..Len(inflow) : inflow[i] \in InFrames
            /\ \A t \in Threads : got[t] \in InFrames
        BY <1>1 DEF TypeOK
      <4>2. /\ \A i \in 1..Len(inflow) : inflow[i].kind # "half_close"
            /\ \A t \in Threads : got[t].kind # "half_close"
        BY <1>1 DEF InputInv, InputNumbered
      <4>. QED  BY <4>1, <4>2 DEF InFrames
    <3>. QED  BY <1>1, <1>3, <3>1 DEF PeerSkip, InputInv, InputNumbered
  <2>2. InputGapless'
    BY <1>3 DEF PeerSkip, InputGapless
  <2>. QED  BY <1>2, <2>1, <2>2 DEF InputInv
<1>4. ASSUME NEW kind \in {"item", "other", "half_close"},
             inflow' = Append(inflow, [kind |-> kind, seq |-> nextIn]),
             nextIn' = IF kind = "half_close" THEN nextIn ELSE nextIn + 1,
             kind = "half_close" => "half_closed" \in seen',
             kind = "other" => "faulty" \in seen',
             "half_closed" \in seen' => kind = "half_close",
             "faulty" \in seen => "faulty" \in seen'
      PROVE  InputNumbered' /\ InputGapless'
  <2>1. /\ Len(inflow') = Len(inflow) + 1 /\ Len(inflow) \in Nat
        /\ \A i \in 1..Len(inflow) : inflow'[i] = inflow[i]
        /\ inflow'[Len(inflow) + 1] = [kind |-> kind, seq |-> nextIn]
    BY <1>1, <1>4 DEF InFrames
  <2>2. \A i \in 1..Len(inflow) : inflow[i] \in InFrames /\ inflow[i].kind # "half_close"
    BY <1>1 DEF InputInv, InputNumbered
  <2>3. InputNumbered'
    <3>1. /\ \A i \in 1..Len(inflow) : inflow[i].seq \in Int /\ inflow[i].kind # "half_close"
          /\ \A i \in 1..Len(inflow) : inflow[i].kind = "item" => inflow[i].seq < nextIn
      BY <1>1, <2>2 DEF InputInv, InputNumbered, InFrames
    <3>2. \A t \in Threads : /\ got[t].seq \in Int /\ got[t].kind # "half_close"
                             /\ got[t].kind = "item" => got[t].seq < nextIn
      <4>1. \A t \in Threads : got[t] \in InFrames
        BY DEF TypeOK
      <4>. QED  BY <1>1, <4>1 DEF InputInv, InputNumbered, InFrames
    <3>3. \A i \in 1..Len(inflow') :
            /\ inflow'[i].kind = "item" => inflow'[i].seq < nextIn'
            /\ inflow'[i].kind = "half_close" =>
                 Saw("half_closed")' /\ inflow'[i].seq = nextIn' /\ i = Len(inflow')
      <4> SUFFICES ASSUME NEW i \in 1..Len(inflow')
                   PROVE  /\ inflow'[i].kind = "item" => inflow'[i].seq < nextIn'
                          /\ inflow'[i].kind = "half_close" =>
                               Saw("half_closed")' /\ inflow'[i].seq = nextIn' /\ i = Len(inflow')
        OBVIOUS
      <4>1. CASE i \in 1..Len(inflow)
        BY <1>1, <2>1, <3>1, <4>1
      <4>2. CASE i = Len(inflow) + 1
        BY <1>1, <1>4, <2>1, <4>2
      <4>. QED  BY <2>1, <4>1, <4>2
    <3>. QED  BY <1>1, <3>2, <3>3 DEF InputNumbered
  <2>4. InputGapless'
    <3>1. NextTaken' = NextTaken /\ NextTaken \in Nat
      BY <1>1 DEF NextTaken, TypeOK
    <3>. QED  BY <1>1, <1>4, <2>1, <3>1 DEF InputInv, InputGapless
  <2>. QED  BY <2>3, <2>4
<1>5. CASE PeerItem
  BY <1>1, <1>2, <1>4, <1>5 DEF PeerItem, PeerSends, InputInv
<1>6. CASE PeerOther
  BY <1>1, <1>2, <1>4, <1>6 DEF PeerOther, PeerSends, InputInv
<1>7. CASE PeerHalfClose
  BY <1>1, <1>2, <1>4, <1>7 DEF PeerHalfClose, PeerSends, InputInv
<1>. QED  BY <1>3, <1>5, <1>6, <1>7

\* A receiver takes the next frame, under the lock.
LEMMA TakeKeepsInput ==
    ASSUME TypeOK, InputInv, NEW t \in Threads, RecvTake(t)
    PROVE  InputInv'
<1>1. /\ \A u \in Threads : got[u] = NoFrame
      /\ ~inClosed /\ inflow # <<>> /\ reader' = t
      /\ UNCHANGED <<nextIn, inSeq, inClosed, delivered, raised, seen>>
  BY DEF RecvTake, ReaderFree, InputInv, OneReader, TypeOK
<1>2. /\ Len(inflow) \in Nat \ {0} /\ inflow[1] \in InFrames
      /\ Len(inflow') = Len(inflow) - 1
      /\ \A i \in 1..Len(inflow') : inflow'[i] = inflow[i + 1]
      /\ \A i \in 1..Len(inflow) : inflow[i] \in InFrames
  BY <1>1 DEF RecvTake, TypeOK
<1>3. \A u \in Threads : got'[u] = IF u = t THEN inflow[1] ELSE NoFrame
  BY <1>1 DEF RecvTake, TypeOK
<1>4. OneReader' /\ ItemsAnswered' /\ ClosedAtEnd'
  BY <1>1, <1>3, ItemsStand DEF InputInv, OneReader, ClosedAtEnd
<1>5. InputNumbered'
  <2>1. inflow[1].kind = "half_close" => inflow' = <<>>
    <3>1. inflow' \in Seq(InFrames)
      BY <1>1 DEF RecvTake, TypeOK
    <3>2. inflow[1].kind = "half_close" => Len(inflow') = 0
      BY <1>2 DEF InputInv, InputNumbered
    <3>. QED  BY <3>1, <3>2
  <2>. QED  BY <1>1, <1>2, <1>3, <2>1 DEF InputInv, InputNumbered, NoFrame
<1>6. InputGapless'
  <2>1. NextTaken = inSeq /\ inSeq \in Nat
    BY <1>1 DEF NextTaken, NoFrame, TypeOK
  <2>2. NextTaken' = IF inflow[1].kind = "item" THEN inSeq + 1 ELSE inSeq
    BY <1>1, <1>3 DEF NextTaken, NoFrame
  <2>3. inflow[1].kind = "half_close" => Saw("half_closed") /\ Len(inflow) = 1
    BY <1>2 DEF InputInv, InputNumbered
  <2> SUFFICES ASSUME ~Saw("faulty") PROVE InputGapless'
    BY <1>1 DEF InputGapless
  <2>4. /\ ~Saw("gap")
        /\ \A i \in 1..Len(inflow) :
             inflow[i].seq = inSeq + i - 1 /\ inflow[i].kind \in {"item", "half_close"}
        /\ ~Saw("half_closed") => nextIn = inSeq + Len(inflow)
    BY <2>1 DEF InputInv, InputGapless
  <2>5. inflow[1].seq = inSeq /\ inflow[1].kind \in {"item", "half_close"}
    BY <1>2, <2>1, <2>4
  <2>6. CASE inflow[1].kind = "half_close"
    <3>0. Saw("half_closed") /\ Len(inflow) = 1
      BY <2>3, <2>6
    <3>1. Len(inflow') = 0
      BY <1>2, <3>0
    <3>. QED  BY <1>1, <1>3, <2>4, <2>5, <2>6, <3>0, <3>1 DEF InputGapless
  <2>7. CASE inflow[1].kind = "item"
    <3>1. NextTaken' = inSeq + 1
      BY <2>2, <2>7
    <3>2. \A i \in 1..Len(inflow') :
             inflow'[i].seq = NextTaken' + i - 1 /\ inflow'[i].kind \in {"item", "half_close"}
      <4> SUFFICES ASSUME NEW i \in 1..Len(inflow')
                   PROVE  inflow'[i].seq = NextTaken' + i - 1
                          /\ inflow'[i].kind \in {"item", "half_close"}
        OBVIOUS
      <4>1. i + 1 \in 1..Len(inflow) /\ inflow'[i] = inflow[i + 1]
        BY <1>2
      <4>. QED  BY <2>1, <2>4, <3>1, <4>1
    <3>3. ~Saw("half_closed") => nextIn' = NextTaken' + Len(inflow')
      BY <1>1, <1>2, <2>1, <2>4, <3>1
    <3>. QED  BY <1>1, <1>3, <2>4, <2>5, <3>2, <3>3 DEF InputGapless
  <2>. QED  BY <2>5, <2>6, <2>7
<1>. QED  BY <1>4, <1>5, <1>6 DEF InputInv

\* It lets go of the lock with the frame delivered, the input closed, or an error.
LEMMA ReceiveKeepsInput ==
    ASSUME TypeOK, InputInv, NEW t \in Threads,
           RecvGap(t) \/ RecvHalfClose(t) \/ RecvOther(t) \/ RecvItem(t) \/ RecvUndecodable(t)
    PROVE  InputInv'
<1>1. /\ got[t] # NoFrame /\ got[t] \in InFrames /\ ~inClosed
      /\ UNCHANGED <<inflow, nextIn>>
      /\ \A u \in Threads : got'[u] = NoFrame
      /\ \A u \in Threads : u # t => got[u] = NoFrame
      /\ inflow \in Seq(InFrames)
  <2>1. /\ got[t] # NoFrame /\ UNCHANGED <<inflow, nextIn>>
        /\ got' = [got EXCEPT ![t] = NoFrame]
    BY DEF RecvGap, RecvHalfClose, RecvOther, RecvItem, RecvUndecodable, CountItem, EndRecv,
           NoFrame
  <2>2. /\ got \in [Threads -> InFrames] /\ inflow \in Seq(InFrames)
        /\ \A u \in Threads : u # t => got[u] = NoFrame
    BY <2>1 DEF InputInv, OneReader, TypeOK
  <2>. QED  BY <2>1, <2>2 DEF InputInv, ClosedAtEnd
<1>2. InputNumbered' /\ OneReader'
  BY <1>1 DEF InputInv, InputNumbered, OneReader, NoFrame,
              RecvGap, RecvHalfClose, RecvOther, RecvItem, RecvUndecodable, CountItem
<1>3. NextTaken' = inSeq' /\ inSeq \in Nat
      /\ NextTaken = IF got[t].kind = "item" THEN inSeq + 1 ELSE inSeq
  <2>1. inSeq \in Nat /\ NextTaken' = inSeq'
    <3>1. ~ \E u \in Threads : got'[u].kind = "item"
      BY <1>1 DEF NoFrame
    <3>. QED  BY <3>1 DEF NextTaken, TypeOK
  <2>2. (\E u \in Threads : got[u].kind = "item") <=> got[t].kind = "item"
    BY <1>1 DEF NoFrame
  <2>. QED  BY <2>1, <2>2 DEF NextTaken
<1>4. ItemsAnswered' /\ ClosedAtEnd'
  <2>1. CASE RecvItem(t)
    <3>1. /\ delivered' = Append(delivered, inSeq) /\ inSeq' = inSeq + 1
          /\ UNCHANGED <<inClosed, raised>>
      BY <2>1 DEF RecvItem, CountItem, SequenceFits
    <3>2. Answered(0..(inSeq - 1)) /\ delivered \in Seq(0..MaxInput)
      BY DEF InputInv, ItemsAnswered, TypeOK
    <3>3. /\ Len(delivered') = Len(delivered) + 1 /\ Len(delivered) \in Nat
          /\ \A i \in 1..Len(delivered) :
               delivered'[i] = delivered[i] /\ delivered[i] \in 0..(inSeq - 1)
          /\ delivered'[Len(delivered) + 1] = inSeq
      BY <1>3, <3>1, <3>2 DEF Answered
    <3>4. \A i, j \in 1..Len(delivered') : i < j => delivered'[i] < delivered'[j]
      <4>1. SUFFICES ASSUME NEW i \in 1..Len(delivered'), NEW j \in 1..Len(delivered'), i < j
                     PROVE  delivered'[i] < delivered'[j]
        OBVIOUS
      <4>2. i \in 1..Len(delivered) /\ delivered'[i] \in 0..(inSeq - 1)
            /\ delivered'[i] = delivered[i]
        BY <3>3, <4>1
      <4>3. CASE j \in 1..Len(delivered)
        <5>1. delivered[i] < delivered[j]
          BY <3>2, <4>1, <4>2, <4>3 DEF Answered
        <5>. QED  BY <3>3, <4>2, <4>3, <5>1
      <4>4. CASE j = Len(delivered) + 1
        BY <1>3, <3>3, <4>2, <4>4
      <4>. QED  BY <3>3, <4>3, <4>4
    <3>5. {delivered'[i] : i \in 1..Len(delivered')}
              = {delivered[i] : i \in 1..Len(delivered)} \cup {inSeq}
      BY <3>3
    <3>6. /\ {delivered'[i] : i \in 1..Len(delivered')} = (0..inSeq) \ raised
          /\ raised \subseteq 0..inSeq
      <4>1. {delivered[i] : i \in 1..Len(delivered)} = (0..(inSeq - 1)) \ raised
            /\ raised \subseteq 0..(inSeq - 1)
        BY <3>2 DEF Answered
      <4>2. 0..inSeq = (0..(inSeq - 1)) \cup {inSeq} /\ inSeq \notin 0..(inSeq - 1)
        BY <1>3
      <4>3. inSeq \notin raised
        BY <4>1, <4>2
      <4>. QED  BY <3>5, <4>1, <4>2, <4>3
    <3>. QED  BY <1>1, <1>3, <3>1, <3>4, <3>6 DEF ItemsAnswered, ClosedAtEnd, Answered
  <2>4. CASE RecvUndecodable(t)
    <3>1. /\ raised' = raised \cup {inSeq} /\ inSeq' = inSeq + 1
          /\ UNCHANGED <<inClosed, delivered>>
      BY <2>4 DEF RecvUndecodable, CountItem, SequenceFits
    <3>2. Answered(0..(inSeq - 1))
      BY DEF InputInv, ItemsAnswered
    <3>3. (0..inSeq) \ raised' = (0..(inSeq - 1)) \ raised /\ raised' \subseteq 0..inSeq
      BY <1>3, <3>1, <3>2 DEF Answered
    <3>. QED  BY <1>1, <1>3, <3>1, <3>2, <3>3 DEF ItemsAnswered, ClosedAtEnd, Answered
  <2>2. CASE RecvHalfClose(t)
    BY <1>1, <2>2, ItemsStand DEF RecvHalfClose, SequenceFits, InputInv, InputNumbered, ClosedAtEnd
  <2>3. CASE RecvGap(t) \/ RecvOther(t)
    BY <1>1, <2>3, ItemsStand DEF RecvGap, RecvOther, InputInv, ClosedAtEnd
  <2>. QED  BY <2>1, <2>2, <2>3, <2>4
<1>5. InputGapless'
  <2>1. CASE RecvGap(t)
    BY <1>1, <2>1 DEF RecvGap, SequenceFits, InputInv, InputGapless
  <2>2. CASE RecvOther(t)
    BY <1>1, <2>2 DEF RecvOther, InputInv, InputGapless
  <2>3. CASE RecvHalfClose(t)
    BY <1>1, <1>3, <2>3 DEF RecvHalfClose, InputInv, InputGapless, NoFrame
  <2>4. CASE RecvItem(t) \/ RecvUndecodable(t)
    BY <1>1, <1>3, <2>4 DEF RecvItem, RecvUndecodable, CountItem, InputInv, InputGapless, NoFrame
  <2>. QED  BY <2>1, <2>2, <2>3, <2>4
<1>. QED  BY <1>2, <1>4, <1>5 DEF InputInv

-----------------------------------------------------------------------------
(* The output lane *)

\* Two threads never send at a time.
LEMMA SenderAlone ==
    ASSUME OneSender, NEW t \in Threads, NEW u \in Threads, spc[t] # "idle", spc[u] # "idle"
    PROVE  t = u
BY DEF OneSender

\* Where the session is when a thread sends.
LEMMA SenderRuns ==
    ASSUME OneSender, HandlerFollowsSession, NEW t \in Threads, spc[t] # "idle"
    PROVE  /\ mode = "duplex" \/ (t = Main /\ hpc = "run")
           /\ hpc \in Concluding => session = "terminal"
BY DEF OneSender, HandlerFollowsSession, Concluding

\* What a part that is put on the socket changes there.
LEMMA PutPart ==
    ASSUME TypeOK, NEW frame \in OutFrames, NEW part \in {1, 2}, Put(frame, part)
    PROVE  /\ wire' \in Seq(Parts) /\ Len(wire') = Len(wire) + 1 /\ Len(wire) \in Nat
           /\ wire' # <<>>
           /\ \A i \in 1..Len(wire) : wire'[i] = wire[i] /\ wire[i] \in Parts
           /\ wire'[Len(wire')] = [frame |-> frame, part |-> part]
           /\ wire # <<>> => Len(wire) \in 1..Len(wire)
<1>1. [frame |-> frame, part |-> part] \in Parts /\ wire \in Seq(Parts)
  BY DEF TypeOK, Parts
<1>. HIDE DEF Parts
<1>. QED  BY <1>1 DEF Put

\* The socket ends with a first or a second part.
LEMMA LastPart ==
    ASSUME TypeOK, wire # <<>>
    PROVE  wire[Len(wire)].part \in {1, 2}
<1>1. wire \in Seq(Parts)
  BY DEF TypeOK
<1>. HIDE DEF Parts
<1>2. wire[Len(wire)] \in Parts
  BY <1>1
<1>. QED  BY <1>2 DEF Parts

\* The first part of a frame follows a whole frame, and no outcome.
LEMMA FirstPart ==
    ASSUME TypeOK, FramesWhole, OutcomeLast, ~Saw("overlap"), NEW frame \in OutFrames,
           Put(frame, 1), wire # <<>> => wire[Len(wire)].part = 2,
           \A i \in 1..Len(wire) : ~IsOutcome(wire[i].frame)
    PROVE  FramesWhole' /\ OutcomeLast'
<1> DEFINE n == Len(wire)
<1>1. /\ Len(wire') = n + 1 /\ n \in Nat
      /\ \A i \in 1..n : wire'[i] = wire[i] /\ wire[i] \in Parts
      /\ wire'[n + 1] = [frame |-> frame, part |-> 1]
      /\ wire # <<>> => n \in 1..n
  BY PutPart
<1>2. \A i \in 1..n : n \in 1..n /\ wire[n].part = 2
  <2> SUFFICES ASSUME NEW i \in 1..n PROVE n \in 1..n /\ wire[n].part = 2
    OBVIOUS
  <2>1. wire # <<>>
    BY <1>1
  <2>. QED  BY <1>1, <2>1
<1>3. /\ \A i \in 1..n : wire[i].part = 1 /\ i < n => wire[i + 1] = [wire[i] EXCEPT !.part = 2]
      /\ \A i \in 1..n : wire[i].part = 2 => i > 1 /\ wire[i - 1] = [wire[i] EXCEPT !.part = 1]
  BY DEF FramesWhole
<1>. HIDE DEF n
<1>4. FramesWhole'
  <2> SUFFICES ASSUME NEW i \in 1..(n + 1)
               PROVE  /\ wire'[i].part = 1 /\ i < n + 1 =>
                           wire'[i + 1] = [wire'[i] EXCEPT !.part = 2]
                      /\ wire'[i].part = 2 =>
                           i > 1 /\ wire'[i - 1] = [wire'[i] EXCEPT !.part = 1]
    BY <1>1 DEF FramesWhole
  <2>1. CASE i = n + 1
    BY <1>1, <2>1
  <2>2. CASE i \in 1..n /\ i = n
    BY <1>1, <1>2, <1>3, <2>2
  <2>3. CASE i \in 1..n /\ i # n
    <3>1. /\ i + 1 \in 1..n /\ wire'[i] = wire[i] /\ wire'[i + 1] = wire[i + 1]
          /\ i > 1 => wire'[i - 1] = wire[i - 1]
      BY <1>1, <2>3
    <3>2. /\ wire[i].part = 1 => wire[i + 1] = [wire[i] EXCEPT !.part = 2]
          /\ wire[i].part = 2 => i > 1 /\ wire[i - 1] = [wire[i] EXCEPT !.part = 1]
      <4>1. i \in 1..n /\ i < n
        BY <1>1, <2>3
      <4>. QED  BY <1>3, <4>1
    <3>. QED  BY <3>1, <3>2
  <2>. QED  BY <1>1, <2>1, <2>2, <2>3
<1>5. OutcomeLast'
  <2> SUFFICES ASSUME NEW i \in 1..(n + 1), NEW j \in 1..(n + 1), i < j
               PROVE  ~IsOutcome(wire'[i].frame)
    BY <1>1 DEF OutcomeLast
  <2>1. i \in 1..n
    BY <1>1
  <2>. QED  BY <1>1, <2>1 DEF n
<1>. QED  BY <1>4, <1>5

\* The second part completes the frame that the socket ends with.
LEMMA SecondPart ==
    ASSUME TypeOK, FramesWhole, OutcomeLast, ~Saw("overlap"), NEW frame \in OutFrames,
           Put(frame, 2), wire # <<>>, wire[Len(wire)] = [frame |-> frame, part |-> 1],
           \A i \in 1..Len(wire) : IsOutcome(wire[i].frame) => wire[i].frame = frame
    PROVE  FramesWhole' /\ OutcomeLast'
<1> DEFINE n == Len(wire)
<1>1. /\ Len(wire') = n + 1 /\ n \in Nat /\ n \in 1..n
      /\ \A i \in 1..n : wire'[i] = wire[i] /\ wire[i] \in Parts
      /\ wire'[n + 1] = [frame |-> frame, part |-> 2]
      /\ wire[n] = [frame |-> frame, part |-> 1]
  BY PutPart
<1>2. /\ \A i \in 1..n : wire[i].part = 1 /\ i < n => wire[i + 1] = [wire[i] EXCEPT !.part = 2]
      /\ \A i \in 1..n : wire[i].part = 2 => i > 1 /\ wire[i - 1] = [wire[i] EXCEPT !.part = 1]
      /\ \A i, j \in 1..n : i < j /\ IsOutcome(wire[i].frame) => wire[j].frame = wire[i].frame
      /\ \A i \in 1..n : IsOutcome(wire[i].frame) => wire[i].frame = frame
  BY DEF FramesWhole, OutcomeLast
<1>. HIDE DEF n
<1>3. FramesWhole'
  <2> SUFFICES ASSUME NEW i \in 1..(n + 1)
               PROVE  /\ wire'[i].part = 1 /\ i < n + 1 =>
                           wire'[i + 1] = [wire'[i] EXCEPT !.part = 2]
                      /\ wire'[i].part = 2 =>
                           i > 1 /\ wire'[i - 1] = [wire'[i] EXCEPT !.part = 1]
    BY <1>1 DEF FramesWhole
  <2>1. CASE i = n + 1
    BY <1>1, <2>1
  <2>2. CASE i \in 1..n /\ i = n
    BY <1>1, <2>2
  <2>3. CASE i \in 1..n /\ i # n
    <3>1. /\ i + 1 \in 1..n /\ wire'[i] = wire[i] /\ wire'[i + 1] = wire[i + 1]
          /\ i > 1 => wire'[i - 1] = wire[i - 1]
      BY <1>1, <2>3
    <3>2. /\ wire[i].part = 1 => wire[i + 1] = [wire[i] EXCEPT !.part = 2]
          /\ wire[i].part = 2 => i > 1 /\ wire[i - 1] = [wire[i] EXCEPT !.part = 1]
      <4>1. i \in 1..n /\ i < n
        BY <1>1, <2>3
      <4>. QED  BY <1>2, <4>1
    <3>. QED  BY <3>1, <3>2
  <2>. QED  BY <1>1, <2>1, <2>2, <2>3
<1>4. OutcomeLast'
  <2> SUFFICES ASSUME NEW i \in 1..(n + 1), NEW j \in 1..(n + 1), i < j,
                      IsOutcome(wire'[i].frame)
               PROVE  wire'[j].frame = wire'[i].frame
    BY <1>1 DEF OutcomeLast
  <2>1. i \in 1..n /\ wire'[i].frame = wire[i].frame /\ IsOutcome(wire[i].frame)
    BY <1>1
  <2>2. CASE j = n + 1
    BY <1>1, <1>2, <2>1, <2>2
  <2>3. CASE j \in 1..n
    BY <1>1, <1>2, <2>1, <2>3
  <2>. QED  BY <1>1, <2>2, <2>3
<1>. QED  BY <1>3, <1>4

\* A step that writes nothing keeps what the socket holds.
LEMMA WireStands ==
    ASSUME FramesWhole, OutcomeLast, UNCHANGED wire, Saw("overlap") => Saw("overlap")'
    PROVE  FramesWhole' /\ OutcomeLast'
BY DEF FramesWhole, OutcomeLast

\* A receiver and the peer stay off the output lane; a lost connection ends it.
LEMMA InputLeavesOutput ==
    ASSUME OutputInv, PeerStep \/ \E t \in Threads : RecvStep(t)
    PROVE  OutputInv'
<1>1. /\ UNCHANGED <<mode, hpc, outVars, sendVars>> /\ (up' => up)
      /\ Saw("overlap")' <=> Saw("overlap")
      /\ Saw("ran")' <=> Saw("ran")
  BY DEF PeerStep, PeerItem, PeerOther, PeerHalfClose, PeerSkip, PeerSends, Drop,
         RecvStep, RecvTake, RecvGap, RecvHalfClose, RecvOther, RecvItem, RecvUndecodable,
         CountItem, EndRecv
<1>2. OneSender' /\ HandlerFollowsSession'
  BY <1>1 DEF OutputInv, OneSender, HandlerFollowsSession
<1>3. WireFollowsWriters'
  BY <1>1 DEF OutputInv, WireFollowsWriters
<1>. QED  BY <1>1, <1>2, <1>3, WireStands DEF OutputInv

\* The handler ends its session while nobody sends, or marks the overlap.
LEMMA ConcludeKeepsOutput ==
    ASSUME TypeOK, OutputInv, NEW kind \in {"terminal", "error"}, NEW count,
           Conclude(kind, count), UNCHANGED <<mode, wire, up>>,
           hpc \notin Concluding \cup {"done"},
           \/ UNCHANGED sendVars
           \/ \E t \in Threads : spc[t] # "half" /\ EndSend(t)
           \/ \E t \in Threads : ~up /\ EndSend(t),
           spc'[Main] = "idle"
    PROVE  OutputInv'
<1>1. /\ hpc' = "write" /\ session' = "terminal" /\ IsOutcome(outcome')
      /\ seen' = seen \cup (IF \E t \in Helpers : spc[t] # "idle" THEN {"overlap"} ELSE {})
  BY DEF Conclude, IsOutcome
<1>2. \A t \in Threads : /\ spc'[t] \in {spc[t], "idle"}
                         /\ mode = "duplex" /\ spc'[t] # "idle" => writer' = writer
  <2>1. CASE UNCHANGED sendVars
    BY <2>1
  <2>2. ASSUME NEW u \in Threads, EndSend(u)
        PROVE  \A t \in Threads : /\ spc'[t] \in {spc[t], "idle"}
                                  /\ mode = "duplex" /\ spc'[t] # "idle" => writer' = writer
    <3>1. \A t \in Threads : spc'[t] = IF t = u THEN "idle" ELSE spc[t]
      BY <2>2 DEF EndSend, Step, TypeOK
    <3>2. writer' = IF writer = u THEN Nobody ELSE writer
      BY <2>2 DEF EndSend
    <3>. QED  BY <3>1, <3>2 DEF OutputInv, OneSender
  <2>. QED  BY <2>1, <2>2
<1>3. OneSender'
  BY <1>1, <1>2 DEF OutputInv, OneSender
<1>4. HandlerFollowsSession'
  BY <1>1 DEF HandlerFollowsSession, Concluding
<1>5. WireFollowsWriters'
  <2> SUFFICES ASSUME ~Saw("overlap")' PROVE WireFollowsWriters'
    BY DEF WireFollowsWriters
  <2>1. ~Saw("overlap") /\ \A t \in Helpers : spc[t] = "idle"
    BY <1>1
  <2>2. \A t \in Threads : spc'[t] = "idle"
    BY <1>2, <2>1
  <2>3. ~(up /\ wire # <<>> /\ wire[Len(wire)].part = 1)
    <3>1. ASSUME up, spc[Main] = "half" PROVE FALSE
      <4>1. \A u \in Threads : EndSend(u) => spc'[Main] = IF u = Main THEN "idle" ELSE "half"
        BY <3>1 DEF EndSend, Step, TypeOK
      <4>. QED  BY <3>1, <4>1
    <3>2. (up /\ wire # <<>> /\ wire[Len(wire)].part = 1) => \E t \in Threads : spc[t] = "half"
      BY <2>1 DEF OutputInv, WireFollowsWriters, Concluding
    <3>. QED  BY <2>1, <3>1, <3>2
  <2>4. \A j \in 1..Len(wire) : ~IsOutcome(wire[j].frame)
    BY <2>1 DEF OutputInv, WireFollowsWriters, Concluding
  <2>. QED  BY <1>1, <2>2, <2>3, <2>4 DEF WireFollowsWriters
<1>. QED  BY <1>1, <1>3, <1>4, <1>5, WireStands DEF OutputInv

\* The handler leaves and closes the socket.
LEMMA LeaveKeepsOutput ==
    ASSUME OutputInv, NEW events \in SUBSET {"fault"}, Leave(events),
           UNCHANGED <<mode, outVars, sendVars>>, spc[Main] = "idle"
    PROVE  OutputInv'
<1>1. /\ hpc' = "done" /\ ~up' /\ (Saw("ran")' <=> Saw("ran"))
      /\ Saw("overlap")' <=> Saw("overlap")
  BY DEF Leave
<1>2. OneSender' /\ HandlerFollowsSession'
  BY <1>1 DEF OutputInv, OneSender, HandlerFollowsSession, Concluding
<1>3. WireFollowsWriters'
  BY <1>1 DEF OutputInv, WireFollowsWriters, Concluding
<1>. QED  BY <1>1, <1>2, <1>3, WireStands DEF OutputInv

\* Every step of the handler keeps the output lane.
LEMMA HandlerKeepsOutput ==
    ASSUME TypeOK, OutputInv, HandlerStep
    PROVE  OutputInv'
<1>1. hpc # "run" => spc[Main] = "idle"
  BY DEF OutputInv, OneSender
<1>2. CASE ReceiveBad
  <2>1. \A t \in Threads : spc[t] = "idle"
    BY <1>2 DEF ReceiveBad, OutputInv, OneSender, HandlerFollowsSession
  <2>2. /\ hpc = "receive" /\ hpc' = "write" /\ IsOutcome(outcome') /\ ~Saw("ran")
        /\ UNCHANGED <<mode, session, wire, up, sendVars, seen>>
    BY <1>2 DEF ReceiveBad, IsOutcome, OutputInv, HandlerFollowsSession
  <2>3. OneSender' /\ HandlerFollowsSession'
    BY <2>1, <2>2 DEF OutputInv, OneSender, HandlerFollowsSession, Concluding
  <2>4. WireFollowsWriters'
    BY <2>1, <2>2 DEF OutputInv, WireFollowsWriters, Concluding
  <2>. QED  BY <2>2, <2>3, <2>4, WireStands DEF OutputInv
<1>3. CASE LookupRefused \/ FnRaises \/ Finish
  <2>1. PICK kind \in {"terminal", "error"} :
          Conclude(kind, frames) /\ UNCHANGED <<mode, wire, up, sendVars>>
          /\ hpc \notin Concluding \cup {"done"} /\ spc[Main] = "idle"
    BY <1>1, <1>3 DEF LookupRefused, FnRaises, Finish, Unfinished, InFunction, Concluding
  <2>. QED  BY <2>1, ConcludeKeepsOutput
<1>4. CASE ContextRaises \/ FnEscapes \/ ContextCloseRaises \/ OutcomeLost
  <2>1. PICK events \in SUBSET {"fault"} :
          Leave(events) /\ UNCHANGED <<mode, outVars, sendVars>> /\ spc[Main] = "idle"
    BY <1>1, <1>4 DEF ContextRaises, FnEscapes, ContextCloseRaises, OutcomeLost,
                      Unfinished, InFunction
  <2>. QED  BY <2>1, LeaveKeepsOutput
<1>5. CASE Receive \/ Lookup \/ ContextBuilt \/ FnReturns \/ ContextCloses
  <2>1. /\ UNCHANGED <<mode, outVars, up, sendVars>>
        /\ hpc \notin Concluding \cup {"done"} /\ hpc' \notin Concluding \cup {"done"}
        /\ hpc' \in {"receive", "lookup", "context"} => ~Saw("ran")'
        /\ Saw("ran") => Saw("ran")'
        /\ Saw("overlap")' <=> Saw("overlap")
        /\ spc[Main] = "idle"
    BY <1>1, <1>5 DEF Receive, Lookup, Enter, ContextBuilt, FnReturns, InFunction,
                      ContextCloses, OutputInv, HandlerFollowsSession, Concluding
  <2>2. OneSender' /\ HandlerFollowsSession'
    BY <2>1 DEF OutputInv, OneSender, HandlerFollowsSession, Concluding
  <2>3. WireFollowsWriters'
    BY <2>1 DEF OutputInv, WireFollowsWriters, Concluding
  <2>. QED  BY <2>1, <2>2, <2>3, WireStands DEF OutputInv
<1>6. CASE FnItem
  <2>1. /\ UNCHANGED <<mode, hpc, outVars, up, writer, seen>>
        /\ hpc = "run" /\ mode # "duplex" /\ spc[Main] = "idle"
        /\ \A t \in Threads : spc'[t] = IF t = Main THEN "emit" ELSE spc[t]
    BY <1>6 DEF FnItem, Unfinished, InFunction, Step, TypeOK
  <2>2. OneSender' /\ HandlerFollowsSession'
    BY <2>1 DEF OutputInv, OneSender, HandlerFollowsSession
  <2>3. WireFollowsWriters'
    BY <1>6, <2>1 DEF FnItem, OutputInv, WireFollowsWriters, Concluding
  <2>. QED  BY <2>1, <2>2, <2>3, WireStands DEF OutputInv
<1>7. CASE OutcomeBegin \/ OutcomeEnd
  <2>1. /\ hpc \in Concluding /\ up /\ UNCHANGED <<mode, session, outcome, sendVars>>
        /\ UNCHANGED seen
        /\ IsOutcome(outcome) /\ outcome \in OutFrames /\ hpc # "run"
        /\ OutcomeBegin => hpc = "write" /\ hpc' = "half" /\ Put(outcome, 1)
        /\ OutcomeEnd => hpc = "half" /\ hpc' = "done" /\ Put(outcome, 2) /\ ~up'
    BY <1>7 DEF OutcomeBegin, OutcomeEnd, Leave, Concluding, OutputInv,
                HandlerFollowsSession, TypeOK
  <2>2. OneSender' /\ HandlerFollowsSession'
    BY <1>1, <1>7, <2>1 DEF OutputInv, OneSender, HandlerFollowsSession, Concluding
  <2>3. CASE Saw("overlap")
    BY <2>1, <2>2, <2>3 DEF OutputInv, WireFollowsWriters, FramesWhole, OutcomeLast
  <2>4. CASE ~Saw("overlap") /\ OutcomeBegin
    <3>1. /\ wire # <<>> => wire[Len(wire)].part = 2
          /\ \A j \in 1..Len(wire) : ~IsOutcome(wire[j].frame)
          /\ \A t \in Threads : spc[t] \in {"idle", "emit"}
      <4>1. /\ \A t \in Threads : spc[t] \in {"idle", "emit"}
            /\ \A j \in 1..Len(wire) : ~IsOutcome(wire[j].frame)
            /\ wire # <<>> => wire[Len(wire)].part # 1
        BY <2>1, <2>4 DEF OutputInv, WireFollowsWriters
      <4>2. wire # <<>> => wire[Len(wire)].part \in {1, 2}
        BY LastPart
      <4>. QED  BY <4>1, <4>2
    <3>2. FramesWhole' /\ OutcomeLast'
      BY <2>1, <2>4, <3>1, FirstPart DEF OutputInv
    <3>3. WireFollowsWriters'
      <4>1. /\ wire' # <<>> /\ wire'[Len(wire')] = [frame |-> outcome, part |-> 1]
            /\ Len(wire') = Len(wire) + 1 /\ Len(wire) \in Nat
            /\ \A j \in 1..Len(wire) : wire'[j] = wire[j]
        BY <2>1, <2>4, PutPart
      <4>2. \A j \in 1..Len(wire') : IsOutcome(wire'[j].frame) => wire'[j].frame = outcome
        BY <3>1, <4>1
      <4>. QED  BY <2>1, <2>4, <3>1, <4>1, <4>2 DEF WireFollowsWriters
    <3>. QED  BY <2>2, <3>2, <3>3 DEF OutputInv
  <2>5. CASE ~Saw("overlap") /\ OutcomeEnd
    <3>1. /\ wire # <<>> /\ wire[Len(wire)] = [frame |-> outcome, part |-> 1]
          /\ \A j \in 1..Len(wire) : IsOutcome(wire[j].frame) => wire[j].frame = outcome
          /\ \A t \in Threads : spc[t] \in {"idle", "emit"}
      BY <2>1, <2>5 DEF OutputInv, WireFollowsWriters
    <3>2. FramesWhole' /\ OutcomeLast'
      BY <2>1, <2>5, <3>1, SecondPart DEF OutputInv
    <3>3. WireFollowsWriters'
      <4>1. /\ wire' # <<>> /\ wire'[Len(wire')] = [frame |-> outcome, part |-> 2]
            /\ Len(wire') = Len(wire) + 1 /\ Len(wire) \in Nat
            /\ \A j \in 1..Len(wire) : wire'[j] = wire[j]
        BY <2>1, <2>5, PutPart
      <4>2. \A j \in 1..Len(wire') : IsOutcome(wire'[j].frame) => wire'[j].frame = outcome
        BY <3>1, <4>1
      <4>. QED  BY <2>1, <2>5, <3>1, <4>1, <4>2 DEF WireFollowsWriters
    <3>. QED  BY <2>2, <3>2, <3>3 DEF OutputInv
  <2>. QED  BY <1>7, <2>3, <2>4, <2>5
<1>. QED  BY <1>2, <1>3, <1>4, <1>5, <1>6, <1>7 DEF HandlerStep

\* An item that raises ends the sending, and the session unless it is duplex.
LEMMA RaiseKeepsOutput ==
    ASSUME TypeOK, OutputInv, NEW t \in Threads, NEW count, NEW events \in SUBSET {"oversize"},
           ItemRaises(t, count, events), UNCHANGED <<mode, wire, up>>,
           spc[t] = "emit" \/ (spc[t] # "idle" /\ ~up)
    PROVE  OutputInv'
<1>1. /\ EndSend(t) /\ spc[t] # "idle"
      /\ \A u \in Threads : spc'[u] = IF u = t THEN "idle" ELSE spc[u]
      /\ writer' = IF writer = t THEN Nobody ELSE writer
  BY DEF ItemRaises, EndSend, Step, TypeOK
<1>2. mode = "duplex" \/ (t = Main /\ hpc = "run")
  BY SenderRuns DEF OutputInv
<1>3. CASE mode = "duplex"
  <2>1. /\ UNCHANGED <<mode, hpc, session, outcome, wire>> /\ (up' => up)
        /\ Saw("ran")' <=> Saw("ran")
        /\ Saw("overlap")' <=> Saw("overlap")
    BY <1>3 DEF ItemRaises
  <2>2. \A u \in Threads : spc[u] # "idle" => u = t
    BY <1>1, SenderAlone DEF OutputInv
  <2>3. OneSender'
    BY <1>1, <2>1, <2>2 DEF OutputInv, OneSender
  <2>4. HandlerFollowsSession'
    BY <2>1 DEF OutputInv, HandlerFollowsSession
  <2>5. WireFollowsWriters'
    BY <1>1, <2>1, <2>2 DEF OutputInv, WireFollowsWriters
  <2>. QED  BY <2>1, <2>3, <2>4, <2>5, WireStands DEF OutputInv
<1>4. CASE mode # "duplex"
  <2>1. Conclude("error", count) /\ t = Main /\ hpc = "run"
    BY <1>2, <1>4 DEF ItemRaises
  <2>2. hpc \notin Concluding \cup {"done"} /\ spc'[Main] = "idle"
    BY <1>1, <2>1 DEF Concluding
  <2>. QED  BY <1>1, <2>1, <2>2, ConcludeKeepsOutput
<1>. QED  BY <1>3, <1>4

\* Every step of a sender keeps the output lane.
LEMMA SendKeepsOutput ==
    ASSUME TypeOK, OutputInv, NEW t \in Threads, SendStep(t)
    PROVE  OutputInv'
<1>1. CASE SendBegin(t)
  <2>1. /\ UNCHANGED <<mode, hpc, outVars, up, seen>>
        /\ mode = "duplex" /\ Saw("ran") /\ (t = Main => hpc = "run")
        /\ writer = Nobody /\ writer' = t /\ spc[t] = "idle"
        /\ \A u \in Threads : spc'[u] = IF u = t THEN "emit" ELSE spc[u]
    BY <1>1 DEF SendBegin, OnChannel, WriterFree, Step, TypeOK
  <2>2. \A u \in Threads : spc[u] = "idle"
    BY <2>1 DEF OutputInv, OneSender
  <2>3. OneSender'
    BY <2>1, <2>2 DEF OneSender
  <2>4. HandlerFollowsSession'
    BY <2>1 DEF OutputInv, HandlerFollowsSession
  <2>5. WireFollowsWriters'
    BY <2>1, <2>2 DEF OutputInv, WireFollowsWriters
  <2>. QED  BY <2>1, <2>3, <2>4, <2>5, WireStands DEF OutputInv
<1>2. CASE Emit(t)
  <2>1. /\ UNCHANGED <<mode, hpc, session, outcome, wire, up, writer, seen>>
        /\ spc[t] = "emit" /\ session = "open"
        /\ \A u \in Threads : spc'[u] = IF u = t THEN "write" ELSE spc[u]
        /\ \A u \in Threads : u # t => item'[u] = item[u]
    BY <1>2 DEF Emit, CanEmit, Step, TypeOK
  <2>2. hpc \notin Concluding
    BY <2>1, SenderRuns DEF OutputInv
  <2>3. OneSender'
    BY <2>1 DEF OutputInv, OneSender
  <2>4. HandlerFollowsSession'
    BY <2>1 DEF OutputInv, HandlerFollowsSession
  <2>5. WireFollowsWriters'
    BY <2>1, <2>2 DEF OutputInv, WireFollowsWriters
  <2>. QED  BY <2>1, <2>3, <2>4, <2>5, WireStands DEF OutputInv
<1>3. CASE EmitOversize(t)
  BY <1>3, RaiseKeepsOutput DEF EmitOversize
<1>4. CASE EmitRefused(t)
  BY <1>4, RaiseKeepsOutput DEF EmitRefused
<1>5. CASE WriteLost(t)
  BY <1>5, RaiseKeepsOutput DEF WriteLost
<1>6. CASE WriteBegin(t) \/ WriteEnd(t)
  <2>1. /\ UNCHANGED <<mode, hpc, session, outcome, up, item, seen>> /\ up
        /\ Item(item[t]) \in OutFrames /\ ~IsOutcome(Item(item[t]))
        /\ WriteBegin(t) => spc[t] = "write" /\ Put(Item(item[t]), 1) /\ UNCHANGED writer
             /\ \A u \in Threads : spc'[u] = IF u = t THEN "half" ELSE spc[u]
        /\ WriteEnd(t) => spc[t] = "half" /\ Put(Item(item[t]), 2)
             /\ writer' = (IF writer = t THEN Nobody ELSE writer)
             /\ \A u \in Threads : spc'[u] = IF u = t THEN "idle" ELSE spc[u]
    BY <1>6 DEF WriteBegin, WriteEnd, EndSend, Step, Item, OutFrames, IsOutcome, TypeOK
  <2>2. /\ \A u \in Threads : spc[u] # "idle" => u = t
        /\ spc[t] # "idle"
    BY <1>6, <2>1, SenderAlone DEF OutputInv
  <2>3. OneSender'
    BY <1>6, <2>1, <2>2 DEF OutputInv, OneSender
  <2>4. HandlerFollowsSession'
    BY <2>1 DEF OutputInv, HandlerFollowsSession
  <2>5. CASE Saw("overlap")
    BY <2>1, <2>3, <2>4, <2>5
       DEF OutputInv, WireFollowsWriters, FramesWhole, OutcomeLast
  <2>6. CASE ~Saw("overlap")
    <3>1. hpc \notin Concluding /\ hpc # "done"
      BY <1>6, <2>1, <2>6 DEF OutputInv, WireFollowsWriters, HandlerFollowsSession
    <3>2. \A j \in 1..Len(wire) : ~IsOutcome(wire[j].frame)
      BY <2>6, <3>1 DEF OutputInv, WireFollowsWriters, Concluding
    <3>3. CASE WriteBegin(t)
      <4>1. wire # <<>> => wire[Len(wire)].part # 1
        BY <2>1, <2>2, <2>6, <3>1, <3>3 DEF OutputInv, WireFollowsWriters, Concluding
      <4>2. FramesWhole' /\ OutcomeLast'
        <5>1. wire # <<>> => wire[Len(wire)].part = 2
          BY <4>1, LastPart
        <5>. QED  BY <2>1, <2>6, <3>2, <3>3, <5>1, FirstPart DEF OutputInv
      <4>3. WireFollowsWriters'
        <5>1. /\ wire' # <<>> /\ wire'[Len(wire')] = [frame |-> Item(item[t]), part |-> 1]
              /\ Len(wire') = Len(wire) + 1 /\ Len(wire) \in Nat
              /\ \A j \in 1..Len(wire) : wire'[j] = wire[j]
          BY <2>1, <3>3, PutPart
        <5>2. \A j \in 1..Len(wire') : ~IsOutcome(wire'[j].frame)
          BY <2>1, <3>2, <5>1
        <5>. QED  BY <2>1, <2>2, <3>1, <3>3, <5>1, <5>2 DEF WireFollowsWriters, Concluding
      <4>. QED  BY <2>3, <2>4, <4>2, <4>3 DEF OutputInv
    <3>4. CASE WriteEnd(t)
      <4>1. wire # <<>> /\ wire[Len(wire)] = [frame |-> Item(item[t]), part |-> 1]
        BY <2>1, <2>6, <3>4 DEF OutputInv, WireFollowsWriters
      <4>2. FramesWhole' /\ OutcomeLast'
        BY <2>1, <2>6, <3>2, <3>4, <4>1, SecondPart DEF OutputInv
      <4>3. WireFollowsWriters'
        <5>1. /\ wire' # <<>> /\ wire'[Len(wire')] = [frame |-> Item(item[t]), part |-> 2]
              /\ Len(wire') = Len(wire) + 1 /\ Len(wire) \in Nat
              /\ \A j \in 1..Len(wire) : wire'[j] = wire[j]
          BY <2>1, <3>4, PutPart
        <5>2. \A j \in 1..Len(wire') : ~IsOutcome(wire'[j].frame)
          BY <2>1, <3>2, <5>1
        <5>. QED  BY <2>1, <2>2, <3>1, <3>4, <5>1, <5>2 DEF WireFollowsWriters, Concluding
      <4>. QED  BY <2>3, <2>4, <4>2, <4>3 DEF OutputInv
    <3>. QED  BY <1>6, <3>3, <3>4
  <2>. QED  BY <2>5, <2>6
<1>. QED  BY <1>1, <1>2, <1>3, <1>4, <1>5, <1>6 DEF SendStep

-----------------------------------------------------------------------------
(* Types *)

\* A part that is put on the socket is one.
LEMMA PutTyped ==
    ASSUME TypeOK, NEW frame \in OutFrames, NEW part \in {1, 2}, Put(frame, part)
    PROVE  wire' \in Seq(Parts)
BY PutPart

\* What is marked is an event.
LEMMA MarkTyped ==
    ASSUME TypeOK, NEW events \in SUBSET Events, Mark(events)
    PROVE  seen' \subseteq Events
<1>1. seen \subseteq Events
  BY DEF TypeOK
<1>. QED  BY <1>1 DEF Mark

\* An outcome is a frame.
LEMMA ConcludeTyped ==
    ASSUME TypeOK, NEW kind \in {"terminal", "error"}, NEW count \in Seqs,
           Conclude(kind, count)
    PROVE  /\ hpc' \in HandlerSteps /\ session' \in {"open", "terminal"}
           /\ outcome' \in OutFrames /\ seen' \subseteq Events
<1>1. outcome' \in OutFrames
  BY DEF Conclude, OutFrames
<1>2. seen' \subseteq Events
  <2>1. {"overlap"} \in SUBSET Events /\ {} \in SUBSET Events
    BY DEF Events
  <2>2. Mark({"overlap"}) \/ Mark({})
    BY DEF Conclude
  <2>. QED  BY <2>1, <2>2, MarkTyped
<1>. QED  BY <1>1, <1>2 DEF Conclude, HandlerSteps

\* The handler keeps the types.
LEMMA HandlerKeepsTypes ==
    ASSUME TypeOK, HandlerStep
    PROVE  TypeOK'
<1> USE DEF HandlerSteps
<1>1. CASE ReceiveBad
  <2>1. outcome' \in OutFrames
    BY <1>1 DEF ReceiveBad, OutFrames, Seqs
  <2>. QED  BY <1>1, <2>1 DEF ReceiveBad, TypeOK
<1>2. CASE Receive \/ FnReturns \/ ContextCloses
  BY <1>2 DEF Receive, FnReturns, ContextCloses, TypeOK
<1>3. CASE Lookup \/ ContextBuilt
  <2>1. hpc' \in HandlerSteps /\ seen' \subseteq Events
    <3>1. CASE Enter
      <4>1. {"ran"} \in SUBSET Events
        BY DEF Events
      <4>. QED  BY <3>1, <4>1, MarkTyped DEF Enter
    <3>2. CASE hpc' = "context" /\ UNCHANGED seen
      BY <3>2 DEF TypeOK
    <3>. QED  BY <1>3, <3>1, <3>2 DEF Lookup, ContextBuilt
  <2>2. UNCHANGED <<callVars, outVars, up, sendVars, peerVars, recvVars>>
    BY <1>3 DEF Lookup, ContextBuilt
  <2>. QED  BY <2>1, <2>2
            DEF callVars, outVars, sendVars, peerVars, recvVars, TypeOK
<1>4. CASE LookupRefused \/ FnRaises \/ Finish
  <2>1. \E kind \in {"terminal", "error"} : Conclude(kind, frames)
    BY <1>4 DEF LookupRefused, FnRaises, Finish
  <2>2. /\ hpc' \in HandlerSteps /\ session' \in {"open", "terminal"}
        /\ outcome' \in OutFrames /\ seen' \subseteq Events
    BY <2>1, ConcludeTyped DEF TypeOK
  <2>3. UNCHANGED <<callVars, frames, wire, up, sendVars, peerVars, recvVars>>
    BY <1>4 DEF LookupRefused, FnRaises, Finish
  <2>. QED  BY <2>2, <2>3 DEF callVars, sendVars, peerVars, recvVars, TypeOK
<1>5. CASE ContextRaises \/ FnEscapes \/ ContextCloseRaises \/ OutcomeLost
  <2>1. seen' \subseteq Events
    <3>1. {"fault"} \in SUBSET Events /\ {} \in SUBSET Events
      BY DEF Events
    <3>. QED  BY <1>5, <3>1, MarkTyped
              DEF ContextRaises, FnEscapes, ContextCloseRaises, OutcomeLost, Leave
  <2>2. hpc' = "done" /\ up' = FALSE
        /\ UNCHANGED <<callVars, outVars, sendVars, peerVars, recvVars>>
    BY <1>5 DEF ContextRaises, FnEscapes, ContextCloseRaises, OutcomeLost, Leave
  <2>. QED  BY <2>1, <2>2 DEF callVars, outVars, sendVars, peerVars, recvVars, TypeOK
<1>6. CASE FnItem
  <2>1. spc' \in [Threads -> SendSteps]
    BY <1>6 DEF FnItem, Step, SendSteps, TypeOK
  <2>. QED  BY <1>6, <2>1 DEF FnItem, TypeOK
<1>7. CASE OutcomeBegin \/ OutcomeEnd
  <2>1. wire' \in Seq(Parts)
    BY <1>7, PutTyped DEF OutcomeBegin, OutcomeEnd, TypeOK
  <2>2. seen' \subseteq Events
    <3>1. {} \in SUBSET Events
      OBVIOUS
    <3>. QED  BY <1>7, <3>1, MarkTyped DEF OutcomeBegin, OutcomeEnd, Leave, TypeOK
  <2>3. /\ hpc' \in HandlerSteps /\ up' \in BOOLEAN
        /\ UNCHANGED <<callVars, session, frames, outcome, sendVars, peerVars, recvVars>>
    BY <1>7 DEF OutcomeBegin, OutcomeEnd, Leave, TypeOK
  <2>. QED  BY <2>1, <2>2, <2>3 DEF callVars, sendVars, peerVars, recvVars, TypeOK
<1>. QED  BY <1>1, <1>2, <1>3, <1>4, <1>5, <1>6, <1>7 DEF HandlerStep

\* So do the senders.
LEMMA SendKeepsTypes ==
    ASSUME TypeOK, NEW t \in Threads, SendStep(t)
    PROVE  TypeOK'
<1>1. CASE SendBegin(t)
  <2>1. spc' \in [Threads -> SendSteps] /\ writer' \in Threads \cup {Nobody}
    BY <1>1 DEF SendBegin, Step, SendSteps, TypeOK
  <2>. QED  BY <1>1, <2>1 DEF SendBegin, TypeOK
<1>2. CASE Emit(t)
  <2>1. frames' \in Seqs /\ frames \in Seqs
    BY <1>2 DEF Emit, Seqs, TypeOK
  <2>2. item' \in [Threads -> Seqs]
    BY <1>2, <2>1 DEF Emit, TypeOK
  <2>3. spc' \in [Threads -> SendSteps]
    BY <1>2 DEF Emit, Step, SendSteps, TypeOK
  <2>. QED  BY <1>2, <2>1, <2>2, <2>3 DEF Emit, TypeOK
<1>3. ASSUME NEW count \in Seqs, NEW events \in SUBSET {"oversize"},
             ItemRaises(t, count, events), UNCHANGED <<callVars, wire, up, peerVars, recvVars>>
      PROVE  TypeOK'
  <2>1. /\ spc' \in [Threads -> SendSteps] /\ writer' \in Threads \cup {Nobody}
        /\ UNCHANGED item /\ frames' \in Seqs
    BY <1>3 DEF ItemRaises, EndSend, Step, SendSteps, TypeOK
  <2>2. /\ hpc' \in HandlerSteps /\ session' \in {"open", "terminal"}
        /\ outcome' \in OutFrames /\ seen' \subseteq Events
    <3>1. CASE Conclude("error", count)
      BY <3>1, ConcludeTyped
    <3>2. CASE Mark(events) /\ UNCHANGED <<hpc, session, outcome>>
      <4>1. events \in SUBSET Events
        BY DEF Events
      <4>. QED  BY <3>2, <4>1, MarkTyped DEF TypeOK
    <3>. QED  BY <1>3, <3>1, <3>2 DEF ItemRaises
  <2>. QED  BY <1>3, <2>1, <2>2 DEF callVars, peerVars, recvVars, TypeOK
<1>4. CASE EmitOversize(t)
  <2>1. frames + 1 \in Seqs
    BY <1>4 DEF EmitOversize, Seqs, TypeOK
  <2>. QED  BY <1>3, <1>4, <2>1 DEF EmitOversize
<1>5. CASE EmitRefused(t)
  <2>1. ItemRaises(t, frames, {}) /\ frames \in Seqs
    BY <1>5 DEF EmitRefused, Uncounted, TypeOK
  <2>. QED  BY <1>3, <1>5, <2>1 DEF EmitRefused
<1>6. CASE WriteLost(t)
  <2>1. frames \in Seqs
    BY DEF TypeOK
  <2>. QED  BY <1>3, <1>6, <2>1 DEF WriteLost
<1>7. CASE WriteBegin(t) \/ WriteEnd(t)
  <2>1. Item(item[t]) \in OutFrames
    BY DEF Item, OutFrames, TypeOK
  <2>2. wire' \in Seq(Parts)
    BY <1>7, <2>1, PutTyped DEF WriteBegin, WriteEnd
  <2>3. spc' \in [Threads -> SendSteps] /\ writer' \in Threads \cup {Nobody}
    BY <1>7 DEF WriteBegin, WriteEnd, EndSend, Step, SendSteps, TypeOK
  <2>4. UNCHANGED <<callVars, hpc, session, frames, outcome, up, item, peerVars, recvVars, seen>>
    BY <1>7 DEF WriteBegin, WriteEnd, EndSend
  <2>. QED  BY <2>2, <2>3, <2>4 DEF callVars, peerVars, recvVars, TypeOK
<1>. QED  BY <1>1, <1>2, <1>4, <1>5, <1>6, <1>7 DEF SendStep

\* The receivers count no further than the peer has numbered its frames.
LEMMA ReceiveKeepsTypes ==
    ASSUME TypeOK, InputInv, NEW t \in Threads, RecvStep(t)
    PROVE  TypeOK'
<1>1. NoFrame \in InFrames
  BY DEF NoFrame, InFrames
<1>2. CASE RecvTake(t)
  <2>1. inflow' \in Seq(InFrames) /\ got' \in [Threads -> InFrames]
    BY <1>2 DEF RecvTake, TypeOK
  <2>. QED  BY <1>2, <2>1 DEF RecvTake, TypeOK
<1>3. CASE RecvGap(t) \/ RecvHalfClose(t) \/ RecvOther(t)
  <2>1. got' \in [Threads -> InFrames] /\ reader' \in Threads \cup {Nobody}
    BY <1>1, <1>3 DEF RecvGap, RecvHalfClose, RecvOther, EndRecv, TypeOK
  <2>2. inClosed' \in BOOLEAN /\ seen' \subseteq Events
    BY <1>3 DEF RecvGap, RecvHalfClose, RecvOther, TypeOK, Events
  <2>. QED  BY <1>3, <2>1, <2>2 DEF RecvGap, RecvHalfClose, RecvOther, EndRecv, TypeOK
<1>4. CASE RecvItem(t) \/ RecvUndecodable(t)
  <2>0. CountItem(t)
    BY <1>4 DEF RecvItem, RecvUndecodable
  <2>1. got' \in [Threads -> InFrames] /\ reader' \in Threads \cup {Nobody}
    BY <1>1, <2>0 DEF CountItem, EndRecv, TypeOK
  <2>2. got[t].seq = inSeq /\ got[t].seq < nextIn
    BY <2>0 DEF CountItem, SequenceFits, InputInv, InputNumbered
  <2>3. inSeq' \in 0..MaxInput /\ got[t].seq \in 0..MaxInput
    BY <2>0, <2>2 DEF CountItem, TypeOK
  <2>4. delivered' \in Seq(0..MaxInput) /\ raised' \subseteq 0..MaxInput
    <3>1. CASE RecvItem(t)
      BY <2>3, <3>1 DEF RecvItem, TypeOK
    <3>2. CASE RecvUndecodable(t)
      BY <2>3, <3>2 DEF RecvUndecodable, TypeOK
    <3>. QED  BY <1>4, <3>1, <3>2
  <2>. QED  BY <2>0, <2>1, <2>3, <2>4 DEF CountItem, EndRecv, TypeOK
<1>. QED  BY <1>2, <1>3, <1>4 DEF RecvStep

\* So does the peer.
LEMMA PeerKeepsTypes ==
    ASSUME TypeOK, PeerStep
    PROVE  TypeOK'
<1>1. ASSUME NEW kind \in {"item", "other", "half_close"}, NEW events \in SUBSET Events,
             PeerSends(kind, events)
      PROVE  inflow' \in Seq(InFrames) /\ seen' \subseteq Events
  <2>1. [kind |-> kind, seq |-> nextIn] \in InFrames
    BY DEF InFrames, TypeOK
  <2>. HIDE DEF InFrames
  <2>. QED  BY <1>1, <2>1 DEF PeerSends, TypeOK
<1>2. CASE PeerItem \/ PeerOther \/ PeerHalfClose
  <2>1. inflow' \in Seq(InFrames) /\ seen' \subseteq Events
    BY <1>1, <1>2 DEF PeerItem, PeerOther, PeerHalfClose, Events
  <2>2. nextIn' \in 0..MaxInput
    BY <1>2 DEF PeerItem, PeerOther, PeerHalfClose, TypeOK
  <2>. QED  BY <1>2, <2>1, <2>2 DEF PeerItem, PeerOther, PeerHalfClose, PeerSends, TypeOK
<1>3. CASE PeerSkip \/ Drop
  <2>1. seen' \subseteq Events
    <3>1. {"faulty"} \in SUBSET Events /\ {"dropped"} \in SUBSET Events
      BY DEF Events
    <3>. QED  BY <1>3, <3>1, MarkTyped DEF PeerSkip, Drop
  <2>2. nextIn' \in 0..MaxInput
    BY <1>3 DEF PeerSkip, Drop, peerVars, TypeOK
  <2>3. up' \in BOOLEAN /\ UNCHANGED <<callVars, hpc, outVars, sendVars, inflow, recvVars>>
    BY <1>3 DEF PeerSkip, Drop, peerVars, TypeOK
  <2>. QED  BY <2>1, <2>2, <2>3 DEF callVars, outVars, sendVars, recvVars, TypeOK
<1>. QED  BY <1>2, <1>3 DEF PeerStep

-----------------------------------------------------------------------------
(* Safety *)

\* A session begins with both lanes empty.
LEMMA SessionStarts == Init => SessionInv
<1> SUFFICES ASSUME Init PROVE SessionInv
  OBVIOUS
<1>1. TypeOK
  <2>1. 0 \in Seqs /\ 0 \in 0..MaxInput /\ NoFrame \in OutFrames /\ NoFrame \in InFrames
    BY DEF Seqs, NoFrame, OutFrames, InFrames
  <2>2. spc \in [Threads -> SendSteps] /\ item \in [Threads -> Seqs]
        /\ got \in [Threads -> InFrames]
    BY <2>1 DEF Init, SendSteps
  <2>3. wire \in Seq(Parts) /\ inflow \in Seq(InFrames) /\ delivered \in Seq(0..MaxInput)
    BY DEF Init
  <2>4. hpc \in HandlerSteps /\ seen \subseteq Events
    BY DEF Init, HandlerSteps
  <2>. QED  BY <2>1, <2>2, <2>3, <2>4 DEF Init, TypeOK
<1>2. OutputInv
  <2>1. OneSender /\ HandlerFollowsSession
    BY DEF Init, OneSender, HandlerFollowsSession, Concluding
  <2>2. wire = <<>> /\ Len(wire) = 0 /\ hpc = "receive" /\ \A t \in Threads : spc[t] = "idle"
    BY DEF Init
  <2>3. WireFollowsWriters /\ FramesWhole /\ OutcomeLast
    BY <2>2 DEF WireFollowsWriters, FramesWhole, OutcomeLast, Concluding
  <2>. QED  BY <2>1, <2>3 DEF OutputInv
<1>3. InputInv
  <2>1. /\ \A t \in Threads : got[t] = NoFrame
        /\ inflow = <<>> /\ Len(inflow) = 0 /\ inSeq = 0 /\ nextIn = 0 /\ ~inClosed /\ seen = {}
    BY DEF Init
  <2>2. ItemsAnswered
    <3>1. Len(delivered) = 0 /\ raised = {} /\ inSeq = 0
      BY DEF Init
    <3>. QED  BY <3>1 DEF ItemsAnswered, Answered
  <2>3. NextTaken = 0
    BY <2>1 DEF NextTaken, NoFrame
  <2>4. OneReader /\ InputNumbered /\ ItemsAnswered /\ ClosedAtEnd
    BY <2>1, <2>2 DEF OneReader, InputNumbered, ClosedAtEnd, NoFrame
  <2>5. InputGapless
    BY <2>1, <2>3 DEF InputGapless
  <2>. QED  BY <2>4, <2>5 DEF InputInv
<1>. QED  BY <1>1, <1>2, <1>3 DEF SessionInv

\* Every reachable state of a session satisfies its inductive invariant.
THEOREM SessionInvariance == Spec => []SessionInv
<1>1. SessionInv /\ [Next]_vars => SessionInv'
  <2> SUFFICES ASSUME TypeOK, OutputInv, InputInv, [Next]_vars PROVE SessionInv'
    BY DEF SessionInv
  <2>1. CASE HandlerStep
    BY <2>1, HandlerKeepsTypes, HandlerKeepsOutput, OutputLeavesInput DEF SessionInv
  <2>2. ASSUME NEW t \in Threads, SendStep(t) PROVE SessionInv'
    BY <2>2, SendKeepsTypes, SendKeepsOutput, OutputLeavesInput DEF SessionInv
  <2>3. ASSUME NEW t \in Threads, RecvStep(t) PROVE SessionInv'
    <3>1. InputInv'
      BY <2>3, TakeKeepsInput, ReceiveKeepsInput DEF RecvStep
    <3>. QED  BY <2>3, <3>1, ReceiveKeepsTypes, InputLeavesOutput DEF SessionInv
  <2>4. CASE PeerStep
    <3>1. InputInv'
      BY <2>4, PeerKeepsInput, OutputLeavesInput DEF PeerStep
    <3>. QED  BY <2>4, <3>1, PeerKeepsTypes, InputLeavesOutput DEF SessionInv
  <2>5. CASE UNCHANGED vars
    <3>1. TypeOK'
      BY <2>5 DEF vars, TypeOK
    <3>2. OneSender' /\ HandlerFollowsSession' /\ WireFollowsWriters'
      BY <2>5 DEF vars, OutputInv, OneSender, HandlerFollowsSession, WireFollowsWriters
    <3>3. FramesWhole' /\ OutcomeLast'
      BY <2>5, WireStands DEF vars, OutputInv
    <3>4. InputInv'
      BY <2>5, InputStands DEF vars
    <3>. QED  BY <3>1, <3>2, <3>3, <3>4 DEF SessionInv, OutputInv
  <2>. QED  BY <2>1, <2>2, <2>3, <2>4, <2>5 DEF Next
<1>. QED  BY <1>1, SessionStarts, PTL DEF Spec

\* The types are right (TypeOK): no count passes its bound.
THEOREM SessionTypeCorrect == Spec => []TypeOK
BY SessionInvariance, PTL DEF SessionInv

\* Frames of concurrent senders reach the socket whole (FramesWhole).
THEOREM FramesStayWhole == Spec => []FramesWhole
BY SessionInvariance, PTL DEF SessionInv, OutputInv

\* Nothing follows the TERMINAL or ERROR frame (OutcomeLast).
THEOREM OutcomeStaysLast == Spec => []OutcomeLast
BY SessionInvariance, PTL DEF SessionInv, OutputInv

\* A function that is told that its input has ended was given all of it in order, or an
\* exception in place of what did not decode (InputComplete), also when frames were lost
\* before: no item goes missing unnoticed.
THEOREM InputIsComplete == Spec => []InputComplete
<1>1. InputInv => InputComplete
  BY DEF InputInv, ItemsAnswered, ClosedAtEnd, InputComplete
<1>. QED  BY <1>1, SessionInvariance, PTL DEF SessionInv

\* Only a peer that left a number out, or sent what is no input, is told of a
\* gap (NoFalseGap).
THEOREM GapIsTrue == Spec => []NoFalseGap
<1>1. InputInv => NoFalseGap
  BY DEF InputInv, InputGapless, NoFalseGap
<1>. QED  BY <1>1, SessionInvariance, PTL DEF SessionInv

-----------------------------------------------------------------------------
(* What the session counts *)

USE DEF InFlight, SeqAt

\* The numbers on the socket are numbers.
LEMMA SeqsAreNumbers ==
    ASSUME TypeOK
    PROVE  /\ frames \in Nat /\ \A t \in Threads : item[t] \in Nat
           /\ \A j \in Sent : SeqAt(j) \in Nat
           /\ Len(wire) \in Nat
<1>1. wire \in Seq(Parts) /\ frames \in Nat /\ \A t \in Threads : item[t] \in Nat
  BY DEF TypeOK, Seqs
<1>. HIDE DEF Parts
<1>2. \A j \in 1..Len(wire) : wire[j] \in Parts
  BY <1>1
<1>3. \A j \in Sent : SeqAt(j) \in Nat
  BY <1>2 DEF Sent, Parts, OutFrames, Seqs
<1>. QED  BY <1>1, <1>3

\* A step that writes and counts nothing keeps the count.
LEMMA CountStands ==
    ASSUME CountInv, OutcomeCounts', UNCHANGED <<wire, frames, item>>, up' => up,
           Saw("overlap") => Saw("overlap")', Saw("oversize") => Saw("oversize")',
           session' = "open" => session = "open",
           outcome'.kind = "terminal" => outcome.kind = "terminal" \/ session = "open",
           \A t \in Threads : InFlight(t)' => InFlight(t),
           \A t \in Threads : InFlight(t) => InFlight(t)' \/ ~up
    PROVE  CountInv'
<1>1. Sent' = Sent
  BY DEF Sent
<1> SUFFICES ASSUME ItemsCounted PROVE ItemsCounted'
  BY DEF CountInv
<1>2. ASSUME up', session' = "open" \/ outcome'.kind = "terminal", NEW k \in 0..(frames - 1)
      PROVE  (\E j \in Sent : SeqAt(j) = k) \/ \E t \in Threads : InFlight(t)' /\ item[t] = k
  BY <1>2 DEF ItemsCounted
<1>. QED  BY <1>1, <1>2 DEF ItemsCounted

\* A receiver and the peer stay off it.
LEMMA InputLeavesCount ==
    ASSUME CountInv, PeerStep \/ \E t \in Threads : RecvStep(t)
    PROVE  CountInv'
<1>1. /\ UNCHANGED <<outVars, sendVars>> /\ (up' => up)
      /\ Saw("overlap")' <=> Saw("overlap")
      /\ Saw("oversize")' <=> Saw("oversize")
  BY DEF PeerStep, PeerItem, PeerOther, PeerHalfClose, PeerSkip, PeerSends, Drop,
         RecvStep, RecvTake, RecvGap, RecvHalfClose, RecvOther, RecvItem, RecvUndecodable,
         CountItem, EndRecv
<1>2. OutcomeCounts'
  BY <1>1 DEF CountInv, OutcomeCounts
<1>. QED  BY <1>1, <1>2, CountStands

\* A part that is not the end of an item changes nothing about what was sent.
LEMMA NothingSent ==
    ASSUME TypeOK, NEW frame \in OutFrames, NEW part \in {1, 2}, Put(frame, part),
           part = 1 \/ frame.kind # "item"
    PROVE  Sent' = Sent /\ \A j \in Sent : SeqAt(j)' = SeqAt(j)
<1>1. /\ Len(wire') = Len(wire) + 1 /\ Len(wire) \in Nat
      /\ \A i \in 1..Len(wire) : wire'[i] = wire[i]
      /\ wire'[Len(wire) + 1] = [frame |-> frame, part |-> part]
  BY PutPart
<1>2. Sent' = Sent
  BY <1>1 DEF Sent
<1>3. \A j \in Sent : SeqAt(j)' = SeqAt(j)
  BY <1>1 DEF Sent
<1>. QED  BY <1>2, <1>3

\* The outcome is written when nothing is in flight any more.
LEMMA OutcomeKeepsCount ==
    ASSUME TypeOK, OutputInv, CountInv, OutcomeBegin \/ OutcomeEnd
    PROVE  CountInv'
<1>1. /\ UNCHANGED <<session, frames, outcome, sendVars>> /\ up /\ outcome \in OutFrames
      /\ IsOutcome(outcome) /\ hpc \in Concluding
      /\ Saw("overlap")' <=> Saw("overlap")
      /\ Saw("oversize")' <=> Saw("oversize")
      /\ OutcomeBegin => hpc = "write" /\ Put(outcome, 1)
      /\ OutcomeEnd => hpc = "half" /\ Put(outcome, 2)
  BY DEF OutcomeBegin, OutcomeEnd, Leave, OutputInv, HandlerFollowsSession, Concluding, TypeOK
<1>2. OutcomeCounts'
  BY <1>1 DEF CountInv, OutcomeCounts
<1> SUFFICES ASSUME ~Saw("overlap"), ~Saw("oversize") PROVE ItemsCounted'
  BY <1>1, <1>2 DEF CountInv
<1>3. /\ Sent' = Sent
      /\ \A j \in Sent : SeqAt(j)' = SeqAt(j)
  BY <1>1, NothingSent DEF IsOutcome
<1>4. ItemsCounted /\ \A t \in Threads : ~InFlight(t)
  BY <1>1 DEF CountInv, OutputInv, WireFollowsWriters
<1>5. ASSUME NEW i \in 1..Len(wire'), wire'[i].frame.kind = "terminal", NEW k \in 0..(frames - 1)
      PROVE  \E j \in Sent : SeqAt(j) = k
  <2>1. /\ Len(wire') = Len(wire) + 1 /\ Len(wire) \in Nat
        /\ \A n \in 1..Len(wire) : wire'[n] = wire[n]
        /\ \E part \in {1, 2} : wire'[Len(wire')] = [frame |-> outcome, part |-> part]
    BY <1>1, PutPart
  <2>2. CASE i \in 1..Len(wire)
    BY <1>4, <1>5, <2>1, <2>2 DEF ItemsCounted
  <2>3. CASE i = Len(wire')
    BY <1>1, <1>4, <1>5, <2>1, <2>3 DEF ItemsCounted
  <2>. QED  BY <2>1, <2>2, <2>3
<1>. QED  BY <1>1, <1>3, <1>4, <1>5 DEF ItemsCounted

\* The handler concludes with the count of the session.
LEMMA HandlerKeepsCount ==
    ASSUME TypeOK, OutputInv, CountInv, HandlerStep
    PROVE  CountInv'
<1>1. CASE OutcomeBegin \/ OutcomeEnd
  BY <1>1, OutcomeKeepsCount
<1>2. CASE LookupRefused \/ FnRaises \/ Finish
  <2>1. /\ hpc \notin Concluding \cup {"done"} /\ UNCHANGED <<frames, wire, up, sendVars>>
        /\ \E kind \in {"terminal", "error"} : Conclude(kind, frames)
    BY <1>2 DEF LookupRefused, FnRaises, Finish, Unfinished, InFunction, Concluding
  <2>2. /\ session = "open" /\ session' = "terminal" /\ outcome'.seq = frames
        /\ seen \subseteq seen'
    BY <2>1 DEF Conclude, OutputInv, HandlerFollowsSession, TypeOK
  <2>. QED  BY <2>1, <2>2, CountStands DEF OutcomeCounts
<1>3. CASE ReceiveBad
  <2>1. UNCHANGED <<session, frames, wire, up, sendVars, seen>> /\ outcome'.kind = "error"
    BY <1>3 DEF ReceiveBad
  <2>. QED  BY <2>1, CountStands DEF OutcomeCounts
<1>4. CASE ~ReceiveBad /\ ~LookupRefused /\ ~FnRaises /\ ~Finish /\ ~OutcomeBegin /\ ~OutcomeEnd
  <2>1. /\ UNCHANGED <<outVars, item>> /\ (up' => up) /\ seen \subseteq seen'
        /\ \A t \in Threads : InFlight(t)' <=> InFlight(t)
    BY <1>4 DEF HandlerStep, Receive, Lookup, Enter, ContextBuilt, ContextRaises, FnItem,
         Unfinished, InFunction, Step, FnReturns, FnEscapes, ContextCloses, ContextCloseRaises,
         OutcomeLost, Leave, TypeOK
  <2>2. OutcomeCounts'
    BY <2>1 DEF CountInv, OutcomeCounts
  <2>. QED  BY <2>1, <2>2, CountStands
<1>. QED  BY <1>1, <1>2, <1>3, <1>4

\* No TERMINAL is on the socket while the session is open.
LEMMA NoTerminalYet ==
    ASSUME OutputInv, CountInv, session = "open", ~Saw("overlap"),
           NEW i \in 1..Len(wire)
    PROVE  wire[i].frame.kind # "terminal"
BY DEF OutputInv, WireFollowsWriters, IsOutcome, CountInv, OutcomeCounts

\* An item is counted once and in order, and one that is given up ends the count
\* or the session.
LEMMA SendKeepsCount ==
    ASSUME TypeOK, OutputInv, CountInv, NEW t \in Threads, SendStep(t)
    PROVE  CountInv'
<1>0. /\ frames \in Nat /\ \A u \in Threads : item[u] \in Nat
      /\ \A j \in Sent : SeqAt(j) \in Nat
      /\ Len(wire) \in Nat
      /\ \A u \in Threads : u # t /\ spc[t] # "idle" => spc[u] = "idle"
  BY SeqsAreNumbers, SenderAlone DEF OutputInv
<1>1. CASE SendBegin(t)
  <2>1. /\ UNCHANGED <<outVars, up, item, seen>>
        /\ \A u \in Threads : InFlight(u)' <=> InFlight(u)
    BY <1>1 DEF SendBegin, OnChannel, Step, TypeOK
  <2>2. OutcomeCounts'
    BY <2>1 DEF CountInv, OutcomeCounts
  <2>. QED  BY <2>1, <2>2, CountStands
<1>2. CASE Emit(t)
  <2>1. /\ UNCHANGED <<session, outcome, wire, up, seen>> /\ frames' = frames + 1
        /\ session = "open" /\ spc[t] = "emit"
        /\ item'[t] = frames /\ \A u \in Threads : InFlight(u)' <=> u = t
    BY <1>0, <1>2 DEF Emit, CanEmit, Step, TypeOK
  <2>2. OutcomeCounts' /\ outcome.kind # "terminal"
    BY <2>1 DEF CountInv, OutcomeCounts
  <2> SUFFICES ASSUME ItemsCounted, ~Saw("overlap") PROVE ItemsCounted'
    BY <2>1, <2>2 DEF CountInv
  <2>3. Sent' = Sent /\ \A j \in Sent : SeqAt(j)' = SeqAt(j) /\ SeqAt(j) < frames
    BY <2>1 DEF Sent, ItemsCounted
  <2>4. ASSUME up, NEW k \in 0..(frames' - 1)
        PROVE  (\E j \in Sent : SeqAt(j) = k) \/ k = item'[t]
    <3>1. \A u \in Threads : ~InFlight(u)
      BY <1>0, <2>1
    <3>2. k \in 0..(frames - 1) \/ k = frames
      BY <1>0, <2>1
    <3>. QED  BY <2>1, <2>4, <3>1, <3>2 DEF ItemsCounted
  <2>5. ~\E i \in 1..Len(wire) : wire[i].frame.kind = "terminal"
    BY <2>1, NoTerminalYet
  <2>. QED  BY <1>0, <2>1, <2>3, <2>4, <2>5 DEF ItemsCounted
<1>3. CASE EmitRefused(t) \/ WriteLost(t)
  <2>1. /\ ItemRaises(t, frames, {}) /\ UNCHANGED <<wire, up>>
        /\ spc[t] = "emit" \/ ~up
    BY <1>3 DEF EmitRefused, Uncounted, WriteLost
  <2>2. /\ UNCHANGED <<wire, up, frames, item>>
        /\ \A u \in Threads : InFlight(u)' => InFlight(u)
        /\ \A u \in Threads : InFlight(u) => InFlight(u)' \/ ~up
        /\ seen \subseteq seen'
        /\ \/ UNCHANGED <<session, outcome>>
           \/ session' = "terminal" /\ outcome'.kind = "error"
    BY <2>1 DEF ItemRaises, EndSend, Step, Conclude, TypeOK
  <2>3. OutcomeCounts'
    BY <2>2 DEF CountInv, OutcomeCounts
  <2>. QED  BY <2>2, <2>3, CountStands
<1>4. CASE EmitOversize(t)
  <2>1. /\ UNCHANGED <<wire, up, item>> /\ frames' = frames + 1
        /\ session = "open" /\ spc[t] = "emit"
        /\ \A u \in Threads : ~InFlight(u)'
        /\ \/ Saw("oversize")' /\ UNCHANGED <<session, outcome>>
           \/ session' = "terminal" /\ outcome'.kind = "error"
        /\ seen \subseteq seen'
    BY <1>0, <1>4 DEF EmitOversize, CanEmit, ItemRaises, EndSend, Step, Conclude, TypeOK
  <2>2. OutcomeCounts'
    BY <2>1 DEF CountInv, OutcomeCounts
  <2> SUFFICES ASSUME ItemsCounted, ~Saw("overlap"), session' = "terminal",
                      outcome'.kind = "error"
               PROVE  ItemsCounted'
    BY <2>1, <2>2 DEF CountInv
  <2>3. Sent' = Sent /\ \A j \in Sent : SeqAt(j)' = SeqAt(j) /\ SeqAt(j) < frames
    BY <2>1 DEF Sent, ItemsCounted
  <2>4. ~\E i \in 1..Len(wire) : wire[i].frame.kind = "terminal"
    BY <2>1, NoTerminalYet
  <2>. QED  BY <1>0, <2>1, <2>3, <2>4 DEF ItemsCounted
<1>5. CASE WriteBegin(t)
  <2>1. /\ UNCHANGED <<session, frames, outcome, up, item, seen>> /\ up /\ spc[t] = "write"
        /\ \A u \in Threads : InFlight(u)' <=> InFlight(u)
        /\ Item(item[t]) \in OutFrames /\ Item(item[t]).kind = "item" /\ Put(Item(item[t]), 1)
    BY <1>5 DEF WriteBegin, Step, Item, OutFrames, TypeOK
  <2>2. OutcomeCounts'
    BY <2>1 DEF CountInv, OutcomeCounts
  <2> SUFFICES ASSUME ItemsCounted PROVE ItemsCounted'
    BY <2>1, <2>2 DEF CountInv
  <2>3. /\ Sent' = Sent
        /\ \A j \in Sent : SeqAt(j)' = SeqAt(j)
    BY <2>1, NothingSent
  <2>4. ASSUME NEW i \in 1..Len(wire'), wire'[i].frame.kind = "terminal"
        PROVE  \E n \in 1..Len(wire) : wire[n].frame.kind = "terminal"
    <3>1. /\ Len(wire') = Len(wire) + 1 /\ wire'[Len(wire')].frame.kind = "item"
          /\ \A n \in 1..Len(wire) : wire'[n] = wire[n]
      <4>1. /\ Len(wire') = Len(wire) + 1
            /\ \A n \in 1..Len(wire) : wire'[n] = wire[n]
            /\ wire'[Len(wire')] = [frame |-> Item(item[t]), part |-> 1]
        BY <2>1, PutPart
      <4>. QED  BY <2>1, <4>1
    <3>. QED  BY <1>0, <2>4, <3>1
  <2>. QED  BY <2>1, <2>3, <2>4 DEF ItemsCounted
<1>6. CASE WriteEnd(t)
  <2>1. /\ UNCHANGED <<session, frames, outcome, up, item, seen>> /\ up /\ spc[t] = "half"
        /\ \A u \in Threads : ~InFlight(u)'
        /\ Item(item[t]) \in OutFrames /\ Put(Item(item[t]), 2)
    BY <1>0, <1>6 DEF WriteEnd, EndSend, Step, Item, OutFrames, TypeOK
  <2>2. OutcomeCounts'
    BY <2>1 DEF CountInv, OutcomeCounts
  <2> SUFFICES ASSUME ItemsCounted, ~Saw("overlap") PROVE ItemsCounted'
    BY <2>1, <2>2 DEF CountInv
  <2>3. /\ Len(wire') = Len(wire) + 1
        /\ \A n \in 1..Len(wire) : wire'[n] = wire[n]
        /\ wire'[Len(wire')] = [frame |-> Item(item[t]), part |-> 2]
    BY <2>1, PutPart
  <2>4. PICK last \in Nat : last = Len(wire) + 1
    BY <1>0
  <2>a. /\ Sent' = Sent \cup {last}
        /\ \A j \in Sent : SeqAt(j)' = SeqAt(j) /\ j < last
        /\ SeqAt(last)' = item[t]
    <3>1. Sent' = Sent \cup {last}
      BY <1>0, <2>3, <2>4 DEF Sent, Item
    <3>2. \A j \in Sent : SeqAt(j)' = SeqAt(j) /\ j < last
      BY <1>0, <2>3, <2>4 DEF Sent
    <3>3. SeqAt(last)' = item[t]
      BY <1>0, <2>1, <2>3, <2>4 DEF Item
    <3>. QED  BY <3>1, <3>2, <3>3
  <2>5. item[t] + 1 = frames /\ \A j \in Sent : SeqAt(j) < item[t]
    BY <2>1 DEF ItemsCounted
  <2>6. \A u \in Threads : InFlight(u) => u = t
    BY <1>0, <2>1
  <2>7. hpc \notin Concluding \cup {"done"}
    BY <2>1 DEF OutputInv, WireFollowsWriters, HandlerFollowsSession
  <2>8. ~\E i \in 1..Len(wire') : wire'[i].frame.kind = "terminal"
    <3>1. \A i \in 1..Len(wire) : ~IsOutcome(wire[i].frame)
      BY <2>7 DEF OutputInv, WireFollowsWriters, Concluding
    <3>. QED  BY <1>0, <2>3, <3>1 DEF IsOutcome, Item
  <2>9. \A j, k \in Sent' : j < k => SeqAt(j)' < SeqAt(k)'
    <3> SUFFICES ASSUME NEW j \in Sent', NEW k \in Sent', j < k PROVE SeqAt(j)' < SeqAt(k)'
      OBVIOUS
    <3>1. Sent \subseteq Nat
      BY <1>0 DEF Sent
    <3>2. j \in Sent
      BY <2>4, <2>a, <3>1
    <3>3. CASE k \in Sent
      BY <2>a, <3>2, <3>3 DEF ItemsCounted
    <3>4. CASE k = last
      BY <2>a, <2>5, <3>2, <3>4
    <3>. QED  BY <2>a, <3>3, <3>4
  <2>10. \A j \in Sent' : SeqAt(j)' < frames
    BY <1>0, <2>a, <2>5
  <2>11. ASSUME session = "open" \/ outcome.kind = "terminal", NEW k \in 0..(frames - 1)
         PROVE  \E j \in Sent' : SeqAt(j)' = k
    <3>1. (\E j \in Sent : SeqAt(j) = k) \/ k = item[t]
      BY <2>1, <2>6, <2>11 DEF ItemsCounted
    <3>. QED  BY <2>a, <3>1
  <2>. QED  BY <2>1, <2>8, <2>9, <2>10, <2>11 DEF ItemsCounted
<1>. QED  BY <1>1, <1>2, <1>3, <1>4, <1>5, <1>6 DEF SendStep

\* A caller can verify every output that TERMINAL closes (OutputVerifiable): its
\* count is that of the items before it, whatever sends have failed.
THEOREM OutputIsVerifiable == Spec => []OutputVerifiable
<1>1. Init => CountInv
  <2> SUFFICES ASSUME Init PROVE CountInv
    OBVIOUS
  <2>1. Sent = {} /\ frames = 0 /\ outcome = NoFrame /\ \A t \in Threads : spc[t] = "idle"
    BY DEF Init, Sent
  <2>2. \A i \in 1..Len(wire) : FALSE
    BY DEF Init
  <2>. QED  BY <2>1, <2>2 DEF CountInv, OutcomeCounts, ItemsCounted, NoFrame
<1>2. SessionInv /\ CountInv /\ [Next]_vars => CountInv'
  <2> SUFFICES ASSUME TypeOK, OutputInv, CountInv, [Next]_vars PROVE CountInv'
    BY DEF SessionInv
  <2>1. CASE UNCHANGED vars
    <3>1. OutcomeCounts'
      BY <2>1 DEF vars, CountInv, OutcomeCounts
    <3>. QED  BY <2>1, <3>1, CountStands DEF vars
  <2>. QED  BY <2>1, HandlerKeepsCount, SendKeepsCount, InputLeavesCount DEF Next
<1>3. SessionInv /\ CountInv => OutputVerifiable
  <2> SUFFICES ASSUME TypeOK, OutputInv, CountInv, ~Saw("overlap"), ~Saw("oversize"),
                      NEW i \in 1..Len(wire), wire[i].frame.kind = "terminal"
               PROVE  /\ {SeqAt(j) : j \in Sent} = 0..(wire[i].frame.seq - 1)
                      /\ \A j, k \in Sent : j < k => SeqAt(j) < SeqAt(k)
    BY DEF SessionInv, OutputVerifiable, TerminalMatches
  <2>1. wire[i].frame.seq = frames
    <3>1. wire[i].frame = outcome
      BY DEF OutputInv, WireFollowsWriters, IsOutcome
    <3>. QED  BY <3>1 DEF CountInv, OutcomeCounts
  <2>2. ItemsCounted /\ frames \in Nat /\ \A j \in Sent : SeqAt(j) \in Nat
    BY SeqsAreNumbers DEF CountInv
  <2>3. \A j \in Sent : SeqAt(j) \in 0..(frames - 1)
    BY <2>2 DEF ItemsCounted
  <2>4. \A k \in 0..(frames - 1) : \E j \in Sent : SeqAt(j) = k
    BY <2>2 DEF ItemsCounted
  <2>. QED  BY <2>1, <2>2, <2>3, <2>4 DEF ItemsCounted
<1>. QED  BY <1>1, <1>2, <1>3, SessionInvariance, PTL DEF Spec

-----------------------------------------------------------------------------
(* The answer                                                                *)

\* Where an outcome is on the socket.
OutcomeAt(i) == IsOutcome(wire[i].frame)

\* The handler is the only one that writes an outcome, and it does so once; the socket is
\* closed by it or lost.
AnswerInv ==
    /\ hpc \notin {"half", "done"} => \A i \in 1..Len(wire) : ~OutcomeAt(i)
    /\ hpc = "half" => \A i \in 1..Len(wire) : OutcomeAt(i) => wire[i].part = 1
    /\ ~up => hpc = "done" \/ Saw("dropped")
    /\ AnsweredOnce

USE DEF OutcomeAt, HasOutcome

\* A step that writes nothing keeps the answer, unless the handler leaves by it.
LEMMA AnswerStands ==
    ASSUME AnswerInv, wire' = wire, seen \subseteq seen', up' = up \/ "dropped" \in seen',
           hpc' = hpc \/ {hpc, hpc'} \cap {"half", "done"} = {}
    PROVE  AnswerInv'
BY DEF AnswerInv, AnsweredOnce

\* Nor does an item on the socket touch it.
LEMMA ItemKeepsAnswer ==
    ASSUME TypeOK, AnswerInv, NEW f \in OutFrames, ~IsOutcome(f), NEW part \in {1, 2}, Put(f, part),
           UNCHANGED <<hpc, up, seen>>
    PROVE  AnswerInv'
<1>1. wire \in Seq(Parts) /\ [frame |-> f, part |-> part] \in Parts
  BY DEF TypeOK, Parts
<1>2. /\ Len(wire') = Len(wire) + 1 /\ Len(wire) \in Nat
      /\ \A i \in 1..Len(wire) : wire'[i] = wire[i]
      /\ wire'[Len(wire) + 1] = [frame |-> f, part |-> part]
  <2>. HIDE DEF Parts
  <2>. QED  BY <1>1 DEF Put
<1>3. \A i \in 1..Len(wire') : IsOutcome(wire'[i].frame) => i \in 1..Len(wire) /\ wire'[i] = wire[i]
  BY <1>2
<1>. QED  BY <1>2, <1>3 DEF AnswerInv, AnsweredOnce

\* The handler answers once, and leaves after it has answered or failed to.
LEMMA HandlerKeepsAnswer ==
    ASSUME TypeOK, OutputInv, AnswerInv, HandlerStep
    PROVE  AnswerInv'
<1>1. CASE \/ ReceiveBad \/ Receive \/ LookupRefused \/ Lookup \/ ContextBuilt \/ FnItem
           \/ FnReturns \/ FnRaises \/ ContextCloses \/ Finish
  BY <1>1, AnswerStands DEF ReceiveBad, Receive, LookupRefused, Lookup, Enter, ContextBuilt, FnItem,
     FnReturns, FnRaises, ContextCloses, Finish, Conclude, Unfinished, InFunction
<1>2. CASE ContextRaises \/ FnEscapes \/ ContextCloseRaises
  BY <1>2 DEF ContextRaises, FnEscapes, ContextCloseRaises, Leave, Unfinished, InFunction,
     AnswerInv, AnsweredOnce
<1>3. CASE OutcomeLost
  BY <1>3 DEF OutcomeLost, Leave, AnswerInv, AnsweredOnce
<1>4. CASE OutcomeBegin \/ OutcomeEnd
  <2> DEFINE part == IF hpc = "write" THEN 1 ELSE 2
  <2>1. /\ IsOutcome(outcome) /\ outcome \in OutFrames /\ wire \in Seq(Parts)
        /\ wire' = Append(wire, [frame |-> outcome, part |-> part])
    BY <1>4 DEF OutcomeBegin, OutcomeEnd, Put, OutputInv, HandlerFollowsSession, Concluding, TypeOK
  <2>2. [frame |-> outcome, part |-> part] \in Parts
    BY <2>1 DEF Parts
  <2>3. /\ Len(wire') = Len(wire) + 1 /\ Len(wire) \in Nat
        /\ \A i \in 1..Len(wire) : wire'[i] = wire[i]
        /\ wire'[Len(wire) + 1] = [frame |-> outcome, part |-> part]
    <3>. HIDE DEF Parts, part
    <3>. QED  BY <2>1, <2>2
  <2>4. \A i \in 1..Len(wire) : OutcomeAt(i) => wire[i].part # part
    BY <1>4 DEF OutcomeBegin, OutcomeEnd, AnswerInv
  <2>5. \A i, j \in 1..Len(wire') :
           (/\ IsOutcome(wire'[i].frame) /\ IsOutcome(wire'[j].frame)
            /\ wire'[i].part = wire'[j].part) => i = j
    <3>. HIDE DEF part
    <3>1. \A i \in 1..Len(wire') : i \in 1..Len(wire) \/ i = Len(wire) + 1
      BY <2>3
    <3>2. wire'[Len(wire) + 1].part = part
      BY <2>3
    <3>. QED  BY <2>3, <2>4, <3>1, <3>2 DEF AnswerInv, AnsweredOnce
  <2>6. CASE OutcomeBegin
    <3>1. hpc = "write" /\ hpc' = "half" /\ up' = up /\ up /\ part = 1
      BY <2>6 DEF OutcomeBegin
    <3>2. \A i \in 1..Len(wire') : wire'[i] = wire[i] \/ wire'[i].part = 1
      BY <2>3, <3>1
    <3>3. \A i \in 1..Len(wire') : IsOutcome(wire'[i].frame) => wire'[i].part = 1
      BY <2>3, <3>1 DEF AnswerInv
    <3>. QED  BY <2>5, <3>1, <3>3 DEF AnswerInv, AnsweredOnce
  <2>7. CASE OutcomeEnd
    <3>1. hpc = "half" /\ hpc' = "done"
      BY <2>7 DEF OutcomeEnd, Leave
    <3>2. wire'[Len(wire')].part = 2 /\ IsOutcome(wire'[Len(wire')].frame) /\ Len(wire') \in 1..Len(wire')
      BY <2>1, <2>3, <3>1
    <3>. QED  BY <2>5, <3>1, <3>2 DEF AnswerInv, AnsweredOnce
  <2>. QED  BY <1>4, <2>6, <2>7
<1>. QED  BY <1>1, <1>2, <1>3, <1>4 DEF HandlerStep

\* A sender writes items, and raises on the handler's thread only while the function runs.
LEMMA SendKeepsAnswer ==
    ASSUME TypeOK, OutputInv, AnswerInv, NEW t \in Threads, SendStep(t)
    PROVE  AnswerInv'
<1>1. CASE SendBegin(t) \/ Emit(t)
  BY <1>1, AnswerStands DEF SendBegin, Emit
<1>2. CASE EmitOversize(t) \/ EmitRefused(t) \/ WriteLost(t)
  <2>1. spc[t] # "idle" /\ wire' = wire /\ up' = up /\ \E n \in {frames, frames + 1}, e \in {{}, {"oversize"}} : ItemRaises(t, n, e)
    BY <1>2 DEF EmitOversize, EmitRefused, Uncounted, WriteLost
  <2>2. mode # "duplex" => hpc = "run"
    BY <2>1 DEF OutputInv, OneSender
  <2>3. seen \subseteq seen' /\ (hpc' = hpc \/ (hpc = "run" /\ hpc' = "write"))
    BY <2>1, <2>2 DEF ItemRaises, Conclude
  <2>. QED  BY <2>1, <2>3, AnswerStands
<1>3. CASE WriteBegin(t) \/ WriteEnd(t)
  <2>1. Item(item[t]) \in OutFrames /\ ~IsOutcome(Item(item[t]))
    BY DEF TypeOK, OutFrames, Item, IsOutcome
  <2>. QED  BY <1>3, <2>1, ItemKeepsAnswer DEF WriteBegin, WriteEnd
<1>. QED  BY <1>1, <1>2, <1>3 DEF SendStep

\* The input lane has no part in it, and a lost connection is remembered.
LEMMA InputLeavesAnswer ==
    ASSUME AnswerInv, PeerStep \/ \E t \in Threads : RecvStep(t)
    PROVE  AnswerInv'
<1>1. CASE PeerStep
  BY <1>1, AnswerStands DEF PeerStep, PeerItem, PeerOther, PeerHalfClose, PeerSends, PeerSkip, Drop
<1>2. ASSUME NEW t \in Threads, RecvStep(t) PROVE AnswerInv'
  BY <1>2, AnswerStands DEF RecvStep, RecvTake, RecvGap, RecvHalfClose, RecvOther, RecvItem,
                            RecvUndecodable, CountItem, EndRecv
<1>. QED  BY <1>1, <1>2

\* A call is answered at most once, and at least once unless the connection is lost or an
\* exception passes the handler by (AnsweredOnce): what of "Exactly one terminal/error
\* outcome" the host keeps, also while helper threads outlive the function.
THEOREM CallsAnsweredOnce == Spec => []AnsweredOnce
<1>1. Init => AnswerInv
  BY DEF Init, AnswerInv, AnsweredOnce
<1>2. SessionInv /\ AnswerInv /\ [Next]_vars => AnswerInv'
  <2> SUFFICES ASSUME TypeOK, OutputInv, AnswerInv, [Next]_vars PROVE AnswerInv'
    BY DEF SessionInv
  <2>1. CASE UNCHANGED vars
    BY <2>1, AnswerStands DEF vars
  <2>. QED  BY <2>1, HandlerKeepsAnswer, SendKeepsAnswer, InputLeavesAnswer DEF Next
<1>3. AnswerInv => AnsweredOnce
  BY DEF AnswerInv
<1>. QED  BY <1>1, <1>2, <1>3, SessionInvariance, PTL DEF Spec
=============================================================================
