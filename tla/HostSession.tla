----------------------------- MODULE HostSession ----------------------------
(***************************************************************************)
(* One invocation on one host connection: the handler thread that serves   *)
(* it (easyremote/_host/server.py), the terminal state machine of its      *)
(* session (_host/protocol.py) and the provider's duplex channel           *)
(* (duplex.py).                                                            *)
(*                                                                         *)
(* The provider function runs on the handler thread, Main; a duplex        *)
(* function may share its channel with Helpers, threads of its own that    *)
(* nobody joins.  A frame reaches the socket in two parts, because sendall *)
(* writes a large frame in several calls.  Items are identified by their   *)
(* sequence number; the rolling digest of the session covers exactly the   *)
(* items that `frames' counts, so a digest is represented by that count.   *)
(***************************************************************************)
EXTENDS Integers, Sequences, FiniteSets

CONSTANTS
    Helpers,        \* threads of the provider function besides the handler
    Main,           \* the handler thread
    Nobody,         \* no thread
    MaxItems,       \* bound: items the function emits
    MaxInput        \* bound: sequence numbers of the peer's input frames

ASSUME SessionAssumption ==
    /\ Main \notin Helpers
    /\ Nobody \notin Helpers \cup {Main}
    /\ MaxItems \in Nat
    /\ MaxInput \in Nat

Threads == Helpers \cup {Main}
Modes == {"unary", "stream", "duplex"}

VARIABLES
    mode,           \* what the called function is
    takesContext,   \* it takes a Context
    hpc,            \* control state of the handler
    session,        \* HostSession.state
    frames,         \* HostSession.frames
    outcome,        \* the TERMINAL or ERROR frame being written
    wire,           \* parts of frames written to the socket
    up,             \* the host can still write to the socket
    spc,            \* spc[t]: where thread t is in sending an item
    item,           \* item[t]: sequence number of that item
    writer,         \* holder of Duplex._write_lock
    inflow,         \* frames of the peer not yet received
    nextIn,         \* sequence number of the peer's next frame
    reader,         \* holder of Duplex._read_lock
    got,            \* got[t]: the frame that thread t has just received
    inSeq,          \* Duplex._sequence
    inClosed,       \* Duplex._input_closed
    delivered,      \* history: input items handed to the function
    raised,         \* history: input items in whose place recv() raised
    seen            \* history: the events the properties refer to

callVars == <<mode, takesContext>>
outVars == <<session, frames, outcome, wire>>
sendVars == <<spc, item, writer>>
peerVars == <<inflow, nextIn>>
recvVars == <<reader, got, inSeq, inClosed, delivered, raised>>
vars == <<callVars, hpc, outVars, up, sendVars, peerVars, recvVars, seen>>

-----------------------------------------------------------------------------
(* Types *)

HandlerSteps == {"receive", "lookup", "context", "run", "close", "finish",
                 "write", "half", "done"}
SendSteps == {"idle", "emit", "write", "half"}
Seqs == 0..MaxItems
NoFrame == [kind |-> "none", seq |-> 0]
OutFrames == [kind : {"none", "item", "terminal", "error"}, seq : Seqs]
InFrames == [kind : {"none", "item", "half_close", "other"}, seq : 0..MaxInput]
Parts == [frame : OutFrames, part : {1, 2}]

\* ran: the provider function was called.  fault: an exception left the handler
\* uncaught.  overlap: an outcome was chosen while another thread was sending.
\* oversize: an item was counted and then refused by its size.  dropped: the
\* connection was lost.  half_closed: the peer ended its input.  gap: a
\* receiver was told that the input is truncated.  faulty: the peer left a
\* sequence number out or sent a frame that is no input.
Events == {"ran", "fault", "overlap", "oversize", "dropped", "half_closed", "gap",
           "faulty"}

\* Type invariant.
TypeOK ==
    /\ mode \in Modes
    /\ takesContext \in BOOLEAN
    /\ hpc \in HandlerSteps
    /\ session \in {"open", "terminal"}
    /\ frames \in Seqs
    /\ outcome \in OutFrames
    /\ wire \in Seq(Parts)
    /\ up \in BOOLEAN
    /\ spc \in [Threads -> SendSteps]
    /\ item \in [Threads -> Seqs]
    /\ writer \in Threads \cup {Nobody}
    /\ inflow \in Seq(InFrames)
    /\ nextIn \in 0..MaxInput
    /\ reader \in Threads \cup {Nobody}
    /\ got \in [Threads -> InFrames]
    /\ inSeq \in 0..MaxInput
    /\ inClosed \in BOOLEAN
    /\ delivered \in Seq(0..MaxInput)
    /\ raised \subseteq 0..MaxInput
    /\ seen \subseteq Events

-----------------------------------------------------------------------------
(* Helpers *)

Mark(events) == seen' = seen \cup events
Saw(event) == event \in seen
Item(n) == [kind |-> "item", seq |-> n]
Put(frame, part) == wire' = Append(wire, [frame |-> frame, part |-> part])
Step(t, step) == spc' = [spc EXCEPT ![t] = step]

\* Mutants: plausible bugs, each in place of one definition below.

\* A terminal session still emits.
AlwaysOpen == TRUE

\* Duplex.send() takes no lock.
WriteUnlocked == TRUE

\* Duplex.recv() takes no lock.
ReadUnlocked == TRUE

\* Duplex.recv() does not compare sequence numbers.
AnySequence(frame) == TRUE

\* emit() counts an item before it encodes it.
CountFirst == frames + 1

-----------------------------------------------------------------------------
(* Outcomes *)

\* HostSession.finish() and fail(): the session is terminal and the outcome
\* carries the count of the session.  Neither takes the channel's write lock.
Conclude(kind, count) ==
    /\ session' = "terminal"
    /\ outcome' = [kind |-> kind, seq |-> count]
    /\ hpc' = "write"
    /\ Mark(IF \E t \in Helpers : spc[t] # "idle" THEN {"overlap"} ELSE {})

\* The handler leaves `with connection', which closes the socket.
Leave(events) ==
    /\ hpc' = "done"
    /\ up' = FALSE
    /\ Mark(events)

OutcomeBegin ==
    /\ hpc = "write"
    /\ up
    /\ Put(outcome, 1)
    /\ hpc' = "half"
    /\ UNCHANGED <<callVars, session, frames, outcome, up, sendVars, peerVars,
                   recvVars, seen>>

OutcomeEnd ==
    /\ hpc = "half"
    /\ up
    /\ Put(outcome, 2)
    /\ Leave({})
    /\ UNCHANGED <<callVars, session, frames, outcome, sendVars, peerVars, recvVars>>

\* sendall raises OSError, which _serve_owned_connection swallows.
OutcomeLost ==
    /\ hpc \in {"write", "half"}
    /\ ~up
    /\ Leave({})
    /\ UNCHANGED <<callVars, outVars, sendVars, peerVars, recvVars>>

-----------------------------------------------------------------------------
(* The request *)

\* A request that cannot be read is answered without a session.
ReceiveBad ==
    /\ hpc = "receive"
    /\ outcome' = [kind |-> "error", seq |-> 0]
    /\ hpc' = "write"
    /\ UNCHANGED <<callVars, session, frames, wire, up, sendVars, peerVars,
                   recvVars, seen>>

Receive ==
    /\ hpc = "receive"
    /\ hpc' = "lookup"
    /\ UNCHANGED <<callVars, outVars, up, sendVars, peerVars, recvVars, seen>>

\* The function is unknown or its arguments are no object.
LookupRefused ==
    /\ hpc = "lookup"
    /\ Conclude("error", frames)
    /\ UNCHANGED <<callVars, frames, wire, up, sendVars, peerVars, recvVars>>

Enter ==
    /\ hpc' = "run"
    /\ Mark({"ran"})

Lookup ==
    /\ hpc = "lookup"
    /\ IF takesContext THEN hpc' = "context" /\ UNCHANGED seen ELSE Enter
    /\ UNCHANGED <<callVars, outVars, up, sendVars, peerVars, recvVars>>

ContextBuilt ==
    /\ hpc = "context"
    /\ Enter
    /\ UNCHANGED <<callVars, outVars, up, sendVars, peerVars, recvVars>>

\* The parent receipt does not project into a receipt reference: the
\* exception is raised outside the try of _serve_stream.
ContextRaises ==
    /\ hpc = "context"
    /\ Leave({"fault"})
    /\ UNCHANGED <<callVars, outVars, sendVars, peerVars, recvVars>>

-----------------------------------------------------------------------------
(* The provider function on the handler thread *)

\* Main is in the function's own code.  A unary function is over once its
\* value is on its way.
InFunction ==
    /\ hpc = "run"
    /\ spc[Main] = "idle"
    /\ got[Main] = NoFrame

Unfinished == InFunction /\ (mode = "unary" => frames = 0)

\* The value of a unary function or the next one of a generator.
FnItem ==
    /\ Unfinished
    /\ mode # "duplex"
    /\ Step(Main, "emit")
    /\ UNCHANGED <<callVars, hpc, outVars, up, item, writer, peerVars, recvVars, seen>>

\* The function is done: its Context is closed before the TERMINAL frame.
FnReturns ==
    /\ InFunction
    /\ mode = "unary" => frames = 1
    /\ hpc' = IF takesContext THEN "close" ELSE "finish"
    /\ UNCHANGED <<callVars, outVars, up, sendVars, peerVars, recvVars, seen>>

\* An Exception becomes an ERROR frame; the Context is closed after it.
FnRaises ==
    /\ Unfinished
    /\ Conclude("error", frames)
    /\ UNCHANGED <<callVars, frames, wire, up, sendVars, peerVars, recvVars>>

\* Another BaseException (SystemExit, CancelledError) passes both handlers by.
FnEscapes ==
    /\ Unfinished
    /\ Leave({"fault"})
    /\ UNCHANGED <<callVars, outVars, sendVars, peerVars, recvVars>>

ContextCloses ==
    /\ hpc = "close"
    /\ hpc' = "finish"
    /\ UNCHANGED <<callVars, outVars, up, sendVars, peerVars, recvVars, seen>>

\* Closing the client of the Context raises out of the finally clause.
ContextCloseRaises ==
    /\ hpc = "close"
    /\ Leave({"fault"})
    /\ UNCHANGED <<callVars, outVars, sendVars, peerVars, recvVars>>

Finish ==
    /\ hpc = "finish"
    /\ Conclude("terminal", frames)
    /\ UNCHANGED <<callVars, frames, wire, up, sendVars, peerVars, recvVars>>

-----------------------------------------------------------------------------
(* Sending an item: HostSession.emit(), HostFrame.to_bytes() and sendall, on
   the handler thread of a unary or stream function and in Duplex.send(). *)

\* Threads that may use the channel: the function's, while it runs, and its
\* helpers from then on.
OnChannel(t) ==
    /\ mode = "duplex"
    /\ Saw("ran")
    /\ t = Main => hpc = "run"
    /\ spc[t] = "idle"
    /\ got[t] = NoFrame

WriterFree == writer = Nobody

SendBegin(t) ==
    /\ OnChannel(t)
    /\ WriterFree
    /\ writer' = t
    /\ Step(t, "emit")
    /\ UNCHANGED <<callVars, hpc, outVars, up, item, peerVars, recvVars, seen>>

\* The thread is through with its item.
EndSend(t) ==
    /\ Step(t, "idle")
    /\ writer' = IF writer = t THEN Nobody ELSE writer
    /\ UNCHANGED item

\* The item raises.  In a duplex function that is the function's affair, which
\* may swallow it; elsewhere the handler answers with an ERROR frame.
ItemRaises(t, count, events) ==
    /\ EndSend(t)
    /\ frames' = count
    /\ IF mode = "duplex"
       THEN Mark(events) /\ UNCHANGED <<hpc, session, outcome>>
       ELSE Conclude("error", count)

CanEmit == session = "open"

Emit(t) ==
    /\ spc[t] = "emit"
    /\ CanEmit
    /\ frames < MaxItems
    /\ frames' = frames + 1
    /\ item' = [item EXCEPT ![t] = frames]
    /\ Step(t, "write")
    /\ UNCHANGED <<callVars, hpc, session, outcome, wire, up, writer, peerVars,
                   recvVars, seen>>

\* The frame is larger than the protocol allows: to_bytes() raises after
\* emit() has counted the item and folded it into the digest.
EmitOversize(t) ==
    /\ spc[t] = "emit"
    /\ CanEmit
    /\ frames < MaxItems
    /\ ItemRaises(t, frames + 1, {"oversize"})
    /\ UNCHANGED <<callVars, wire, up, peerVars, recvVars>>

\* The session is terminal, or the value cannot be encoded.
Uncounted == frames

EmitRefused(t) ==
    /\ spc[t] = "emit"
    /\ ItemRaises(t, Uncounted, {})
    /\ UNCHANGED <<callVars, wire, up, peerVars, recvVars>>

WriteBegin(t) ==
    /\ spc[t] = "write"
    /\ up
    /\ Put(Item(item[t]), 1)
    /\ Step(t, "half")
    /\ UNCHANGED <<callVars, hpc, session, frames, outcome, up, item, writer,
                   peerVars, recvVars, seen>>

WriteEnd(t) ==
    /\ spc[t] = "half"
    /\ up
    /\ Put(Item(item[t]), 2)
    /\ EndSend(t)
    /\ UNCHANGED <<callVars, hpc, session, frames, outcome, up, peerVars, recvVars,
                   seen>>

WriteLost(t) ==
    /\ spc[t] \in {"write", "half"}
    /\ ~up
    /\ ItemRaises(t, frames, {})
    /\ UNCHANGED <<callVars, wire, up, peerVars, recvVars>>

-----------------------------------------------------------------------------
(* Duplex.recv().  After the half-close, and at the end of a lost connection,
   it raises and changes nothing. *)

ReaderFree == reader = Nobody

RecvTake(t) ==
    /\ OnChannel(t)
    /\ hpc # "done"
    /\ ReaderFree
    /\ ~inClosed
    /\ inflow # <<>>
    /\ reader' = t
    /\ got' = [got EXCEPT ![t] = Head(inflow)]
    /\ inflow' = Tail(inflow)
    /\ UNCHANGED <<callVars, hpc, outVars, up, sendVars, nextIn, inSeq, inClosed,
                   delivered, raised, seen>>

\* The lock is released and the call ends.
EndRecv(t) ==
    /\ got' = [got EXCEPT ![t] = NoFrame]
    /\ reader' = IF reader = t THEN Nobody ELSE reader
    /\ UNCHANGED <<callVars, hpc, outVars, up, sendVars, peerVars>>

SequenceFits(frame) == frame.seq = inSeq

RecvGap(t) ==
    /\ got[t] # NoFrame
    /\ ~SequenceFits(got[t])
    /\ Mark({"gap"})
    /\ EndRecv(t)
    /\ UNCHANGED <<inSeq, inClosed, delivered, raised>>

RecvHalfClose(t) ==
    /\ got[t].kind = "half_close"
    /\ SequenceFits(got[t])
    /\ inClosed' = TRUE
    /\ EndRecv(t)
    /\ UNCHANGED <<inSeq, delivered, raised, seen>>

\* A frame of another kind, or a half-close with a payload, is refused.
RecvOther(t) ==
    /\ got[t].kind = "other"
    /\ SequenceFits(got[t])
    /\ EndRecv(t)
    /\ UNCHANGED <<inSeq, inClosed, delivered, raised, seen>>

\* An item is counted before it is decoded.
CountItem(t) ==
    /\ got[t].kind = "item"
    /\ SequenceFits(got[t])
    /\ inSeq' = inSeq + 1
    /\ EndRecv(t)
    /\ UNCHANGED <<inClosed, seen>>

RecvItem(t) ==
    /\ CountItem(t)
    /\ delivered' = Append(delivered, got[t].seq)
    /\ UNCHANGED raised

\* Its payload is called JSON and is none: decode_item() raises, and the function,
\* which may swallow that, finds the next item in sequence.
RecvUndecodable(t) ==
    /\ CountItem(t)
    /\ raised' = raised \cup {got[t].seq}
    /\ UNCHANGED delivered

-----------------------------------------------------------------------------
(* The daemon at the other end (external) *)

PeerSends(kind, events) ==
    /\ mode = "duplex"
    /\ up
    /\ ~Saw("half_closed")
    /\ inflow' = Append(inflow, [kind |-> kind, seq |-> nextIn])
    /\ Mark(events)
    /\ UNCHANGED <<callVars, hpc, outVars, up, sendVars, recvVars>>

PeerItem ==
    /\ nextIn < MaxInput
    /\ PeerSends("item", {})
    /\ nextIn' = nextIn + 1

PeerOther ==
    /\ nextIn < MaxInput
    /\ PeerSends("other", {"faulty"})
    /\ nextIn' = nextIn + 1

PeerHalfClose ==
    /\ PeerSends("half_close", {"half_closed"})
    /\ UNCHANGED nextIn

\* A frame is lost between the caller and the host.
PeerSkip ==
    /\ mode = "duplex"
    /\ ~Saw("half_closed")
    /\ nextIn < MaxInput
    /\ nextIn' = nextIn + 1
    /\ Mark({"faulty"})
    /\ UNCHANGED <<callVars, hpc, outVars, up, sendVars, inflow, recvVars>>

\* The peer disconnects, or HostServer.stop() shuts the socket down.
Drop ==
    /\ up
    /\ up' = FALSE
    /\ Mark({"dropped"})
    /\ UNCHANGED <<callVars, hpc, outVars, sendVars, peerVars, recvVars>>

-----------------------------------------------------------------------------
(* Specification *)

Init ==
    /\ mode \in Modes
    /\ takesContext \in BOOLEAN
    /\ hpc = "receive"
    /\ session = "open"
    /\ frames = 0
    /\ outcome = NoFrame
    /\ wire = <<>>
    /\ up = TRUE
    /\ spc = [t \in Threads |-> "idle"]
    /\ item = [t \in Threads |-> 0]
    /\ writer = Nobody
    /\ inflow = <<>>
    /\ nextIn = 0
    /\ reader = Nobody
    /\ got = [t \in Threads |-> NoFrame]
    /\ inSeq = 0
    /\ inClosed = FALSE
    /\ delivered = <<>>
    /\ raised = {}
    /\ seen = {}

HandlerStep ==
    \/ ReceiveBad \/ Receive \/ LookupRefused \/ Lookup
    \/ ContextBuilt \/ ContextRaises
    \/ FnItem \/ FnReturns \/ FnRaises \/ FnEscapes
    \/ ContextCloses \/ ContextCloseRaises \/ Finish
    \/ OutcomeBegin \/ OutcomeEnd \/ OutcomeLost

SendStep(t) ==
    \/ SendBegin(t) \/ Emit(t) \/ EmitOversize(t) \/ EmitRefused(t)
    \/ WriteBegin(t) \/ WriteEnd(t) \/ WriteLost(t)

RecvStep(t) ==
    \/ RecvTake(t) \/ RecvGap(t) \/ RecvHalfClose(t) \/ RecvOther(t)
    \/ RecvItem(t) \/ RecvUndecodable(t)

PeerStep == PeerItem \/ PeerOther \/ PeerHalfClose \/ PeerSkip \/ Drop

Next ==
    \/ HandlerStep
    \/ \E t \in Threads : SendStep(t) \/ RecvStep(t)
    \/ PeerStep

Spec == Init /\ [][Next]_vars

-----------------------------------------------------------------------------
(* Properties *)

IsOutcome(frame) == frame.kind \in {"terminal", "error"}

\* The frames of concurrent senders are not torn apart on the socket, unless a
\* thread still sends when the function returns.
FramesWhole ==
    Saw("overlap") \/
        \A i \in 1..Len(wire) :
            /\ wire[i].part = 1 /\ i < Len(wire) =>
                 wire[i + 1] = [wire[i] EXCEPT !.part = 2]
            /\ wire[i].part = 2 => i > 1 /\ wire[i - 1] = [wire[i] EXCEPT !.part = 1]

\* TERMINAL or ERROR is the last frame of the output lane: a helper that goes
\* on sending is refused by the session, not by luck.
OutcomeLast ==
    Saw("overlap") \/
        \A i, j \in 1..Len(wire) :
            i < j /\ IsOutcome(wire[i].frame) => wire[j].frame = wire[i].frame

\* Where a complete item is on the socket, and its sequence number.
Sent == {j \in 1..Len(wire) : wire[j].part = 2 /\ wire[j].frame.kind = "item"}
SeqAt(j) == wire[j].frame.seq

\* The count (and with it the digest) of a TERMINAL frame is that of the items
\* on the socket, which are there in their order.
TerminalMatches ==
    \A i \in 1..Len(wire) : wire[i].frame.kind = "terminal" =>
        /\ {SeqAt(j) : j \in Sent} = 0..(wire[i].frame.seq - 1)
        /\ \A j, k \in Sent : j < k => SeqAt(j) < SeqAt(k)

\* A caller can verify every output that TERMINAL closes, whatever sends failed
\* in between, except for items of illegal size (see OutputDigest).
OutputVerifiable == Saw("overlap") \/ Saw("oversize") \/ TerminalMatches

\* Agent.md: "Rolling SHA-256 over sequence, content type, and exact payload
\* bytes": the digest covers what was sent.
OutputDigest == Saw("overlap") \/ TerminalMatches

\* A complete outcome frame is on the socket.
HasOutcome == \E i \in 1..Len(wire) : wire[i].part = 2 /\ IsOutcome(wire[i].frame)

\* Agent.md: "Exactly one terminal/error outcome."
ExactlyOneOutcome == hpc = "done" => HasOutcome \/ Saw("dropped")

\* What the host does promise of it: no call is answered twice, not even while a
\* helper thread still sends, and only a lost connection or an exception that
\* passes all handlers by leaves a call without an answer.
AnsweredOnce ==
    /\ \A i, j \in 1..Len(wire) :
         (/\ IsOutcome(wire[i].frame) /\ IsOutcome(wire[j].frame)
          /\ wire[i].part = wire[j].part) => i = j
    /\ hpc = "done" => HasOutcome \/ Saw("dropped") \/ Saw("fault")

\* The items that recv() has answered: with their values, in order, each once, or with
\* an exception.
Answered(items) ==
    /\ {delivered[i] : i \in 1..Len(delivered)} = items \ raised
    /\ raised \subseteq items
    /\ \A i, j \in 1..Len(delivered) : i < j => delivered[i] < delivered[j]

\* A function that sees the end of its input was given all of it, in order: no item is
\* missing for which no recv() raised.  One that went on after an exception of decode_item()
\* sees an end like any other (duplex.py counts the item first), so it has to remember.
InputComplete == inClosed => Answered(0..(nextIn - 1))

\* Receiving from several threads does not make intact input look truncated.
NoFalseGap == Saw("gap") => Saw("faulty")

=============================================================================
