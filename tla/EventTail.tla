----------------------------- MODULE EventTail -----------------------------
(***************************************************************************)
(* The tail of a Mission's events (MissionEventTailer of mission.py): pages *)
(* of the daemon's event log are requested one after the other, checked and *)
(* handed out event by event.  The daemon is external: its log also holds   *)
(* the events of other Missions, it may forget old entries, and it may      *)
(* answer a request wrongly (Faults).  Nothing bounds the events of others: *)
(* an entry "other" of the log stands for a run of them, however long.      *)
(***************************************************************************)
EXTENDS Naturals, Sequences, FiniteSets, SequencesExt

CONSTANTS
    MaxEvents,      \* bound of the log entries of the Mission
    MaxOther,       \* bound of the runs of entries of other Missions
    PageLimit,      \* log entries that one page covers
    MaxEmptyPages,  \* max_empty_pages of the tail
    Faults          \* what a page may be besides an honest answer

ASSUME TailAssumption ==
    /\ {MaxEvents, MaxOther, MaxEmptyPages} \subseteq Nat
    /\ PageLimit \in Nat \ {0}
    /\ Faults \subseteq {"unreachable", "stalled", "late", "disordered"}

VARIABLES
    log,            \* the daemon's event log; an index is a sequence number
    floor,          \* entries up to here are no longer retained
    cursor, buffer, emptyPages, closed, terminalSeen,  \* MissionEventTailer
    pc,             \* the consumer: "idle", "filling", "waiting", "ended"
    delivered       \* history: the sequence numbers handed to the consumer

logVars  == <<log, floor>>
tailVars == <<cursor, buffer, emptyPages, closed, terminalSeen, pc, delivered, logVars>>

TailInit ==
    /\ log = <<>> /\ floor = 0
    /\ cursor = 0 /\ buffer = <<>> /\ emptyPages = 0
    /\ closed = FALSE /\ terminalSeen = FALSE
    /\ pc = "idle" /\ delivered = <<>>

----------------------------------------------------------------------------
(* The daemon                                                               *)

Count(kind) == Cardinality({i \in DOMAIN log : log[i] = kind})

\* The terminal event is the Mission's last.
DaemonEmit(kind) ==
    /\ kind = "other" \/ Count("terminal") = 0
    /\ Count(kind) < CASE kind = "other" -> MaxOther
                        [] kind = "step"  -> MaxEvents
                        [] OTHER          -> 1
    /\ log' = Append(log, kind)
    /\ UNCHANGED <<floor, cursor, buffer, emptyPages, closed, terminalSeen, pc, delivered>>

DaemonForget ==
    /\ floor < Len(log)
    /\ floor' = floor + 1
    /\ UNCHANGED <<log, cursor, buffer, emptyPages, closed, terminalSeen, pc, delivered>>

\* The sequence numbers of the Mission's events in from + 1 .. to, in order.
Mine(from, to) ==
    LET mine == {i \in from + 1 .. to : log[i] # "other"}
    IN  CHOOSE s \in [1 .. Cardinality(mine) -> mine] :
          \A i, j \in DOMAIN s : i < j => s[i] < s[j]

HonestPage(c) ==
    LET from == IF floor > c THEN floor ELSE c
        to   == IF from + PageLimit < Len(log) THEN from + PageLimit ELSE Len(log)
    IN  [reached |-> TRUE, cursor |-> c, next |-> to, more |-> to < Len(log),
         dropped |-> from - c, events |-> Mine(from, to)]

\* The answers to a request for the page after c.  A wrong page still lists events of
\* the log in their order, or against it: one that hides or repeats some of them under
\* the cursor that was asked for cannot be told from an honest one.
Pages(c) ==
    LET page == HonestPage(c)
    IN  {page}
        \cup {[page EXCEPT !.reached = FALSE] : f \in Faults \cap {"unreachable"}}
        \cup {[page EXCEPT !.next = c, !.more = TRUE] : f \in Faults \cap {"stalled"}}
        \cup {HonestPage(d) : d \in IF "late" \in Faults THEN 0 .. c ELSE {c}}
        \cup {[page EXCEPT !.events = Reverse(@)] : f \in Faults \cap {"disordered"}}

----------------------------------------------------------------------------
(* The tail                                                                 *)

\* tail_events() again, with the cursor_sequence of a tail read to its end.
OpenTail ==
    /\ pc = "ended"
    /\ buffer' = <<>> /\ emptyPages' = 0
    /\ closed' = FALSE /\ terminalSeen' = FALSE
    /\ pc' = "idle"
    /\ UNCHANGED <<logVars, cursor, delivered>>

\* __next__() with something to hand out; the terminal event closes the tail.
NextBuffered ==
    /\ pc = "idle" /\ buffer # <<>>
    /\ delivered' = Append(delivered, Head(buffer))
    /\ buffer' = Tail(buffer)
    /\ closed' = (closed \/ log[Head(buffer)] = "terminal")
    /\ UNCHANGED <<logVars, cursor, emptyPages, terminalSeen, pc>>

NextEmpty ==
    /\ pc = "idle" /\ buffer = <<>>
    /\ pc' = "filling"
    /\ UNCHANGED <<logVars, cursor, buffer, emptyPages, closed,
                   terminalSeen, delivered>>

\* The head of the loop of _fill_buffer(): request a page or stop iterating.
Fill ==
    /\ pc = "filling"
    /\ pc' = IF closed \/ terminalSeen THEN "ended" ELSE "waiting"
    /\ UNCHANGED <<logVars, cursor, buffer, emptyPages, closed,
                   terminalSeen, delivered>>

\* _event_page(): the cursor does not go back, the events are in order.
WellFormed(page) ==
    /\ page.next >= page.cursor
    /\ \A i \in 1 .. Len(page.events) - 1 : page.events[i] < page.events[i + 1]

\* Mutant: only a page with events must advance the cursor.
StalledWithEvents(page) == page.events # <<>> /\ page.next <= cursor

Stalled(page) == (page.events # <<>> \/ page.more) /\ page.next <= cursor

\* Mutant: dropped events are not noticed.
RefusedUnlessDropped(page) ==
    ~page.reached \/ ~WellFormed(page) \/ page.cursor # cursor \/ Stalled(page)

Refused(page) ==
    \/ ~page.reached
    \/ ~WellFormed(page)
    \/ page.cursor # cursor
    \/ page.dropped > 0
    \/ Stalled(page)

\* Every refusal closes the tail and raises out of __next__().
RefusePage(page) ==
    /\ pc = "waiting" /\ Refused(page)
    /\ closed' = TRUE
    /\ pc' = "ended"
    /\ UNCHANGED <<logVars, cursor, buffer, emptyPages,
                   terminalSeen, delivered>>

UpToTerminal(events) ==
    LET ends == {i \in DOMAIN events : log[events[i]] = "terminal"}
    IN  SubSeq(events, 1, IF ends = {} THEN Len(events)
                          ELSE CHOOSE i \in ends : \A j \in ends : i <= j)

\* A page without events and without more is counted; the count is for the
\* whole tail and not reset by a page with events.
AcceptPage(page) ==
    /\ pc = "waiting" /\ ~Refused(page)
    /\ cursor' = page.next
    /\ buffer' = UpToTerminal(page.events)
    /\ terminalSeen' = \E i \in DOMAIN page.events : log[page.events[i]] = "terminal"
    /\ IF page.events = <<>> /\ ~page.more
       THEN /\ emptyPages' = emptyPages + 1
            /\ closed' = (closed \/ emptyPages' > MaxEmptyPages)
       ELSE UNCHANGED <<emptyPages, closed>>
    /\ pc' = IF page.events # <<>> THEN "idle" ELSE "filling"
    /\ UNCHANGED <<logVars, delivered>>

\* A page inside a run of other Missions' events: no events, more to come, and a cursor
\* that has advanced.  The loop goes on, without a count and without a pause.
PassOthers ==
    /\ pc = "waiting"
    /\ floor <= cursor /\ cursor < Len(log)
    /\ log[cursor + 1] = "other"
    /\ pc' = "filling"
    /\ UNCHANGED <<logVars, cursor, buffer, emptyPages, closed, terminalSeen, delivered>>

\* close() of another thread; what is buffered is still handed out.
CloseTail ==
    /\ pc \in {"idle", "filling", "waiting"} /\ ~closed
    /\ closed' = TRUE
    /\ UNCHANGED <<logVars, cursor, buffer, emptyPages,
                   terminalSeen, pc, delivered>>

Answered ==
    \/ PassOthers
    \/ pc = "waiting" /\ \E page \in Pages(cursor) : RefusePage(page) \/ AcceptPage(page)

----------------------------------------------------------------------------
TailNext ==
    \/ \E kind \in {"step", "terminal", "other"} : DaemonEmit(kind)
    \/ DaemonForget
    \/ OpenTail \/ NextBuffered \/ NextEmpty \/ Fill \/ Answered \/ CloseTail

\* The consumer's thread runs; nothing is assumed of the daemon.
TailFairness == WF_tailVars(Fill)

----------------------------------------------------------------------------
(* Properties                                                               *)

\* The events handed out by one tail, and by the tails that continue it, are
\* the Mission's events from the first on, in order, none twice and none
\* missing, whatever the daemon forgot, answered late or answered by one of Faults.
DeliveredIsPrefix == IsPrefix(delivered, Mine(0, Len(log)))

\* Requests are answered or fail.  The client gives them no timeout.
RequestsEnd == WF_tailVars(Answered)

\* The tail does not stay among the events of other Missions.  With a log that grows at
\* least as fast as it is read, or a daemon that always claims more, it might.
OthersEnd == <>[][~PassOthers]_tailVars

\* Every call of __next__() comes back, provided that requests end and that the tail leaves
\* the events of other Missions behind: pages that are late, advance nothing, repeat
\* themselves, or are empty with nothing more to come do not keep the consumer.
NextReturns ==
    RequestsEnd /\ OthersEnd
        => (pc \in {"filling", "waiting"} ~> pc \in {"idle", "ended"})

=============================================================================
