------------------------------- MODULE Receive -------------------------------
(***************************************************************************)
(* From received bytes to handled events: ambot_irc_framer_feed            *)
(* (src/src/irc.c), the handle_line callbacks of the two runtimes and the  *)
(* event queue with its dispatcher (src/src/events.c).                     *)
(*                                                                         *)
(* One recv at a time is fed.  Its bytes are chosen as the framer reaches  *)
(* them, and it may end after any of them, so every way TCP can cut a      *)
(* stream into recvs is a behaviour.  Bytes are abstracted to classes, and *)
(* a line to its first byte: a PING is answered, an event is queued,       *)
(* anything else is ignored.  An event is named by the line it came from.  *)
(***************************************************************************)
EXTENDS Integers, Sequences, FiniteSets

CONSTANTS LineMax,    \* AMBOT_IRC_LINE_MAX
          Capacity,   \* AMBOT_EVENT_QUEUE_CAPACITY
          RecvMax,    \* AMBOT_RECV_BUFFER, the size of a recv
          StreamMax   \* bound: bytes received on one connection

ASSUME ReceiveAssumption ==
  /\ LineMax \in Nat /\ StreamMax \in Nat
  /\ Capacity \in Nat \ {0} /\ RecvMax \in Nat \ {0}

Byte == {"PING", "event", "CR", "LF"}   \* "LF" is '\n', "CR" is '\r'

VARIABLES
  multi,     \* the multi-network runtime: events are dispatched line by line
  pc,        \* where the task is
  line,      \* framer.line[0 .. framer.length - 1]
  dropping,  \* framer.dropping
  items,     \* queue.items
  head, tail, count, dropped,
  taken,     \* bytes of this recv that have been fed
  stream,    \* history: every byte fed
  lines,     \* history: every line given to handle_line
  before,    \* history: how many of them before this recv
  handled    \* history: the events given to the handler

framer  == <<line, dropping>>
queue   == <<items, head, tail, count, dropped>>
history == <<stream, lines, before, handled>>
vars == <<multi, pc, framer, queue, taken, history>>

Init ==
  /\ multi \in BOOLEAN
  /\ pc = "recv"
  /\ line = <<>> /\ dropping = FALSE
  /\ items = [k \in 0 .. Capacity - 1 |-> 0]
  /\ head = 0 /\ tail = 0 /\ count = 0 /\ dropped = 0
  /\ taken = 0 /\ stream = <<>> /\ lines = <<>> /\ before = 0 /\ handled = <<>>

-----------------------------------------------------------------------------
(* recv returns some bytes, or the connection is over.                      *)
Recv ==
  /\ pc = "recv" /\ Len(stream) < StreamMax
  /\ pc' = "feed" /\ taken' = 0 /\ before' = Len(lines)
  /\ UNCHANGED <<multi, framer, queue, stream, lines, handled>>

Lost ==
  /\ pc = "recv"
  /\ pc' = "closed"
  /\ UNCHANGED <<multi, framer, queue, taken, history>>

(* The framer reads the next byte of the recv.                              *)
Feed(b) ==
  /\ pc = "feed" /\ taken < RecvMax /\ Len(stream) < StreamMax
  /\ taken' = taken + 1 /\ stream' = Append(stream, b)

(* Mutant: the terminator is not allowed for.                               *)
StoreOneMore(b) ==
  /\ b # "LF" /\ ~dropping /\ Len(line) <= LineMax
  /\ Feed(b)
  /\ line' = Append(line, b)
  /\ UNCHANGED <<multi, pc, dropping, queue, lines, before, handled>>

Store(b) ==
  /\ b # "LF" /\ ~dropping /\ Len(line) < LineMax
  /\ Feed(b)
  /\ line' = Append(line, b)
  /\ UNCHANGED <<multi, pc, dropping, queue, lines, before, handled>>

(* Mutant: what does not fit is cut off, not dropped.                       *)
OverflowCuts(b) ==
  /\ b # "LF" /\ ~dropping /\ Len(line) >= LineMax
  /\ Feed(b)
  /\ UNCHANGED <<multi, pc, framer, queue, lines, before, handled>>

(* The line does not fit: what there is of it is dropped, and the rest is   *)
(* as it comes, to the end of the line.                                     *)
Overflow(b) ==
  /\ b # "LF" /\ ~dropping /\ Len(line) >= LineMax
  /\ Feed(b)
  /\ line' = <<>> /\ dropping' = TRUE
  /\ UNCHANGED <<multi, pc, queue, lines, before, handled>>

Skip(b) ==
  /\ b # "LF" /\ dropping
  /\ Feed(b)
  /\ UNCHANGED <<multi, pc, framer, queue, lines, before, handled>>

SkipEnds ==
  /\ dropping
  /\ Feed("LF")
  /\ line' = <<>> /\ dropping' = FALSE
  /\ UNCHANGED <<multi, pc, queue, lines, before, handled>>

Stripped(l) ==
  IF l # <<>> /\ l[Len(l)] = "CR" THEN SubSeq(l, 1, Len(l) - 1) ELSE l

IsEvent(l) == l # <<>> /\ l[1] = "event"

(* A line is complete: the callback gets it.                                *)
Complete ==
  /\ ~dropping
  /\ Feed("LF")
  /\ line' = <<>> /\ UNCHANGED dropping
  /\ lines' = Append(lines, Stripped(line))
  /\ UNCHANGED <<multi, before, handled>>

(* Lines that are answered at once, or ignored.                             *)
LinePasses ==
  /\ Complete /\ ~IsEvent(Stripped(line))
  /\ UNCHANGED <<pc, queue>>

(* ambot_event_queue_push.  The multi-network runtime dispatches at once.   *)
LineQueued ==
  /\ Complete /\ IsEvent(Stripped(line)) /\ count < Capacity
  /\ items' = [items EXCEPT ![tail] = Len(lines')]
  /\ tail' = (tail + 1) % Capacity
  /\ count' = count + 1
  /\ pc' = IF multi THEN "dispatch" ELSE "feed"
  /\ UNCHANGED <<head, dropped>>

LineDropped ==
  /\ Complete /\ IsEvent(Stripped(line)) /\ count >= Capacity
  /\ dropped' = dropped + 1
  /\ UNCHANGED <<pc, items, head, tail, count>>

(* handle_line of the multi-network runtime closed the connection, because  *)
(* its negotiation failed: the rest of the recv is not looked at.           *)
LineRefused ==
  /\ Complete /\ multi
  /\ pc' = "closed"
  /\ UNCHANGED queue

(* The recv is used up.                                                     *)
FeedDone ==
  /\ pc = "feed" /\ taken > 0
  /\ pc' = IF multi THEN "recv" ELSE "dispatch"
  /\ UNCHANGED <<multi, framer, queue, taken, history>>

(* Mutant: the newest event first.                                          *)
PopNewest == (tail + Capacity - 1) % Capacity

Pop == head

(* ambot_event_dispatch_pending: every queued event is handled.             *)
Dispatch ==
  /\ pc = "dispatch" /\ count > 0
  /\ handled' = Append(handled, items[Pop])
  /\ head' = (head + 1) % Capacity
  /\ count' = count - 1
  /\ UNCHANGED <<multi, pc, framer, items, tail, dropped, taken, stream, lines,
                 before>>

(* Mutant: one event for each recv.                                         *)
DispatchOneOnly ==
  /\ pc = "dispatch"
  /\ pc' = IF multi THEN "feed" ELSE "recv"
  /\ UNCHANGED <<multi, framer, queue, taken, history>>

DispatchDone ==
  /\ pc = "dispatch" /\ count = 0
  /\ pc' = IF multi THEN "feed" ELSE "recv"
  /\ UNCHANGED <<multi, framer, queue, taken, history>>

Next ==
  \/ Recv \/ Lost \/ FeedDone
  \/ \E b \in Byte : Store(b) \/ Overflow(b) \/ Skip(b)
  \/ SkipEnds \/ LinePasses \/ LineQueued \/ LineDropped \/ LineRefused
  \/ Dispatch \/ DispatchDone
  \/ pc = "closed" /\ UNCHANGED vars

Spec == Init /\ [][Next]_vars

-----------------------------------------------------------------------------
(* The framer never writes past line[AMBOT_IRC_LINE_MAX], where the         *)
(* terminator goes, and the ring never past its capacity.                   *)
TypeOK ==
  /\ multi \in BOOLEAN /\ dropping \in BOOLEAN
  /\ pc \in {"recv", "feed", "dispatch", "closed"}
  /\ line \in Seq(Byte) /\ Len(line) <= LineMax
  /\ items \in [0 .. Capacity - 1 -> Nat]
  /\ head \in 0 .. Capacity - 1 /\ tail \in 0 .. Capacity - 1
  /\ count \in 0 .. Capacity /\ dropped \in Nat
  /\ taken \in 0 .. RecvMax
  /\ stream \in Seq(Byte) /\ lines \in Seq(Seq(Byte))
  /\ before \in Nat /\ handled \in Seq(Nat)

(* The reference: the lines of a stream are what is between its LFs; those  *)
(* longer than LineMax, the CR included, are not taken.                     *)
Start(s, k) ==
  LET earlier == {e \in 1 .. k - 1 : s[e] = "LF"}
  IN  IF earlier = {} THEN 1
      ELSE 1 + CHOOSE e \in earlier : \A f \in earlier : f <= e
Taken(s) == {k \in 1 .. Len(s) : s[k] = "LF" /\ k - Start(s, k) <= LineMax}
Rank(S, k) == Cardinality({e \in S : e <= k})

(* Framing does not depend on where TCP cuts the stream: what handle_line   *)
(* gets is exactly the lines of the stream that fit, whole and in order,    *)
(* and a line that was too long takes none of its neighbours with it        *)
(* (docs/M1.md:11-12).                                                      *)
FramesAgree ==
  LET good == Taken(stream) IN
  /\ Len(lines) = Cardinality(good)
  /\ \A k \in good :
       lines[Rank(good, k)] = Stripped(SubSeq(stream, Start(stream, k), k - 1))

Events  == {k \in 1 .. Len(lines) : IsEvent(lines[k])}
Queued  == [k \in 1 .. count |-> items[(head + k - 1) % Capacity]]
Reached == handled \o Queued
Kept    == {Reached[k] : k \in 1 .. Len(Reached)}

(* Events are handled in the order their lines came in, none of them twice, *)
(* across any number of rounds of the ring.                                 *)
EventsInOrder ==
  /\ Kept \subseteq Events
  /\ \A j, k \in 1 .. Len(Reached) : j < k => Reached[j] < Reached[k]

(* The events of this recv that come first.                                 *)
Burst == {k \in Events : k > before}
First == {k \in Burst : Rank(Burst, k) <= Capacity}

(* An event is lost only as the seventeenth or a later one of a single      *)
(* recv, and then it is counted; the multi-network runtime, where the queue *)
(* is emptied after each line, loses none (docs/M2.md:10-11).               *)
LossOnlyInBursts ==
  pc # "closed" =>
    /\ dropped = Cardinality(Events) - Len(Reached)
    /\ IF multi THEN Events \subseteq Kept ELSE First \subseteq Kept
=============================================================================
