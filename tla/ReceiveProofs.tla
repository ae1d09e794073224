---------------------------- MODULE ReceiveProofs ----------------------------
(***************************************************************************)
(* Theorems about Receive, for any buffer and queue, any stream of bytes   *)
(* and any way it is cut into recvs: nothing is written past an end, events *)
(* are handled in order, and exactly the lines that fit are taken.          *)
(***************************************************************************)
EXTENDS Receive, FiniteSetTheorems, SequenceTheorems, TLAPS

-----------------------------------------------------------------------------
(* The ring                                                                *)

(* The ring's indices stay below twice its capacity.                        *)
Wrap(a) == IF a < Capacity THEN a ELSE a - Capacity

LEMMA Wrapped ==
  \A a \in 0 .. 2 * Capacity - 1 : a % Capacity = Wrap(a)
BY ReceiveAssumption DEF Wrap

LEMMA WrapType ==
  \A a \in 0 .. 2 * Capacity - 1 : Wrap(a) \in 0 .. Capacity - 1
BY ReceiveAssumption DEF Wrap

(* The slots of the queued elements are not the one after them.             *)
LEMMA WrapDistinct ==
  ASSUME NEW a \in 0 .. Capacity - 1, NEW c \in 0 .. Capacity - 1,
         NEW k \in 1 .. c
  PROVE  /\ Wrap(a + k - 1) # Wrap(a + c)
         /\ Wrap(a + k - 1) \in 0 .. Capacity - 1
BY ReceiveAssumption DEF Wrap

LEMMA WrapNext ==
  ASSUME NEW a \in 0 .. Capacity - 1, NEW k \in 1 .. Capacity - 1
  PROVE  Wrap(Wrap(a + 1) + k - 1) = Wrap(a + (k + 1) - 1)
BY ReceiveAssumption DEF Wrap

Ring == tail = (head + count) % Capacity

LEMMA TypeInit == Init => TypeOK
<1> SUFFICES ASSUME Init PROVE TypeOK
  OBVIOUS
<1>1. items \in [0 .. Capacity - 1 -> Nat]
  BY DEF Init
<1>2. 0 \in 0 .. Capacity - 1 /\ 0 \in 0 .. Capacity /\ 0 \in 0 .. RecvMax
  BY ReceiveAssumption
<1>3. 0 <= LineMax
  BY ReceiveAssumption
<1>4. /\ <<>> \in Seq(Byte) /\ <<>> \in Seq(Seq(Byte)) /\ <<>> \in Seq(Nat)
      /\ Len(<<>>) = 0
  OBVIOUS
<1> QED  BY <1>1, <1>2, <1>3, <1>4 DEF Init, TypeOK

LEMMA StrippedType == \A l \in Seq(Byte) : Stripped(l) \in Seq(Byte)
<1> SUFFICES ASSUME NEW l \in Seq(Byte) PROVE Stripped(l) \in Seq(Byte)
  OBVIOUS
<1>1. CASE l # <<>> /\ l[Len(l)] = "CR"
  <2>1. Len(l) \in Nat \ {0} /\ \A k \in 1 .. Len(l) : l[k] \in Byte
    BY <1>1
  <2>2. SubSeq(l, 1, Len(l) - 1) \in Seq(Byte)
    BY <2>1, SubSeqProperties
  <2> QED  BY <1>1, <2>2 DEF Stripped
<1>2. CASE ~(l # <<>> /\ l[Len(l)] = "CR")
  BY <1>2 DEF Stripped
<1> QED  BY <1>1, <1>2

(* A byte is fed.                                                           *)
LEMMA FeedType ==
  ASSUME TypeOK, NEW b \in Byte, Feed(b)
  PROVE  stream' \in Seq(Byte) /\ taken' \in 0 .. RecvMax
BY ReceiveAssumption DEF TypeOK, Feed

LEMMA CompleteType ==
  ASSUME TypeOK, Complete
  PROVE  /\ stream' \in Seq(Byte) /\ taken' \in 0 .. RecvMax
         /\ line' = <<>> /\ lines' \in Seq(Seq(Byte))
         /\ Len(lines') = Len(lines) + 1 /\ Len(lines) \in Nat
         /\ lines'[Len(lines) + 1] = Stripped(line)
         /\ \A k \in 1 .. Len(lines) : lines'[k] = lines[k]
<1>1. Stripped(line) \in Seq(Byte)
  BY StrippedType DEF TypeOK
<1>2. Feed("LF") /\ "LF" \in Byte
  BY DEF Complete, Byte
<1>3. lines \in Seq(Seq(Byte)) /\ lines' = Append(lines, Stripped(line))
  BY DEF TypeOK, Complete
<1> HIDE DEF Stripped
<1>4. lines' \in Seq(Seq(Byte)) /\ Len(lines) \in Nat
  BY <1>1, <1>3
<1>5. /\ Len(lines') = Len(lines) + 1
      /\ lines'[Len(lines) + 1] = Stripped(line)
      /\ \A k \in 1 .. Len(lines) : lines'[k] = lines[k]
  BY <1>1, <1>3
<1> QED  BY <1>2, <1>4, <1>5, FeedType DEF Complete

(* What a step may do: nothing to the data, take a byte of a line, complete *)
(* a line, or hand over an event.                                           *)
Quietly == Recv \/ Lost \/ FeedDone \/ DispatchDone \/ UNCHANGED vars
WithinLine ==
  \/ \E b \in Byte : Store(b) \/ Overflow(b) \/ Skip(b)
  \/ SkipEnds
LineDone == LinePasses \/ LineQueued \/ LineDropped \/ LineRefused

LEMMA NextSteps ==
  [Next]_vars => Quietly \/ WithinLine \/ LineDone \/ Dispatch
BY DEF Next, Quietly, WithinLine, LineDone

LEMMA TypeNext == TypeOK /\ [Next]_vars => TypeOK'
<1> SUFFICES ASSUME TypeOK, [Next]_vars PROVE TypeOK'
  OBVIOUS
<1> USE DEF framer, queue, history
<1>1. CASE Quietly
  <2>1. Len(lines) \in Nat /\ 0 \in 0 .. RecvMax
    BY ReceiveAssumption DEF TypeOK
  <2>2. CASE Recv
    BY <2>1, <2>2 DEF TypeOK, Recv
  <2>3. CASE Lost
    BY <2>3 DEF TypeOK, Lost
  <2>4. CASE FeedDone
    BY <2>4 DEF TypeOK, FeedDone
  <2>5. CASE DispatchDone
    BY <2>5 DEF TypeOK, DispatchDone
  <2>6. CASE UNCHANGED vars
    BY <2>6 DEF TypeOK, vars
  <2> QED  BY <1>1, <2>2, <2>3, <2>4, <2>5, <2>6 DEF Quietly
<1>2. CASE WithinLine
  <2>1. ASSUME NEW b \in Byte, Store(b) PROVE TypeOK'
    <3>1. stream' \in Seq(Byte) /\ taken' \in 0 .. RecvMax
      BY <2>1, FeedType DEF Store
    <3>2. line' \in Seq(Byte) /\ Len(line') <= LineMax
      BY <2>1, ReceiveAssumption DEF TypeOK, Store
    <3> QED  BY <2>1, <3>1, <3>2 DEF TypeOK, Store
  <2>2. <<>> \in Seq(Byte) /\ Len(<<>>) <= LineMax
    BY ReceiveAssumption
  <2>3. ASSUME NEW b \in Byte, Overflow(b) PROVE TypeOK'
    <3>1. stream' \in Seq(Byte) /\ taken' \in 0 .. RecvMax
      BY <2>3, FeedType DEF Overflow
    <3> QED  BY <2>2, <2>3, <3>1 DEF TypeOK, Overflow
  <2>4. ASSUME NEW b \in Byte, Skip(b) PROVE TypeOK'
    <3>1. stream' \in Seq(Byte) /\ taken' \in 0 .. RecvMax
      BY <2>4, FeedType DEF Skip
    <3> QED  BY <2>4, <3>1 DEF TypeOK, Skip
  <2>5. CASE SkipEnds
    <3>1. stream' \in Seq(Byte) /\ taken' \in 0 .. RecvMax
      BY <2>5, FeedType DEF SkipEnds, Byte
    <3> QED  BY <2>2, <2>5, <3>1 DEF TypeOK, SkipEnds
  <2> QED  BY <1>2, <2>1, <2>3, <2>4, <2>5 DEF WithinLine
<1>3. CASE LineDone
  <2>1. Complete
    BY <1>3 DEF LineDone, LinePasses, LineQueued, LineDropped, LineRefused
  <2>2. /\ stream' \in Seq(Byte) /\ taken' \in 0 .. RecvMax
        /\ lines' \in Seq(Seq(Byte))
        /\ line' \in Seq(Byte) /\ Len(line') <= LineMax
        /\ UNCHANGED <<multi, dropping, before, handled>>
    BY <2>1, CompleteType, ReceiveAssumption DEF Complete
  <2>3. Len(lines') \in Nat
    BY <2>1, CompleteType
  <2>4. /\ pc' \in {"recv", "feed", "dispatch", "closed"}
        /\ items' \in [0 .. Capacity - 1 -> Nat]
        /\ head' \in 0 .. Capacity - 1 /\ tail' \in 0 .. Capacity - 1
        /\ count' \in 0 .. Capacity /\ dropped' \in Nat
    <3>1. CASE LinePasses
      BY <3>1 DEF TypeOK, LinePasses
    <3>2. CASE LineQueued
      <4>1. tail + 1 \in 0 .. 2 * Capacity - 1
        BY ReceiveAssumption DEF TypeOK
      <4>2. (tail + 1) % Capacity \in 0 .. Capacity - 1
        BY <4>1, Wrapped, WrapType
      <4>3. items' \in [0 .. Capacity - 1 -> Nat]
        BY <2>3, <3>2 DEF TypeOK, LineQueued
      <4>4. count' \in 0 .. Capacity
        BY <3>2, ReceiveAssumption DEF TypeOK, LineQueued
      <4> QED  BY <3>2, <4>2, <4>3, <4>4 DEF TypeOK, LineQueued
    <3>3. CASE LineDropped
      BY <3>3 DEF TypeOK, LineDropped
    <3>4. CASE LineRefused
      BY <3>4 DEF TypeOK, LineRefused
    <3> QED  BY <1>3, <3>1, <3>2, <3>3, <3>4 DEF LineDone
  <2> QED  BY <2>2, <2>4 DEF TypeOK
<1>4. CASE Dispatch
  <2>1. (head + 1) % Capacity \in 0 .. Capacity - 1
    <3>1. head + 1 \in 0 .. 2 * Capacity - 1
      BY ReceiveAssumption DEF TypeOK
    <3> QED  BY <3>1, Wrapped, WrapType
  <2>2. count' \in 0 .. Capacity
    BY <1>4, ReceiveAssumption DEF TypeOK, Dispatch
  <2>3. handled' \in Seq(Nat)
    <3>1. items[head] \in Nat
      BY DEF TypeOK
    <3>2. handled' = Append(handled, items[head]) /\ handled \in Seq(Nat)
      BY <1>4 DEF TypeOK, Dispatch, Pop
    <3> QED  BY <3>1, <3>2
  <2> QED  BY <1>4, <2>1, <2>2, <2>3 DEF TypeOK, Dispatch
<1> QED  BY <1>1, <1>2, <1>3, <1>4, NextSteps

(* Types are kept: neither framer.line nor queue.items is written past its  *)
(* end.                                                                     *)
THEOREM TypeCorrect == Spec => []TypeOK
<1> QED  BY TypeInit, TypeNext, PTL DEF Spec

-----------------------------------------------------------------------------
(* The events                                                              *)

(* The events handled come first, then those in the ring.                   *)
Contents(h, hd, c, f) ==
  h \o [k \in 1 .. c |-> f[(hd + k - 1) % Capacity]]

LEMMA ReachedShape ==
  ASSUME NEW h \in Seq(Nat), NEW hd \in 0 .. Capacity - 1,
         NEW c \in 0 .. Capacity, NEW f \in [0 .. Capacity - 1 -> Nat]
  PROVE  /\ Contents(h, hd, c, f) \in Seq(Nat)
         /\ Len(Contents(h, hd, c, f)) = Len(h) + c
         /\ \A k \in 1 .. Len(h) : Contents(h, hd, c, f)[k] = h[k]
         /\ \A k \in 1 .. c :
              Contents(h, hd, c, f)[Len(h) + k] = f[Wrap(hd + k - 1)]
<1> DEFINE q == [k \in 1 .. c |-> f[(hd + k - 1) % Capacity]]
<1>1. ASSUME NEW k \in 1 .. c
      PROVE  q[k] = f[Wrap(hd + k - 1)] /\ q[k] \in Nat
  <2>1. hd + k - 1 \in 0 .. 2 * Capacity - 1
    BY ReceiveAssumption
  <2> QED  BY <2>1, Wrapped, WrapType
<1>2. q \in [1 .. c -> Nat] /\ c \in Nat
  BY <1>1, ReceiveAssumption
<1>3. Contents(h, hd, c, f) = h \o q
  BY DEF Contents
<1> HIDE DEF q
<1>4. q \in Seq(Nat) /\ Len(q) = c
  BY <1>2
<1>5. /\ h \o q \in Seq(Nat) /\ Len(h \o q) = Len(h) + Len(q)
      /\ \A k \in 1 .. Len(h) + Len(q) :
           (h \o q)[k] = IF k <= Len(h) THEN h[k] ELSE q[k - Len(h)]
  BY <1>4, ConcatProperties, Zenon
<1>6. \A k \in 1 .. Len(h) : (h \o q)[k] = h[k]
  BY <1>4, <1>5
<1>7. \A k \in 1 .. c : (h \o q)[Len(h) + k] = q[k]
  BY <1>4, <1>5
<1>8. \A k \in 1 .. c : (h \o q)[Len(h) + k] = f[Wrap(hd + k - 1)]
  BY <1>1, <1>7
<1> QED  BY <1>3, <1>4, <1>5, <1>6, <1>8, Zenon

(* Pushing an event leaves the queued ones where they are.                  *)
LEMMA QueuedReached ==
  ASSUME TypeOK, TypeOK', Ring, LineQueued
  PROVE  Reached' = Append(Reached, Len(lines'))
<1>1. count < Capacity /\ count' = count + 1 /\ UNCHANGED <<handled, head>>
  BY DEF LineQueued, Complete
<1>2. Len(lines') \in Nat /\ Len(handled) \in Nat /\ count \in Nat
  BY CompleteType, ReceiveAssumption DEF TypeOK, LineQueued
<1>3. /\ Reached \in Seq(Nat) /\ Len(Reached) = Len(handled) + count
      /\ \A k \in 1 .. Len(handled) : Reached[k] = handled[k]
      /\ \A k \in 1 .. count :
           Reached[Len(handled) + k] = items[Wrap(head + k - 1)]
  <2>1. Reached = Contents(handled, head, count, items)
    BY DEF Reached, Queued, Contents
  <2>2. /\ handled \in Seq(Nat) /\ head \in 0 .. Capacity - 1
        /\ count \in 0 .. Capacity /\ items \in [0 .. Capacity - 1 -> Nat]
    BY DEF TypeOK
  <2> QED  BY <2>1, <2>2, ReachedShape, Zenon
<1>4. /\ Reached' \in Seq(Nat) /\ Len(Reached') = Len(handled) + (count + 1)
      /\ \A k \in 1 .. Len(handled) : Reached'[k] = handled[k]
      /\ \A k \in 1 .. count + 1 :
           Reached'[Len(handled) + k] = items'[Wrap(head + k - 1)]
  <2>1. Reached' = Contents(handled', head', count', items')
    BY DEF Reached, Queued, Contents
  <2>2. Reached' = Contents(handled, head, count + 1, items')
    BY <1>1, <2>1
  <2>3. /\ handled \in Seq(Nat) /\ head \in 0 .. Capacity - 1
        /\ count + 1 \in 0 .. Capacity /\ items' \in [0 .. Capacity - 1 -> Nat]
    BY <1>1 DEF TypeOK
  <2> QED  BY <2>2, <2>3, ReachedShape, Zenon
<1>5. tail = Wrap(head + count)
  <2>1. head + count \in 0 .. 2 * Capacity - 1
    BY <1>1, ReceiveAssumption DEF TypeOK
  <2> QED  BY <2>1, Wrapped DEF Ring
<1>6. ASSUME NEW k \in 1 .. count
      PROVE  items'[Wrap(head + k - 1)] = items[Wrap(head + k - 1)]
  <2>1. Wrap(head + k - 1) # tail /\ Wrap(head + k - 1) \in 0 .. Capacity - 1
    <3>1. head \in 0 .. Capacity - 1 /\ count \in 0 .. Capacity - 1
      BY <1>1, ReceiveAssumption DEF TypeOK
    <3> QED  BY <3>1, <1>5, WrapDistinct
  <2> QED  BY <2>1 DEF LineQueued, TypeOK
<1>7. items'[Wrap(head + (count + 1) - 1)] = Len(lines')
  <2>1. head + (count + 1) - 1 = head + count
    BY <1>2, ReceiveAssumption DEF TypeOK
  <2> QED  BY <2>1, <1>5 DEF LineQueued, TypeOK
<1> DEFINE r == Append(Reached, Len(lines'))
<1>8. /\ r \in Seq(Nat) /\ Len(r) = Len(Reached) + 1
      /\ r[Len(Reached) + 1] = Len(lines')
      /\ \A k \in 1 .. Len(Reached) : r[k] = Reached[k]
  BY <1>2, <1>3
<1> HIDE DEF r
<1>9. ASSUME NEW k \in 1 .. Len(r) PROVE Reached'[k] = r[k]
  <2>1. CASE k \in 1 .. Len(handled)
    BY <2>1, <1>2, <1>3, <1>4, <1>8
  <2>2. CASE k \in Len(handled) + 1 .. Len(handled) + count
    <3> DEFINE j == k - Len(handled)
    <3>1. j \in 1 .. count /\ j \in 1 .. count + 1 /\ k = Len(handled) + j
      BY <2>2, <1>2
    <3> HIDE DEF j
    <3>2. Reached'[k] = items'[Wrap(head + j - 1)]
      BY <3>1, <1>4
    <3>3. r[k] = Reached[k] /\ Reached[k] = items[Wrap(head + j - 1)]
      BY <2>2, <3>1, <1>2, <1>3, <1>8
    <3> QED  BY <3>1, <3>2, <3>3, <1>6
  <2>3. CASE k = Len(handled) + (count + 1)
    <3>1. count + 1 \in 1 .. count + 1
      BY <1>2
    <3>2. Reached'[k] = items'[Wrap(head + (count + 1) - 1)]
      BY <2>3, <3>1, <1>4
    <3> QED  BY <2>3, <3>2, <1>2, <1>3, <1>7, <1>8
  <2> QED  BY <2>1, <2>2, <2>3, <1>2, <1>3, <1>8
<1>10. Len(Reached') = Len(r)
  BY <1>2, <1>3, <1>4, <1>8
<1>11. Reached' = r
  BY <1>4, <1>8, <1>9, <1>10, SeqEqual
<1> QED  BY <1>11 DEF r

(* Handing an event over moves the first of the ring to the end of those    *)
(* that are handled.                                                        *)
LEMMA DispatchReached ==
  ASSUME TypeOK, TypeOK', Dispatch
  PROVE  Reached' = Reached
<1>1. /\ count > 0 /\ count' = count - 1 /\ UNCHANGED items
      /\ head' = (head + 1) % Capacity
      /\ handled' = Append(handled, items[head])
  BY DEF Dispatch, Pop
<1> count \in Nat /\ Len(handled) \in Nat
  BY ReceiveAssumption DEF TypeOK
<1>2. /\ Reached \in Seq(Nat) /\ Len(Reached) = Len(handled) + count
      /\ \A k \in 1 .. Len(handled) : Reached[k] = handled[k]
      /\ \A k \in 1 .. count :
           Reached[Len(handled) + k] = items[Wrap(head + k - 1)]
  <2>1. Reached = Contents(handled, head, count, items)
    BY DEF Reached, Queued, Contents
  <2>2. /\ handled \in Seq(Nat) /\ head \in 0 .. Capacity - 1
        /\ count \in 0 .. Capacity /\ items \in [0 .. Capacity - 1 -> Nat]
    BY DEF TypeOK
  <2> QED  BY <2>1, <2>2, ReachedShape, Zenon
<1>3. /\ Reached' \in Seq(Nat) /\ Len(Reached') = Len(handled') + (count - 1)
      /\ \A k \in 1 .. Len(handled') : Reached'[k] = handled'[k]
      /\ \A k \in 1 .. count - 1 :
           Reached'[Len(handled') + k] = items[Wrap(head' + k - 1)]
  <2>1. Reached' = Contents(handled', head', count', items')
    BY DEF Reached, Queued, Contents
  <2>2. Reached' = Contents(handled', head', count - 1, items)
    BY <1>1, <2>1
  <2>3. /\ handled' \in Seq(Nat) /\ head' \in 0 .. Capacity - 1
        /\ count - 1 \in 0 .. Capacity /\ items \in [0 .. Capacity - 1 -> Nat]
    BY <1>1 DEF TypeOK
  <2> QED  BY <2>2, <2>3, ReachedShape, Zenon
<1>4. /\ Len(handled') = Len(handled) + 1
      /\ handled'[Len(handled) + 1] = items[head]
      /\ \A k \in 1 .. Len(handled) : handled'[k] = handled[k]
  <2>1. items[head] \in Nat /\ handled \in Seq(Nat)
    BY DEF TypeOK
  <2> QED  BY <1>1, <2>1
<1>5. head' = Wrap(head + 1) /\ Wrap(head + 1 - 1) = head
  <2>1. head + 1 \in 0 .. 2 * Capacity - 1 /\ head + 1 - 1 = head
    BY ReceiveAssumption DEF TypeOK
  <2>2. head < Capacity
    BY ReceiveAssumption DEF TypeOK
  <2> QED  BY <1>1, <2>1, <2>2, Wrapped DEF Wrap
<1>6. ASSUME NEW k \in 1 .. count - 1
      PROVE  Wrap(head' + k - 1) = Wrap(head + (k + 1) - 1)
  <2>1. head \in 0 .. Capacity - 1 /\ k \in 1 .. Capacity - 1
    BY ReceiveAssumption DEF TypeOK
  <2> QED  BY <2>1, <1>5, WrapNext
<1>7. ASSUME NEW k \in 1 .. Len(Reached) PROVE Reached'[k] = Reached[k]
  <2>1. CASE k \in 1 .. Len(handled)
    BY <2>1, <1>2, <1>3, <1>4
  <2>2. CASE k = Len(handled) + 1
    <3>1. Reached'[k] = items[head]
      BY <2>2, <1>2, <1>3, <1>4
    <3>2. Reached[Len(handled) + 1] = items[Wrap(head + 1 - 1)]
      BY <1>1, <1>2
    <3> QED  BY <2>2, <3>1, <3>2, <1>5
  <2>3. CASE k \in Len(handled) + 2 .. Len(handled) + count
    <3> DEFINE j == k - Len(handled) - 1
    <3>1. /\ j \in 1 .. count - 1 /\ j + 1 \in 1 .. count
          /\ k = Len(handled') + j /\ k = Len(handled) + (j + 1)
      BY <2>3, <1>2, <1>4
    <3> HIDE DEF j
    <3>2. Reached'[k] = items[Wrap(head' + j - 1)]
      BY <3>1, <1>3
    <3>3. Reached[k] = items[Wrap(head + (j + 1) - 1)]
      BY <3>1, <1>2
    <3> QED  BY <3>1, <3>2, <3>3, <1>6
  <2> QED  BY <2>1, <2>2, <2>3, <1>2
<1>8. Len(Reached') = Len(Reached)
  BY <1>1, <1>2, <1>3, <1>4
<1> QED  BY <1>2, <1>3, <1>7, <1>8, SeqEqual

(* A complete line is the newest, and an event or not.                      *)
LEMMA EventsGrow ==
  ASSUME TypeOK, Complete
  PROVE  /\ Len(lines) \in Nat /\ Len(lines') = Len(lines) + 1
         /\ Events' = IF IsEvent(Stripped(line))
                      THEN Events \cup {Len(lines) + 1} ELSE Events
<1>1. /\ Len(lines') = Len(lines) + 1 /\ Len(lines) \in Nat
      /\ lines'[Len(lines) + 1] = Stripped(line)
      /\ \A k \in 1 .. Len(lines) : lines'[k] = lines[k]
  BY CompleteType
<1>2. 1 .. Len(lines') = 1 .. Len(lines) \cup {Len(lines) + 1}
  BY <1>1
<1> HIDE DEF IsEvent, Stripped
<1>3. \A k \in 1 .. Len(lines) : k # Len(lines) + 1
  BY <1>1
<1> QED  BY <1>1, <1>2, <1>3 DEF Events

(* Steps that complete no line and hand over no event.                      *)
LEMMA OtherSteps ==
  ASSUME Quietly \/ WithinLine
  PROVE  UNCHANGED <<multi, items, head, tail, count, dropped, lines, handled>>
BY DEF Quietly, WithinLine, Recv, Lost, FeedDone, DispatchDone, vars, Store,
   Overflow, Skip, SkipEnds, framer, queue, history

LEMMA UnqueuedSteps ==
  ASSUME LinePasses \/ LineDropped \/ LineRefused
  PROVE  /\ Complete
         /\ UNCHANGED <<multi, items, head, tail, count, handled, before>>
BY DEF LinePasses, LineDropped, LineRefused, Complete, queue

LEMMA RingNext ==
  ASSUME TypeOK, Ring, [Next]_vars
  PROVE  Ring'
<1>1. CASE Quietly \/ WithinLine \/ LinePasses \/ LineDropped \/ LineRefused
  BY <1>1, OtherSteps, UnqueuedSteps DEF Ring
<1> count \in Nat /\ head \in Nat /\ Capacity \in Nat \ {0}
  BY ReceiveAssumption DEF TypeOK
<1>2. CASE LineQueued
  <2>1. /\ tail' = (tail + 1) % Capacity /\ count' = count + 1
        /\ count < Capacity /\ UNCHANGED head
    BY <1>2 DEF LineQueued
  <2>2. /\ head + count \in 0 .. 2 * Capacity - 1
        /\ head + (count + 1) \in 0 .. 2 * Capacity - 1
        /\ tail + 1 \in 0 .. 2 * Capacity - 1
    BY <2>1 DEF TypeOK
  <2>3. /\ tail = Wrap(head + count) /\ tail' = Wrap(tail + 1)
        /\ (head' + count') % Capacity = Wrap(head + (count + 1))
    BY <2>1, <2>2, Wrapped DEF Ring
  <2> QED  BY <2>1, <2>3 DEF Ring, TypeOK, Wrap
<1>3. CASE Dispatch
  <2>1. /\ head' = (head + 1) % Capacity /\ count' = count - 1 /\ count > 0
        /\ UNCHANGED tail
    BY <1>3 DEF Dispatch
  <2>2. /\ head + count \in 0 .. 2 * Capacity - 1
        /\ head + 1 \in 0 .. 2 * Capacity - 1
    BY DEF TypeOK
  <2>3. tail = Wrap(head + count) /\ head' = Wrap(head + 1)
    BY <2>1, <2>2, Wrapped DEF Ring
  <2>4. Wrap(head + 1) + (count - 1) \in 0 .. 2 * Capacity - 1
    BY <2>1, <2>2 DEF TypeOK, Wrap
  <2>5. (head' + count') % Capacity = Wrap(Wrap(head + 1) + (count - 1))
    BY <2>1, <2>3, <2>4, Wrapped
  <2>6. Wrap(Wrap(head + 1) + (count - 1)) = Wrap(head + count)
    BY <2>1 DEF TypeOK, Wrap
  <2> QED  BY <2>1, <2>3, <2>5, <2>6 DEF Ring
<1> QED  BY <1>1, <1>2, <1>3, NextSteps DEF LineDone

(* A new last element of a set of lines changes the rank of none before it. *)
LEMMA RankKeeps ==
  ASSUME NEW S, NEW n \in Nat, \A e \in S : e \in Nat /\ e < n, NEW k \in S
  PROVE  Rank(S \cup {n}, k) = Rank(S, k)
<1>1. {e \in S \cup {n} : e <= k} = {e \in S : e <= k}
  OBVIOUS
<1> QED  BY <1>1 DEF Rank

LEMMA RankLast ==
  ASSUME NEW S, NEW n \in Nat, \A e \in S : e \in Nat /\ e < n
  PROVE  Rank(S \cup {n}, n) = Cardinality(S \cup {n})
<1>1. {e \in S \cup {n} : e <= n} = S \cup {n}
  OBVIOUS
<1> QED  BY <1>1 DEF Rank

EventsFacts ==
  /\ Events \subseteq 1 .. Len(lines)
  /\ IsFiniteSet(Events) /\ Cardinality(Events) \in Nat
  /\ IsFiniteSet(Burst) /\ Cardinality(Burst) \in Nat

LEMMA EventsFinite == TypeOK => EventsFacts
<1> SUFFICES ASSUME TypeOK PROVE EventsFacts
  OBVIOUS
<1>1. Events \in SUBSET (1 .. Len(lines)) /\ Len(lines) \in Nat
  BY DEF TypeOK, Events
<1>2. IsFiniteSet(1 .. Len(lines))
  BY <1>1, FS_Interval
<1>3. IsFiniteSet(Events)
  BY <1>1, <1>2, FS_Subset
<1>4. Burst \in SUBSET Events
  BY DEF Burst
<1>5. IsFiniteSet(Burst)
  BY <1>3, <1>4, FS_Subset
<1> QED  BY <1>1, <1>3, <1>5, FS_CardinalityType DEF EventsFacts

LEMMA OrderNext ==
  ASSUME TypeOK, TypeOK', Ring, EventsInOrder, [Next]_vars
  PROVE  EventsInOrder'
<1>1. CASE Quietly \/ WithinLine
  BY <1>1, OtherSteps
  DEF EventsInOrder, Kept, Reached, Queued, Events
<1>2. CASE LinePasses \/ LineDropped \/ LineRefused
  <2>1. UNCHANGED Reached
    BY <1>2, UnqueuedSteps DEF Reached, Queued
  <2>2. Events \subseteq Events'
    BY <1>2, UnqueuedSteps, EventsGrow
  <2> QED  BY <2>1, <2>2 DEF EventsInOrder, Kept
<1>3. CASE LineQueued
  <2> DEFINE n == Len(lines) + 1
  <2>1. Len(lines) \in Nat /\ Len(lines') = n /\ Events' = Events \cup {n}
    BY <1>3, EventsGrow DEF LineQueued
  <2>2. Reached' = Append(Reached, n)
    BY <1>3, <2>1, QueuedReached
  <2>3. Reached \in Seq(Nat)
    <3>1. Reached = Contents(handled, head, count, items)
      BY DEF Reached, Queued, Contents
    <3> QED  BY <3>1, ReachedShape DEF TypeOK
  <2>4. \A k \in 1 .. Len(Reached) : Reached[k] \in Events /\ Reached[k] < n
    <3>1. \A k \in 1 .. Len(Reached) : Reached[k] \in Events
      BY DEF EventsInOrder, Kept
    <3> QED  BY <2>1, <3>1, EventsFinite DEF EventsFacts
  <2> HIDE DEF n
  <2>5. /\ Len(Reached') = Len(Reached) + 1 /\ Len(Reached) \in Nat
        /\ Reached'[Len(Reached) + 1] = n
        /\ \A k \in 1 .. Len(Reached) : Reached'[k] = Reached[k]
    <3>1. n \in Nat
      BY <2>1 DEF n
    <3> QED  BY <2>2, <2>3, <3>1
  <2>6. Kept' \subseteq Events'
    <3>1. ASSUME NEW k \in 1 .. Len(Reached') PROVE Reached'[k] \in Events'
      BY <2>1, <2>4, <2>5
    <3> QED  BY <3>1 DEF Kept
  <2>7. ASSUME NEW j \in 1 .. Len(Reached'), NEW k \in 1 .. Len(Reached'), j < k
        PROVE  Reached'[j] < Reached'[k]
    <3>1. CASE k = Len(Reached) + 1
      BY <2>4, <2>5, <2>7, <3>1
    <3>2. CASE k # Len(Reached) + 1
      BY <2>5, <2>7, <3>2 DEF EventsInOrder
    <3> QED  BY <3>1, <3>2
  <2> QED  BY <2>6, <2>7 DEF EventsInOrder
<1>4. CASE Dispatch
  <2>1. UNCHANGED lines
    BY <1>4 DEF Dispatch
  <2> QED  BY <1>4, <2>1, DispatchReached DEF EventsInOrder, Kept, Events
<1> QED  BY <1>1, <1>2, <1>3, <1>4, NextSteps DEF LineDone

(* Types, the ring and the order are kept together.                         *)
LEMMA OrderInvariant == Spec => [](TypeOK /\ Ring /\ EventsInOrder)
<1>1. Init => Ring
  BY ReceiveAssumption DEF Init, Ring
<1>2. Init => EventsInOrder
  <2> SUFFICES ASSUME Init PROVE EventsInOrder
    OBVIOUS
  <2>1. Queued = <<>>
    <3>1. 1 .. count = {}
      BY DEF Init
    <3> QED  BY <3>1 DEF Queued
  <2>2. Len(Reached) = 0
    BY <2>1 DEF Init, Reached
  <2> QED  BY <2>2 DEF EventsInOrder, Kept
<1>3. TypeOK /\ Ring /\ EventsInOrder /\ [Next]_vars
        => (TypeOK /\ Ring /\ EventsInOrder)'
  BY TypeNext, RingNext, OrderNext
<1> QED  BY <1>1, <1>2, <1>3, TypeInit, PTL DEF Spec

(* The ring hands events over in the order their lines were received, each  *)
(* once, however often its indices have wrapped.                            *)
THEOREM OrderCorrect == Spec => []EventsInOrder
<1> QED  BY OrderInvariant, PTL

-----------------------------------------------------------------------------
(* The events that are lost                                                *)

(* With one network the queue is empty at each recv and then holds what of  *)
(* the burst there is room for; with several it is empty at each line.      *)
LossState ==
  /\ before <= Len(lines)
  /\ pc # "closed" =>
       /\ dropped = Cardinality(Events) - Len(Reached)
       /\ IF multi
          THEN Events \subseteq Kept /\ (pc \in {"recv", "feed"} => count = 0)
          ELSE /\ First \subseteq Kept
               /\ pc = "recv" => count = 0
               /\ pc = "feed" => count = IF Cardinality(Burst) <= Capacity
                                         THEN Cardinality(Burst) ELSE Capacity

LEMMA LossUnchanged ==
  ASSUME UNCHANGED <<multi, items, head, count, dropped, lines, handled>>,
         UNCHANGED before
  PROVE  /\ UNCHANGED <<Events, Reached, Kept>>
         /\ UNCHANGED <<Burst, First>>
<1>1. UNCHANGED <<Events, Reached>>
  BY DEF Events, Reached, Queued
<1>2. UNCHANGED Burst
  BY <1>1 DEF Burst
<1>3. UNCHANGED <<Kept, First>>
  BY <1>1, <1>2 DEF Kept, First
<1> QED  BY <1>1, <1>2, <1>3

(* A recv starts a new burst.                                               *)
LEMMA RecvLoss ==
  ASSUME TypeOK, LossState, Recv
  PROVE  LossState'
<1>1. /\ UNCHANGED <<multi, items, head, count, dropped, lines, handled>>
      /\ before' = Len(lines) /\ pc = "recv" /\ pc' = "feed"
  BY DEF Recv, queue
<1>2. UNCHANGED <<Events, Reached>>
  BY <1>1 DEF Events, Reached, Queued
<1>3. UNCHANGED Kept
  BY <1>2 DEF Kept
<1>4. Burst' = {} /\ Len(lines) \in Nat
  BY <1>1, <1>2, EventsFinite DEF EventsFacts, Burst, TypeOK
<1>5. First' = {} /\ Cardinality(Burst') = 0
  BY <1>4, FS_EmptySet DEF First
<1> QED  BY <1>1, <1>2, <1>3, <1>4, <1>5, ReceiveAssumption DEF LossState

(* Steps within the recv that touch no event.                               *)
LEMMA QuietLoss ==
  ASSUME TypeOK, LossState, Quietly \/ WithinLine, ~Recv
  PROVE  LossState'
<1>1. /\ UNCHANGED <<multi, items, head, count, dropped, lines, handled>>
      /\ UNCHANGED before
  BY OtherSteps DEF Quietly, WithinLine, Lost, FeedDone, DispatchDone, vars,
     Store, Overflow, Skip, SkipEnds, history
<1>2. UNCHANGED <<Events, Reached, Kept, Burst, First>>
  BY <1>1, LossUnchanged
<1>3. \/ pc' = "closed"
      \/ pc' = pc
      \/ pc = "feed" /\ pc' = IF multi THEN "recv" ELSE "dispatch"
      \/ count = 0 /\ pc = "dispatch" /\ pc' = IF multi THEN "feed" ELSE "recv"
  BY DEF Quietly, WithinLine, Lost, FeedDone, DispatchDone, vars,
     Store, Overflow, Skip, SkipEnds
<1>4. UNCHANGED <<multi, count, dropped, lines, before>>
  BY <1>1
<1> HIDE DEF Events, Reached, Kept, Burst, First
<1>5. CASE pc' = "closed"
  BY <1>4, <1>5 DEF LossState
<1>6. CASE pc' = pc
  BY <1>2, <1>4, <1>6 DEF LossState
<1>7. CASE pc = "feed" /\ pc' = IF multi THEN "recv" ELSE "dispatch"
  BY <1>2, <1>4, <1>7 DEF LossState
<1>8. CASE count = 0 /\ pc = "dispatch"
           /\ pc' = IF multi THEN "feed" ELSE "recv"
  BY <1>2, <1>4, <1>8 DEF LossState
<1> QED  BY <1>3, <1>5, <1>6, <1>7, <1>8

LEMMA DispatchLoss ==
  ASSUME TypeOK, TypeOK', LossState, Dispatch
  PROVE  LossState'
<1>1. /\ pc = "dispatch" /\ pc' = "dispatch"
      /\ UNCHANGED <<multi, dropped, lines, before>>
  BY DEF Dispatch
<1>2. UNCHANGED <<Events, Reached>>
  BY <1>1, DispatchReached DEF Events
<1>3. UNCHANGED <<Kept, Burst, First>>
  BY <1>1, <1>2 DEF Kept, Burst, First
<1> QED  BY <1>1, <1>2, <1>3 DEF LossState

(* What a complete line that is an event adds.                              *)
LEMMA BurstGrows ==
  ASSUME TypeOK, TypeOK', LossState, Complete, IsEvent(Stripped(line))
  PROVE  /\ Len(lines) + 1 \notin Burst
         /\ Events' = Events \cup {Len(lines) + 1}
         /\ Burst' = Burst \cup {Len(lines) + 1}
         /\ Cardinality(Events') = Cardinality(Events) + 1
         /\ Cardinality(Burst') = Cardinality(Burst) + 1
         /\ \A k \in Burst : Rank(Burst', k) = Rank(Burst, k)
         /\ Rank(Burst', Len(lines) + 1) = Cardinality(Burst')
<1> DEFINE n == Len(lines) + 1
<1>1. /\ n \in Nat /\ Len(lines) \in Nat /\ Events' = Events \cup {n}
      /\ Events \subseteq 1 .. Len(lines)
  BY EventsGrow, EventsFinite DEF EventsFacts
<1>2. n > before /\ UNCHANGED before
  BY <1>1 DEF LossState, Complete, TypeOK
<1>3. Burst' = Burst \cup {n}
  BY <1>1, <1>2 DEF Burst
<1>4. \A e \in Burst : e \in Nat /\ e < n
  BY <1>1 DEF Burst
<1>5. n \notin Events /\ n \notin Burst
  BY <1>1, <1>4
<1>6. IsFiniteSet(Events) /\ IsFiniteSet(Burst)
  BY EventsFinite DEF EventsFacts
<1> HIDE DEF n
<1>7. /\ Cardinality(Events') = Cardinality(Events) + 1
      /\ Cardinality(Burst') = Cardinality(Burst) + 1
  BY <1>1, <1>3, <1>5, <1>6, FS_AddElement
<1>8. /\ \A k \in Burst : Rank(Burst', k) = Rank(Burst, k)
      /\ Rank(Burst', n) = Cardinality(Burst')
  BY <1>1, <1>3, <1>4, RankKeeps, RankLast
<1> QED  BY <1>1, <1>3, <1>5, <1>7, <1>8 DEF n

LEMMA PassesLoss ==
  ASSUME TypeOK, TypeOK', LossState, LinePasses
  PROVE  LossState'
<1>1. /\ Complete /\ pc' = pc
      /\ UNCHANGED <<multi, items, head, count, dropped, handled, before>>
  BY DEF LinePasses, Complete, queue
<1>2. UNCHANGED Events /\ Len(lines) \in Nat /\ Len(lines') = Len(lines) + 1
  BY EventsGrow DEF LinePasses
<1>3. UNCHANGED Reached
  BY <1>1 DEF Reached, Queued
<1>4. UNCHANGED <<Kept, Burst, First>>
  BY <1>1, <1>2, <1>3 DEF Kept, Burst, First
<1>5. before' <= Len(lines')
  BY <1>1, <1>2 DEF LossState, TypeOK
<1> QED  BY <1>1, <1>2, <1>3, <1>4, <1>5 DEF LossState

(* The queue had room: the event is the last of the burst that has one.     *)
LEMMA QueuedLoss ==
  ASSUME TypeOK, TypeOK', Ring, LossState, LineQueued
  PROVE  LossState'
<1> DEFINE n == Len(lines) + 1
<1>1. /\ Complete /\ IsEvent(Stripped(line)) /\ count < Capacity
      /\ count' = count + 1 /\ UNCHANGED <<multi, dropped, before>>
      /\ pc = "feed" /\ pc' = IF multi THEN "dispatch" ELSE "feed"
  BY DEF LineQueued, Complete, Feed
<1>2. /\ n \in Nat /\ Len(lines') = n /\ before' <= n
  <2>1. Len(lines) \in Nat /\ Len(lines') = n
    BY <1>1, EventsGrow
  <2>2. before <= Len(lines) /\ before \in Nat
    BY DEF LossState, TypeOK
  <2> QED  BY <1>1, <2>1, <2>2
<1>3. /\ Events' = Events \cup {n} /\ Burst' = Burst \cup {n}
      /\ Cardinality(Events') = Cardinality(Events) + 1
      /\ Cardinality(Burst') = Cardinality(Burst) + 1
      /\ \A k \in Burst : Rank(Burst', k) = Rank(Burst, k)
  BY <1>1, BurstGrows
<1>4. /\ Cardinality(Events) \in Nat /\ Cardinality(Burst) \in Nat
      /\ count \in Nat /\ Capacity \in Nat
  <2>1. Cardinality(Events) \in Nat /\ Cardinality(Burst) \in Nat
    BY EventsFinite DEF EventsFacts
  <2> QED  BY <2>1, ReceiveAssumption DEF TypeOK
<1> HIDE DEF n
<1>5. Reached \in Seq(Nat) /\ Reached' = Append(Reached, n)
  <2>1. Reached = Contents(handled, head, count, items)
    BY DEF Reached, Queued, Contents
  <2>2. Reached \in Seq(Nat)
    BY <2>1, ReachedShape DEF TypeOK
  <2> QED  BY <1>2, <2>2, QueuedReached
<1>6. /\ Len(Reached') = Len(Reached) + 1 /\ Len(Reached) \in Nat
      /\ Reached'[Len(Reached) + 1] = n
      /\ \A k \in 1 .. Len(Reached) : Reached'[k] = Reached[k]
  BY <1>2, <1>5
<1>7. Kept \cup {n} \subseteq Kept'
  <2>1. \A k \in 1 .. Len(Reached) : Reached[k] \in Kept'
    BY <1>6 DEF Kept
  <2>2. n \in Kept'
    BY <1>6 DEF Kept
  <2> QED  BY <2>1, <2>2 DEF Kept
<1>8. dropped' = Cardinality(Events') - Len(Reached')
  BY <1>1, <1>3, <1>4, <1>6 DEF LossState
<1>9. CASE multi
  <2>1. Events' \subseteq Kept'
    BY <1>1, <1>3, <1>7, <1>9 DEF LossState
  <2> QED  BY <1>1, <1>2, <1>8, <1>9, <2>1 DEF LossState
<1>10. CASE ~multi
  <2>1. count = Cardinality(Burst)
    BY <1>1, <1>4, <1>10 DEF LossState
  <2>2. count' = Cardinality(Burst') /\ Cardinality(Burst') <= Capacity
    BY <1>1, <1>3, <1>4, <2>1
  <2>3. \A k \in Burst : k \in First' => k \in First
    BY <1>3 DEF First
  <2>4. First' \subseteq Kept'
    <3>1. First' \subseteq First \cup {n}
      BY <1>3, <2>3 DEF First
    <3>2. First \subseteq Kept
      BY <1>1, <1>10 DEF LossState
    <3> QED  BY <3>1, <3>2, <1>7
  <2> QED  BY <1>1, <1>2, <1>8, <1>10, <2>2, <2>4 DEF LossState
<1> QED  BY <1>9, <1>10

(* The queue was full: Capacity events of the burst came before this one.   *)
LEMMA DroppedLoss ==
  ASSUME TypeOK, TypeOK', LossState, LineDropped
  PROVE  LossState'
<1> DEFINE n == Len(lines) + 1
<1>1. /\ Complete /\ IsEvent(Stripped(line)) /\ count >= Capacity
      /\ dropped' = dropped + 1 /\ pc = "feed" /\ pc' = pc
      /\ UNCHANGED <<multi, items, head, count, handled, before>>
  BY DEF LineDropped, Complete, Feed
<1>2. /\ n \in Nat /\ Len(lines') = n /\ before' <= n
  <2>1. Len(lines) \in Nat /\ Len(lines') = n
    BY <1>1, EventsGrow
  <2>2. before <= Len(lines) /\ before \in Nat
    BY DEF LossState, TypeOK
  <2> QED  BY <1>1, <2>1, <2>2
<1>3. /\ Events' = Events \cup {n} /\ Burst' = Burst \cup {n}
      /\ Cardinality(Events') = Cardinality(Events) + 1
      /\ Cardinality(Burst') = Cardinality(Burst) + 1
      /\ \A k \in Burst : Rank(Burst', k) = Rank(Burst, k)
      /\ Rank(Burst', n) = Cardinality(Burst')
  BY <1>1, BurstGrows
<1>4. /\ Cardinality(Events) \in Nat /\ Cardinality(Burst) \in Nat
      /\ count \in Nat /\ Capacity \in Nat \ {0} /\ dropped \in Nat
  <2>1. Cardinality(Events) \in Nat /\ Cardinality(Burst) \in Nat
    BY EventsFinite DEF EventsFacts
  <2> QED  BY <2>1, ReceiveAssumption DEF TypeOK
<1> HIDE DEF n
<1>5. UNCHANGED Reached /\ UNCHANGED Kept
  BY <1>1 DEF Reached, Queued, Kept
<1>6. ~multi
  <2>1. CASE multi
    <3>1. count = 0
      BY <1>1, <2>1 DEF LossState
    <3> QED  BY <1>1, <1>4, <3>1
  <2> QED  BY <2>1
<1>7. count = Capacity /\ Cardinality(Burst) >= Capacity
  <2>1. count = IF Cardinality(Burst) <= Capacity
                THEN Cardinality(Burst) ELSE Capacity
    BY <1>1, <1>6 DEF LossState
  <2> QED  BY <1>1, <1>4, <2>1
<1>8. n \notin First'
  BY <1>3, <1>4, <1>7 DEF First
<1>9. First' \subseteq Kept'
  <2>1. First' \subseteq First
    BY <1>3, <1>8 DEF First
  <2>2. First \subseteq Kept
    BY <1>1, <1>6 DEF LossState
  <2> QED  BY <2>1, <2>2, <1>5
<1>10. Len(Reached) \in Nat
  <2>1. Reached = Contents(handled, head, count, items)
    BY DEF Reached, Queued, Contents
  <2>2. Reached \in Seq(Nat)
    BY <2>1, ReachedShape DEF TypeOK
  <2> QED  BY <2>2
<1>11. dropped' = Cardinality(Events') - Len(Reached')
  BY <1>1, <1>3, <1>4, <1>5, <1>10 DEF LossState
<1>12. count' = IF Cardinality(Burst') <= Capacity
                THEN Cardinality(Burst') ELSE Capacity
  BY <1>1, <1>3, <1>4, <1>7
<1> QED  BY <1>1, <1>2, <1>6, <1>9, <1>11, <1>12 DEF LossState

LEMMA RefusedLoss ==
  ASSUME TypeOK, LossState, LineRefused
  PROVE  LossState'
<1>1. Complete /\ UNCHANGED before /\ pc' = "closed"
  BY DEF LineRefused, Complete
<1>2. before <= Len(lines')
  BY <1>1, EventsGrow DEF LossState, TypeOK
<1> QED  BY <1>1, <1>2 DEF LossState

LEMMA LossNext ==
  ASSUME TypeOK, TypeOK', Ring, LossState, [Next]_vars
  PROVE  LossState'
BY NextSteps, RecvLoss, QuietLoss, DispatchLoss, PassesLoss, QueuedLoss,
   DroppedLoss, RefusedLoss DEF LineDone

LEMMA LossInit == Init => LossState
<1> SUFFICES ASSUME Init PROVE LossState
  OBVIOUS
<1>1. Events = {} /\ Len(lines) = 0
  BY DEF Init, Events
<1>2. Burst = {} /\ First = {}
  BY <1>1 DEF Burst, First
<1>3. Queued = <<>>
  <2>1. 1 .. count = {}
    BY DEF Init
  <2> QED  BY <2>1 DEF Queued
<1>4. Len(Reached) = 0
  BY <1>3 DEF Init, Reached
<1>5. Cardinality(Events) = 0
  BY <1>1, FS_EmptySet
<1> QED  BY <1>1, <1>2, <1>4, <1>5 DEF Init, LossState

(* No event is lost but the ones of a recv that come after as many as the    *)
(* queue holds, and those are counted; with several networks none is lost.  *)
THEOREM LossCorrect == Spec => []LossOnlyInBursts
<1>1. TypeOK /\ Ring /\ LossState /\ [Next]_vars => LossState'
  BY TypeNext, LossNext
<1>2. LossState => LossOnlyInBursts
  BY DEF LossState, LossOnlyInBursts
<1> QED  BY <1>1, <1>2, LossInit, OrderInvariant, PTL DEF Spec

-----------------------------------------------------------------------------
(* The framer                                                              *)


(* Where the line begins that the next byte belongs to.                     *)
Current == Start(stream, Len(stream) + 1)

(* What was received of the current line is in the buffer, or too long.     *)
LineState ==
  /\ Current \in 1 .. Len(stream) + 1
  /\ IF dropping THEN (Len(stream) + 1) - Current > LineMax
     ELSE /\ Len(line) = (Len(stream) + 1) - Current
          /\ \A k \in 1 .. Len(line) : line[k] = stream[Current + k - 1]

(* The lines taken so far.                                                  *)
Begun == \A k \in Taken(stream) : Start(stream, k) \in 1 .. k

FrameState == LineState /\ Begun /\ FramesAgree

-----------------------------------------------------------------------------
(* The reference, when a byte is added                                     *)

LEMMA AppendByte ==
  ASSUME NEW s \in Seq(Byte), NEW b \in Byte
  PROVE  /\ Append(s, b) \in Seq(Byte)
         /\ Len(s) \in Nat /\ Len(Append(s, b)) = Len(s) + 1
         /\ Append(s, b)[Len(s) + 1] = b
         /\ \A k \in 1 .. Len(s) : Append(s, b)[k] = s[k]
OBVIOUS

(* The position after the last of the ends of lines in E.                   *)
After(E) == IF E = {} THEN 1 ELSE 1 + CHOOSE e \in E : \A f \in E : f <= e

LEMMA StartIsAfter ==
  \A s, k : Start(s, k) = After({e \in 1 .. k - 1 : s[e] = "LF"})
BY DEF Start, After

(* A later byte moves the beginning of no earlier line.                     *)
LEMMA StartSame ==
  ASSUME NEW s \in Seq(Byte), NEW b \in Byte, NEW k \in 1 .. Len(s) + 1
  PROVE  Start(Append(s, b), k) = Start(s, k)
<1>1. {e \in 1 .. k - 1 : Append(s, b)[e] = "LF"}
        = {e \in 1 .. k - 1 : s[e] = "LF"}
  BY AppendByte
<1> QED  BY <1>1, StartIsAfter

(* A byte that is no LF continues the line.                                 *)
LEMMA StartContinued ==
  ASSUME NEW s \in Seq(Byte), NEW b \in Byte, b # "LF"
  PROVE  Start(Append(s, b), Len(s) + 2) = Start(s, Len(s) + 1)
<1>1. /\ Len(s) \in Nat /\ Append(s, b)[Len(s) + 1] = b
      /\ \A k \in 1 .. Len(s) : Append(s, b)[k] = s[k]
  BY AppendByte
<1>2. (Len(s) + 2) - 1 = Len(s) + 1 /\ (Len(s) + 1) - 1 = Len(s)
  BY <1>1
<1>3. {e \in 1 .. Len(s) + 1 : Append(s, b)[e] = "LF"}
        = {e \in 1 .. Len(s) : s[e] = "LF"}
  BY <1>1
<1>4. Start(Append(s, b), Len(s) + 2)
        = After({e \in 1 .. (Len(s) + 2) - 1 : Append(s, b)[e] = "LF"})
  BY DEF Start, After
<1>5. Start(s, Len(s) + 1) = After({e \in 1 .. (Len(s) + 1) - 1 : s[e] = "LF"})
  BY DEF Start, After
<1> QED  BY <1>2, <1>3, <1>4, <1>5

(* An LF ends it.                                                           *)
LEMMA StartAfter ==
  ASSUME NEW s \in Seq(Byte)
  PROVE  Start(Append(s, "LF"), Len(s) + 2) = Len(s) + 2
<1> DEFINE t == Append(s, "LF")
           ends == {e \in 1 .. (Len(s) + 2) - 1 : t[e] = "LF"}
<1>1. Len(s) \in Nat /\ t[Len(s) + 1] = "LF"
  BY AppendByte DEF Byte
<1>2. /\ Len(s) + 1 \in ends
      /\ \A e \in ends : e \in Nat /\ e <= Len(s) + 1
  BY <1>1
<1>3. Start(t, Len(s) + 2) = After(ends)
  BY DEF Start, After
<1> HIDE DEF t, ends
<1>4. ASSUME NEW e \in ends, \A f \in ends : f <= e PROVE e = Len(s) + 1
  BY <1>1, <1>2, <1>4
<1>5. (CHOOSE e \in ends : \A f \in ends : f <= e) = Len(s) + 1
  BY <1>2, <1>4
<1>6. After(ends) = Len(s) + 2
  BY <1>1, <1>2, <1>5 DEF After
<1> QED  BY <1>3, <1>6 DEF t

LEMMA TakenAppend ==
  ASSUME NEW s \in Seq(Byte), NEW b \in Byte
  PROVE  Taken(Append(s, b)) =
           IF b = "LF" /\ (Len(s) + 1) - Start(s, Len(s) + 1) <= LineMax
           THEN Taken(s) \cup {Len(s) + 1} ELSE Taken(s)
<1>1. /\ Len(s) \in Nat /\ Len(Append(s, b)) = Len(s) + 1
      /\ Append(s, b)[Len(s) + 1] = b
      /\ \A k \in 1 .. Len(s) : Append(s, b)[k] = s[k]
  BY AppendByte
<1>2. \A k \in 1 .. Len(s) + 1 : Start(Append(s, b), k) = Start(s, k)
  BY StartSame
<1>3. 1 .. Len(Append(s, b)) = 1 .. Len(s) \cup {Len(s) + 1}
  BY <1>1
<1> DEFINE t == Append(s, b)
<1> HIDE DEF Start, t
<1>4. Taken(t) = {k \in 1 .. Len(s) \cup {Len(s) + 1} :
                     t[k] = "LF" /\ k - Start(t, k) <= LineMax}
  BY <1>3 DEF Taken, t
<1>5. \A k \in 1 .. Len(s) : t[k] = s[k] /\ Start(t, k) = Start(s, k)
  BY <1>1, <1>2 DEF t
<1>6. t[Len(s) + 1] = b /\ Start(t, Len(s) + 1) = Start(s, Len(s) + 1)
  BY <1>1, <1>2 DEF t
<1> DEFINE fits == b = "LF" /\ (Len(s) + 1) - Start(s, Len(s) + 1) <= LineMax
<1>7. Len(s) + 1 \in Taken(t) <=> fits
  BY <1>4, <1>6
<1>8. \A k \in 1 .. Len(s) : k \in Taken(t) <=> k \in Taken(s)
  BY <1>4, <1>5 DEF Taken
<1>9. Taken(t) \subseteq 1 .. Len(s) \cup {Len(s) + 1}
  BY <1>4
<1>10. Taken(s) \subseteq 1 .. Len(s)
  BY DEF Taken
<1> HIDE DEF Taken, fits
<1>11. Taken(t) = IF fits THEN Taken(s) \cup {Len(s) + 1} ELSE Taken(s)
  BY <1>1, <1>7, <1>8, <1>9, <1>10
<1> QED  BY <1>11 DEF t, fits

LEMMA TakenFinite ==
  ASSUME NEW s \in Seq(Byte)
  PROVE  /\ Taken(s) \subseteq 1 .. Len(s) /\ Len(s) \in Nat
         /\ IsFiniteSet(Taken(s)) /\ Cardinality(Taken(s)) \in Nat
<1>1. Taken(s) \in SUBSET (1 .. Len(s)) /\ Len(s) \in Nat
  BY DEF Taken
<1>2. IsFiniteSet(1 .. Len(s))
  BY <1>1, FS_Interval
<1> QED  BY <1>1, <1>2, FS_Subset, FS_CardinalityType

(* A rank counts from one.                                                  *)
LEMMA RankRange ==
  ASSUME NEW S \in SUBSET Nat, IsFiniteSet(S), NEW k \in S
  PROVE  Rank(S, k) \in 1 .. Cardinality(S)
<1> DEFINE R == {e \in S : e <= k}
<1>1. R \in SUBSET S /\ k \in R
  OBVIOUS
<1>2. IsFiniteSet(R) /\ Cardinality(R) <= Cardinality(S)
  BY <1>1, FS_Subset
<1>3. Cardinality(R) \in Nat /\ Cardinality(S) \in Nat
  BY <1>2, FS_CardinalityType
<1>4. Cardinality(R) # 0
  BY <1>1, <1>2, FS_EmptySet
<1> QED  BY <1>2, <1>3, <1>4 DEF Rank

(* A later byte changes no earlier line.                                    *)
LEMMA SubSeqSame ==
  ASSUME NEW s \in Seq(Byte), NEW b \in Byte, NEW k \in 1 .. Len(s),
         NEW m \in 1 .. k
  PROVE  SubSeq(Append(s, b), m, k - 1) = SubSeq(s, m, k - 1)
<1>1. \A j \in 1 .. Len(s) : Append(s, b)[j] = s[j] /\ s[j] \in Byte
  BY AppendByte
<1>2. \A j \in m .. k - 1 : Append(s, b)[j] = s[j] /\ s[j] \in Byte
  BY <1>1
<1> DEFINE u == SubSeq(Append(s, b), m, k - 1)
           v == SubSeq(s, m, k - 1)
<1>3. /\ u \in Seq(Byte) /\ v \in Seq(Byte) /\ Len(u) = Len(v)
      /\ Len(v) = IF m <= k - 1 THEN k - 1 - m + 1 ELSE 0
      /\ \A j \in 1 .. k - 1 - m + 1 :
           u[j] = Append(s, b)[m + j - 1] /\ v[j] = s[m + j - 1]
  BY <1>2, SubSeqProperties
<1>4. \A j \in 1 .. Len(v) : u[j] = v[j]
  BY <1>2, <1>3
<1> QED  BY <1>3, <1>4, SeqEqual

-----------------------------------------------------------------------------
(* The steps                                                               *)

(* The lines taken before are where they were, and read as before.          *)
LEMMA EarlierLines ==
  ASSUME TypeOK, FrameState, NEW b \in Byte, stream' = Append(stream, b)
  PROVE  /\ \A k \in Taken(stream) : Start(stream', k) \in 1 .. k
         /\ \A k \in Taken(stream) :
              SubSeq(stream', Start(stream', k), k - 1)
                = SubSeq(stream, Start(stream, k), k - 1)
<1> stream \in Seq(Byte)
  BY DEF TypeOK
<1> SUFFICES ASSUME NEW k \in Taken(stream)
             PROVE  /\ Start(stream', k) \in 1 .. k
                    /\ SubSeq(stream', Start(stream', k), k - 1)
                         = SubSeq(stream, Start(stream, k), k - 1)
  OBVIOUS
<1>1. k \in 1 .. Len(stream) /\ k \in 1 .. Len(stream) + 1
  BY TakenFinite
<1>2. Start(stream', k) = Start(stream, k)
  BY <1>1, StartSame
<1>3. Start(stream, k) \in 1 .. k
  BY DEF FrameState, Begun
<1>4. SubSeq(stream', Start(stream, k), k - 1)
        = SubSeq(stream, Start(stream, k), k - 1)
  BY <1>1, <1>3, SubSeqSame
<1> QED  BY <1>2, <1>3, <1>4

(* A byte after which no more lines are taken.                              *)
LEMMA NoneTaken ==
  ASSUME TypeOK, FrameState, NEW b \in Byte, stream' = Append(stream, b),
         Taken(stream') = Taken(stream), UNCHANGED lines
  PROVE  Begun' /\ FramesAgree'
<1>1. Begun'
  BY EarlierLines DEF Begun
<1>2. FramesAgree'
  BY EarlierLines DEF FrameState, FramesAgree
<1> QED  BY <1>1, <1>2

(* Bytes of a line: the line goes on.                                       *)
LEMMA ByteFrames ==
  ASSUME TypeOK, FrameState, NEW b \in Byte,
         Store(b) \/ Overflow(b) \/ Skip(b)
  PROVE  FrameState'
<1>1. b # "LF" /\ stream' = Append(stream, b) /\ UNCHANGED lines
  BY DEF Store, Overflow, Skip, Feed
<1>2. /\ stream \in Seq(Byte) /\ Len(stream) \in Nat
      /\ Len(stream') = Len(stream) + 1 /\ stream'[Len(stream) + 1] = b
      /\ \A k \in 1 .. Len(stream) : stream'[k] = stream[k]
  BY <1>1, AppendByte DEF TypeOK
<1>3. Taken(stream') = Taken(stream)
  BY <1>1, <1>2, TakenAppend
<1>4. Begun' /\ FramesAgree'
  BY <1>1, <1>3, NoneTaken
<1>5. Current' = Current
  <2>1. Start(stream', Len(stream) + 2) = Start(stream, Len(stream) + 1)
    BY <1>1, <1>2, StartContinued
  <2>2. Len(stream') + 1 = Len(stream) + 2
    BY <1>2
  <2> QED  BY <2>1, <2>2 DEF Current
<1>6. /\ Current \in 1 .. Len(stream) + 1
      /\ IF dropping THEN (Len(stream) + 1) - Current > LineMax
         ELSE /\ Len(line) = (Len(stream) + 1) - Current
              /\ \A k \in 1 .. Len(line) : line[k] = stream[Current + k - 1]
  BY DEF FrameState, LineState
<1> HIDE DEF Current
<1>7. Current' \in 1 .. Len(stream') + 1
  BY <1>2, <1>5, <1>6
<1>8. CASE Store(b)
  <2>1. /\ ~dropping /\ ~dropping' /\ line' = Append(line, b)
        /\ line \in Seq(Byte)
    BY <1>8 DEF Store, TypeOK
  <2>2. /\ Len(line) \in Nat /\ Len(line') = Len(line) + 1
        /\ line'[Len(line) + 1] = b
        /\ \A k \in 1 .. Len(line) : line'[k] = line[k]
    BY <2>1, AppendByte
  <2>3. Len(line') = (Len(stream') + 1) - Current'
    <3>1. Len(line) = (Len(stream) + 1) - Current
      BY <1>6, <2>1
    <3> QED  BY <1>2, <1>5, <1>6, <2>2, <3>1
  <2>4. ASSUME NEW k \in 1 .. Len(line')
        PROVE  line'[k] = stream'[Current' + k - 1]
    <3>1. CASE k = Len(line) + 1
      <4>1. Current + k - 1 = Len(stream) + 1
        BY <1>2, <1>6, <2>1, <2>2, <3>1
      <4> QED  BY <1>2, <1>5, <2>2, <3>1, <4>1
    <3>2. CASE k \in 1 .. Len(line)
      <4>1. Current + k - 1 \in 1 .. Len(stream)
        BY <1>2, <1>6, <2>1, <2>2, <3>2
      <4> QED  BY <1>2, <1>5, <1>6, <2>1, <2>2, <3>2, <4>1
    <3> QED  BY <2>2, <3>1, <3>2
  <2> QED  BY <1>4, <1>7, <2>1, <2>3, <2>4 DEF FrameState, LineState
<1>9. CASE Overflow(b) \/ Skip(b)
  <2>1. /\ dropping'
        /\ ~dropping => Len(line) >= LineMax
    BY <1>9 DEF Overflow, Skip, framer
  <2>2. (Len(stream') + 1) - Current' > LineMax
    <3>1. Len(line) \in Nat /\ LineMax \in Nat
      BY ReceiveAssumption DEF TypeOK
    <3>2. (Len(stream) + 1) - Current >= LineMax
      BY <1>2, <1>6, <2>1, <3>1
    <3> QED  BY <1>2, <1>5, <1>6, <3>1, <3>2
  <2> QED  BY <1>4, <1>7, <2>1, <2>2 DEF FrameState, LineState
<1> QED  BY <1>8, <1>9

(* After an LF the next line begins, with an empty buffer.                  *)
LEMMA LineBegins ==
  ASSUME TypeOK, stream' = Append(stream, "LF"), line' = <<>>, ~dropping'
  PROVE  LineState'
<1>1. stream \in Seq(Byte) /\ "LF" \in Byte
  BY DEF TypeOK, Byte
<1>2. Len(stream) \in Nat /\ Len(stream') = Len(stream) + 1
  BY <1>1, AppendByte
<1>3. Start(stream', Len(stream) + 2) = Len(stream) + 2
  BY <1>1, StartAfter
<1>4. Len(stream') + 1 = Len(stream) + 2
  BY <1>2
<1>5. Current' = Len(stream') + 1
  BY <1>3, <1>4 DEF Current
<1>6. Len(line') = 0
  OBVIOUS
<1> QED  BY <1>2, <1>5, <1>6 DEF LineState

(* The end of a line that was too long.                                     *)
LEMMA SkipEndsFrames ==
  ASSUME TypeOK, FrameState, SkipEnds
  PROVE  FrameState'
<1>1. /\ stream' = Append(stream, "LF") /\ UNCHANGED lines
      /\ dropping /\ line' = <<>> /\ ~dropping'
  BY DEF SkipEnds, Feed
<1>2. stream \in Seq(Byte) /\ Len(stream) \in Nat /\ "LF" \in Byte
  BY DEF TypeOK, Byte
<1>3. (Len(stream) + 1) - Start(stream, Len(stream) + 1) > LineMax
      /\ Start(stream, Len(stream) + 1) \in 1 .. Len(stream) + 1
  BY <1>1 DEF FrameState, LineState, Current
<1>4. ~((Len(stream) + 1) - Start(stream, Len(stream) + 1) <= LineMax)
  BY <1>2, <1>3, ReceiveAssumption
<1>5. Taken(stream') = Taken(stream)
  BY <1>1, <1>2, <1>4, TakenAppend
<1>6. Begun' /\ FramesAgree'
  BY <1>1, <1>2, <1>5, NoneTaken
<1> QED  BY <1>1, <1>6, LineBegins DEF FrameState

(* The end of a line that fits: it is what lies between two LFs.            *)
LEMMA LineIsSubSeq ==
  ASSUME TypeOK, FrameState, ~dropping
  PROVE  \A b \in Byte :
           SubSeq(Append(stream, b), Current, Len(stream)) = line
<1> TAKE b \in Byte
<1>1. /\ Current \in 1 .. Len(stream) + 1
      /\ Len(line) = (Len(stream) + 1) - Current
      /\ \A k \in 1 .. Len(line) : line[k] = stream[Current + k - 1]
  BY DEF FrameState, LineState
<1>2. stream \in Seq(Byte) /\ line \in Seq(Byte) /\ Len(stream) \in Nat
  BY DEF TypeOK
<1> DEFINE s == Append(stream, b)
           u == SubSeq(s, Current, Len(stream))
<1> HIDE DEF Current
<1>3. \A j \in 1 .. Len(stream) : s[j] = stream[j] /\ s[j] \in Byte
  BY <1>2, AppendByte
<1>4. \A j \in Current .. Len(stream) : s[j] \in Byte
  BY <1>1, <1>2, <1>3
<1> HIDE DEF s
<1>5. /\ u \in Seq(Byte)
      /\ Len(u) = IF Current <= Len(stream)
                  THEN Len(stream) - Current + 1 ELSE 0
      /\ \A j \in 1 .. Len(stream) - Current + 1 : u[j] = s[Current + j - 1]
  <2>1. Current \in Int /\ Len(stream) \in Int
    BY <1>1, <1>2
  <2> QED  BY <1>4, <2>1, SubSeqProperties
<1> HIDE DEF u
<1>6. Len(u) = Len(line)
  BY <1>1, <1>2, <1>5
<1>7. ASSUME NEW j \in 1 .. Len(u) PROVE u[j] = line[j]
  <2>1. /\ j \in 1 .. Len(line) /\ j \in 1 .. Len(stream) - Current + 1
        /\ Current + j - 1 \in 1 .. Len(stream)
    BY <1>1, <1>2, <1>6
  <2> QED  BY <1>1, <1>3, <1>5, <2>1
<1>8. u = line
  BY <1>2, <1>5, <1>6, <1>7, SeqEqual
<1> QED  BY <1>8 DEF u, s

LEMMA CompleteFrames ==
  ASSUME TypeOK, TypeOK', FrameState, Complete
  PROVE  FrameState'
<1> DEFINE n == Len(stream) + 1
           good == Taken(stream)
<1>1. /\ stream' = Append(stream, "LF") /\ line' = <<>>
      /\ ~dropping /\ ~dropping'
  BY DEF Complete, Feed
<1>2. /\ stream \in Seq(Byte) /\ Len(stream) \in Nat /\ "LF" \in Byte
      /\ n \in Nat /\ n \in 1 .. n
  <2>1. stream \in Seq(Byte) /\ "LF" \in Byte
    BY DEF TypeOK, Byte
  <2>2. Len(stream) \in Nat
    BY <2>1
  <2> QED  BY <2>1, <2>2
<1>3. /\ Len(lines') = Len(lines) + 1 /\ Len(lines) \in Nat
      /\ lines'[Len(lines) + 1] = Stripped(line)
      /\ \A k \in 1 .. Len(lines) : lines'[k] = lines[k]
  BY CompleteType
<1>4. n - Start(stream, n) <= LineMax /\ Start(stream, n) \in 1 .. n
  BY <1>1, <1>2 DEF TypeOK, FrameState, LineState, Current
<1>5. Taken(stream') = good \cup {n}
  BY <1>1, <1>2, <1>4, TakenAppend
<1>6. Start(stream', n) = Start(stream, n)
  BY <1>1, <1>2, StartSame
<1>7. /\ good \subseteq 1 .. Len(stream) /\ IsFiniteSet(good)
      /\ Cardinality(good) \in Nat
  BY <1>2, TakenFinite
<1>8. good \in SUBSET Nat /\ \A e \in good : e \in Nat /\ e < n
  BY <1>2, <1>7
<1>9. Len(lines) = Cardinality(good)
      /\ \A k \in good : lines[Rank(good, k)]
           = Stripped(SubSeq(stream, Start(stream, k), k - 1))
  BY DEF FrameState, FramesAgree
<1>10. Begun'
  BY <1>1, <1>2, <1>4, <1>5, <1>6, EarlierLines DEF Begun
<1>11. SubSeq(stream', Start(stream', n), n - 1) = line
  <2>1. n - 1 = Len(stream)
    BY <1>2
  <2> QED  BY <1>1, <1>2, <1>6, <2>1, LineIsSubSeq DEF Current
<1>12. \A k \in good : SubSeq(stream', Start(stream', k), k - 1)
                         = SubSeq(stream, Start(stream, k), k - 1)
  BY <1>1, <1>2, EarlierLines
<1> HIDE DEF n, good, Stripped, Rank, Start
<1>13. Cardinality(good \cup {n}) = Cardinality(good) + 1
  <2>1. n \notin good
    BY <1>2, <1>8
  <2> QED  BY <1>7, <2>1, FS_AddElement
<1>14. ASSUME NEW k \in good \cup {n}
       PROVE  lines'[Rank(good \cup {n}, k)]
                = Stripped(SubSeq(stream', Start(stream', k), k - 1))
  <2>1. CASE k = n
    <3>1. Rank(good \cup {n}, n) = Len(lines) + 1
      BY <1>2, <1>8, <1>9, <1>13, RankLast
    <3> QED  BY <1>3, <1>11, <2>1, <3>1
  <2>2. CASE k \in good
    <3>1. Rank(good \cup {n}, k) = Rank(good, k)
      BY <1>2, <1>8, <2>2, RankKeeps
    <3>2. Rank(good, k) \in 1 .. Len(lines)
      BY <1>7, <1>8, <1>9, <2>2, RankRange
    <3> QED  BY <1>3, <1>9, <1>12, <2>2, <3>1, <3>2
  <2> QED  BY <2>1, <2>2
<1>15. FramesAgree'
  <2>1. Len(lines') = Cardinality(Taken(stream'))
    BY <1>3, <1>5, <1>9, <1>13
  <2>2. \A k \in Taken(stream') : lines'[Rank(Taken(stream'), k)]
          = Stripped(SubSeq(stream', Start(stream', k), k - 1))
    BY <1>5, <1>14
  <2> QED  BY <2>1, <2>2 DEF FramesAgree
<1> QED  BY <1>1, <1>10, <1>15, LineBegins DEF FrameState

LEMMA FrameNext ==
  ASSUME TypeOK, TypeOK', FrameState, [Next]_vars
  PROVE  FrameState'
<1>1. CASE Quietly \/ Dispatch
  <2>1. UNCHANGED <<line, dropping, stream, lines>>
    BY <1>1 DEF Quietly, Recv, Lost, FeedDone, DispatchDone, Dispatch, vars,
       framer, history
  <2> QED
    BY <2>1 DEF FrameState, LineState, Current, Begun, FramesAgree
<1>2. CASE WithinLine
  BY <1>2, ByteFrames, SkipEndsFrames DEF WithinLine
<1>3. CASE LineDone
  BY <1>3, UnqueuedSteps, CompleteFrames DEF LineDone, LineQueued
<1> QED  BY <1>1, <1>2, <1>3, NextSteps

LEMMA FrameInit == Init => FrameState
<1> SUFFICES ASSUME Init PROVE FrameState
  OBVIOUS
<1>1. stream = <<>> /\ Len(stream) = 0 /\ line = <<>> /\ ~dropping
  BY DEF Init
<1>2. Taken(stream) = {}
  BY <1>1 DEF Taken
<1>3. Current = 1
  <2>1. Current = After({e \in 1 .. (Len(stream) + 1) - 1 : stream[e] = "LF"})
    BY DEF Current, Start, After
  <2>2. 1 .. (Len(stream) + 1) - 1 = {}
    BY <1>1
  <2> QED  BY <2>1, <2>2 DEF After
<1>4. LineState
  BY <1>1, <1>3 DEF LineState
<1>5. Begun /\ FramesAgree
  BY <1>2, FS_EmptySet DEF Init, Begun, FramesAgree
<1> QED  BY <1>4, <1>5 DEF FrameState

(* What ambot_irc_framer_feed gives to its callback is the lines of the      *)
(* stream that fit in its buffer, whole and in order, for every stream and  *)
(* every division of it into recvs.                                         *)
THEOREM FramingCorrect == Spec => []FramesAgree
<1>1. TypeOK /\ FrameState /\ [Next]_vars => FrameState'
  BY TypeNext, FrameNext
<1>2. FrameState => FramesAgree
  BY DEF FrameState
<1> QED  BY <1>1, <1>2, FrameInit, TypeCorrect, PTL DEF Spec
=============================================================================
