------------------------- MODULE UartTransmitProofs -------------------------
(***************************************************************************)
(* Proofs, for every capacity and every item type, that RingBuffer is the  *)
(* bounded queue of module BoundedFifo; and about writing characters to    *)
(* one, for every capacity of the buffer and of the UART's FIFO and every  *)
(* number of characters: nothing is lost or overtaken between push and the *)
(* wire, the transmit interrupt is on when there is something to send, the *)
(* handler never waits for a lock of the code it interrupted, and the      *)
(* buffer stays a queue.                                                   *)
(***************************************************************************)
EXTENDS UartTransmit, SequenceTheorems, TLAPS

----------------------------------------------------------------------------
(* The ring buffer *)

(* An index is less than twice the capacity, so % N subtracts N at most    *)
(* once.                                                                   *)
LEMMA ModOnce ==
    ASSUME NEW i \in Nat, i < 2 * N
    PROVE  i % N = IF i < N THEN i ELSE i - N
<1>1. CASE i < N
  BY <1>1, RingAssumption
<1>2. CASE i >= N
  <2>1. i - N \in Nat /\ i - N < N /\ i = N + (i - N)
    BY <1>2, RingAssumption
  <2>2. QED
    BY <1>2, <2>1, RingAssumption
<1>3. QED
  BY <1>1, <1>2, RingAssumption

RingInv == RingTypeOK /\ RingConsistent

(* The places behind the head, from 0 to N, as slots *)
LEMMA SlotValue ==
    ASSUME NEW h \in Slots, NEW i \in 0 .. N
    PROVE  /\ slot(h, i) = IF h + i < N THEN h + i ELSE h + i - N
           /\ slot(h, i) \in Slots
<1>1. h \in Nat /\ h < N /\ i \in Nat /\ i <= N /\ N \in Nat \ {0}
  BY RingAssumption DEF Slots
<1>2. PICK j \in Nat : j = h + i
  BY <1>1
<1>3. j < 2 * N
  BY <1>1, <1>2
<1>4. j % N = IF j < N THEN j ELSE j - N
  BY <1>3, ModOnce
<1>5. slot(h, i) = j % N
  BY <1>2 DEF slot
<1>6. QED
  BY <1>1, <1>2, <1>4, <1>5 DEF Slots

(* next_slot is the slot one place on. *)
LEMMA NextSlotValue ==
    ASSUME NEW i \in Slots
    PROVE  /\ next_slot(i) = IF i + 1 < N THEN i + 1 ELSE 0
           /\ next_slot(i) \in Slots
<1>1. i \in Nat /\ i < N /\ 1 \in 0 .. N /\ N \in Nat \ {0}
  BY RingAssumption DEF Slots
<1>2. /\ slot(i, 1) = IF i + 1 < N THEN i + 1 ELSE i + 1 - N
      /\ slot(i, 1) \in Slots
  BY <1>1, SlotValue
<1>3. next_slot(i) = slot(i, 1)
  BY DEF next_slot, slot
<1>4. QED
  BY <1>1, <1>2, <1>3

LEMMA InitRingInv == RingInit => RingInv
<1> SUFFICES ASSUME RingInit PROVE RingInv
  OBVIOUS
<1>1. RingTypeOK
  BY RingAssumption DEF RingInit, RingTypeOK, Slots
<1>2. 0 \in Slots /\ 0 \in 0 .. N
  BY RingAssumption DEF Slots
<1>3. slot(0, 0) = 0
  BY <1>2, SlotValue, RingAssumption
<1>4. QED
  BY <1>1, <1>3 DEF RingInv, RingConsistent, RingInit

(* What a push that finds room does to the places behind the head *)
LEMMA PushEffect ==
    ASSUME RingInv, NEW item \in Items, push(item), len # N
    PROVE  /\ RingInv'
           /\ out' = Ok
           /\ len' = len + 1
           /\ \A i \in 0 .. len - 1 : buffer'[slot(head', i)] = buffer[slot(head, i)]
           /\ buffer'[slot(head', len)] = item
<1>1. /\ buffer \in [Slots -> Items \cup {Uninit}]
      /\ head \in Slots /\ tail \in Slots /\ len \in 0 .. N /\ N \in Nat \ {0}
      /\ tail = slot(head, len)
      /\ \A i \in 0 .. len - 1 : buffer[slot(head, i)] \in Items
  BY RingAssumption DEF RingInv, RingTypeOK, RingConsistent
<1>2. /\ out' = Ok /\ len' = len + 1 /\ head' = head
      /\ tail' = next_slot(tail)
      /\ buffer' = [buffer EXCEPT ![tail] = item]
  BY DEF push
<1>3. len \in 0 .. N /\ len + 1 \in 0 .. N /\ \A i \in 0 .. len - 1 : i \in 0 .. N
  BY <1>1
<1>4. tail = IF head + len < N THEN head + len ELSE head + len - N
  BY <1>1, <1>3, SlotValue
<1>5. ASSUME NEW i \in 0 .. len - 1
      PROVE  slot(head, i) \in Slots /\ slot(head, i) # tail
  <2>1. /\ slot(head, i) = IF head + i < N THEN head + i ELSE head + i - N
        /\ slot(head, i) \in Slots
    BY <1>1, <1>3, SlotValue
  <2>2. QED
    BY <1>1, <1>4, <2>1 DEF Slots
<1>6. \A i \in 0 .. len - 1 : buffer'[slot(head', i)] = buffer[slot(head, i)]
  BY <1>1, <1>2, <1>5
<1>7. buffer'[slot(head', len)] = item
  BY <1>1, <1>2
<1>8. RingTypeOK'
  <2>1. tail' \in Slots
    BY <1>1, <1>2, NextSlotValue
  <2>2. buffer' \in [Slots -> Items \cup {Uninit}]
    BY <1>1, <1>2
  <2>3. QED
    BY <1>1, <1>2, <1>3, <2>1, <2>2 DEF RingTypeOK
<1>9. tail' = slot(head', len')
  <2>1. tail' = IF tail + 1 < N THEN tail + 1 ELSE 0
    BY <1>1, <1>2, NextSlotValue
  <2>2. slot(head, len + 1) =
            IF head + (len + 1) < N THEN head + (len + 1) ELSE head + (len + 1) - N
    BY <1>1, <1>3, SlotValue
  <2>3. tail' = slot(head, len + 1)
    BY <1>1, <1>4, <2>1, <2>2 DEF Slots
  <2>4. QED
    BY <1>2, <2>3
<1>10. \A i \in 0 .. len' - 1 : buffer'[slot(head', i)] \in Items
  <2> SUFFICES ASSUME NEW i \in 0 .. len' - 1 PROVE buffer'[slot(head', i)] \in Items
    OBVIOUS
  <2>1. i \in 0 .. len - 1 \/ i = len
    BY <1>1, <1>2
  <2>2. QED
    BY <1>1, <1>6, <1>7, <2>1
<1>11. QED
  BY <1>2, <1>6, <1>7, <1>8, <1>9, <1>10 DEF RingInv, RingConsistent

(* What a pop that finds an item does to the places behind the head *)
LEMMA PopEffect ==
    ASSUME RingInv, pop, len # 0
    PROVE  /\ RingInv'
           /\ out' = buffer[slot(head, 0)]
           /\ len' = len - 1
           /\ \A i \in 0 .. len - 2 : buffer'[slot(head', i)] = buffer[slot(head, i + 1)]
<1>1. /\ buffer \in [Slots -> Items \cup {Uninit}]
      /\ head \in Slots /\ tail \in Slots /\ len \in 1 .. N /\ N \in Nat \ {0}
      /\ tail = slot(head, len)
      /\ \A i \in 0 .. len - 1 : buffer[slot(head, i)] \in Items
  BY RingAssumption DEF RingInv, RingTypeOK, RingConsistent
<1>2. /\ out' = buffer[head] /\ len' = len - 1 /\ head' = next_slot(head)
      /\ tail' = tail /\ buffer' = buffer
  BY DEF pop
<1>3. head' \in Slots /\ head' = IF head + 1 < N THEN head + 1 ELSE 0
  BY <1>1, <1>2, NextSlotValue
<1>4. slot(head, 0) = head
  <2>1. 0 \in 0 .. N
    BY <1>1
  <2>2. slot(head, 0) = IF head + 0 < N THEN head + 0 ELSE head + 0 - N
    BY <1>1, <2>1, SlotValue
  <2>3. QED
    BY <1>1, <2>2 DEF Slots
<1>5. ASSUME NEW i \in 0 .. N - 1
      PROVE  slot(head', i) = slot(head, i + 1)
  <2>1. i \in 0 .. N /\ i + 1 \in 0 .. N
    BY <1>1
  <2>2. slot(head, i + 1) = IF head + (i + 1) < N THEN head + (i + 1) ELSE head + (i + 1) - N
    BY <1>1, <2>1, SlotValue
  <2>3. slot(head', i) = IF head' + i < N THEN head' + i ELSE head' + i - N
    BY <1>3, <2>1, SlotValue
  <2>4. QED
    BY <1>1, <1>3, <2>1, <2>2, <2>3 DEF Slots
<1>6. \A i \in 0 .. len - 2 : i \in 0 .. N - 1 /\ i + 1 \in 0 .. len - 1
  BY <1>1
<1>7. \A i \in 0 .. len - 2 : buffer'[slot(head', i)] = buffer[slot(head, i + 1)]
  BY <1>2, <1>5, <1>6
<1>8. tail' = slot(head', len')
  <2>1. len - 1 \in 0 .. N - 1 /\ (len - 1) + 1 = len
    BY <1>1
  <2>2. slot(head', len - 1) = slot(head, len)
    BY <1>5, <2>1
  <2>3. QED
    BY <1>1, <1>2, <2>2
<1>9. out' \in Items
  BY <1>1, <1>2, <1>4
<1>10. RingTypeOK'
  BY <1>1, <1>2, <1>3, <1>9 DEF RingTypeOK
<1>11. \A i \in 0 .. len' - 1 : buffer'[slot(head', i)] \in Items
  BY <1>1, <1>2, <1>6, <1>7
<1>12. QED
  BY <1>2, <1>4, <1>7, <1>8, <1>10, <1>11 DEF RingInv, RingConsistent

LEMMA NextRingInv == RingInv /\ [RingNext]_ringVars => RingInv'
<1> SUFFICES ASSUME RingInv, [RingNext]_ringVars PROVE RingInv'
  OBVIOUS
<1>1. ASSUME NEW item \in Items, push(item) PROVE RingInv'
  <2>1. CASE len # N
    BY <1>1, <2>1, PushEffect
  <2>2. CASE len = N
    BY <1>1, <2>2 DEF push, RingInv, RingTypeOK, RingConsistent
  <2>3. QED
    BY <2>1, <2>2
<1>2. CASE pop
  <2>1. CASE len # 0
    BY <1>2, <2>1, PopEffect
  <2>2. CASE len = 0
    BY <1>2, <2>2 DEF pop, RingInv, RingTypeOK, RingConsistent
  <2>3. QED
    BY <2>1, <2>2
<1>3. CASE UNCHANGED ringVars
  BY <1>3 DEF ringVars, RingInv, RingTypeOK, RingConsistent
<1>4. QED
  BY <1>1, <1>2, <1>3 DEF RingNext

(* head, tail and len of the ring buffer always agree, and every slot pop  *)
(* can read has been written.                                              *)
THEOREM RingIsConsistent == RingSpec => [](RingTypeOK /\ RingConsistent)
<1>1. RingInit => RingInv
  BY InitRingInv
<1>2. RingInv /\ [RingNext]_ringVars => RingInv'
  BY NextRingInv
<1>3. QED
  BY <1>1, <1>2, PTL DEF RingSpec, RingInv

----------------------------------------------------------------------------
(* Refinement *)

(* The first l places behind h in b, as the queue they stand for *)
Places(b, h, l) == [i \in 1 .. l |-> b[slot(h, i - 1)]]

LEMMA PlacesAreSeq ==
    ASSUME NEW b, NEW h, NEW l \in Nat, \A i \in 0 .. l - 1 : b[slot(h, i)] \in Items
    PROVE  /\ Places(b, h, l) \in Seq(Items)
           /\ Len(Places(b, h, l)) = l
           /\ \A i \in 1 .. l : Places(b, h, l)[i] = b[slot(h, i - 1)]
<1>1. \A i \in 1 .. l : i - 1 \in 0 .. l - 1
  OBVIOUS
<1>2. Places(b, h, l) \in [1 .. l -> Items]
  BY <1>1 DEF Places
<1>3. QED
  BY <1>2 DEF Places

LEMMA ContentsIsSeq ==
    ASSUME RingInv
    PROVE  /\ contents \in Seq(Items)
           /\ Len(contents) = len
           /\ \A i \in 1 .. len : contents[i] = buffer[slot(head, i - 1)]
<1>1. len \in Nat /\ \A i \in 0 .. len - 1 : buffer[slot(head, i)] \in Items
  BY RingAssumption DEF RingInv, RingTypeOK, RingConsistent
<1>2. contents = Places(buffer, head, len)
  BY DEF contents, Places
<1>3. QED
  BY <1>1, <1>2, PlacesAreSeq

LEMMA ContentsIsSeqPrime ==
    ASSUME RingInv'
    PROVE  /\ contents' \in Seq(Items)
           /\ Len(contents') = len'
           /\ \A i \in 1 .. len' : contents'[i] = buffer'[slot(head', i - 1)]
<1>1. len' \in Nat /\ \A i \in 0 .. len' - 1 : buffer'[slot(head', i)] \in Items
  <2>1. RingTypeOK' /\ RingConsistent'
    BY DEF RingInv
  <2>2. len' \in 0 .. N
    BY <2>1 DEF RingTypeOK
  <2>3. len' \in Nat
    BY <2>2, RingAssumption
  <2>4. QED
    BY <2>1, <2>3, Zenon DEF RingConsistent
<1>2. contents' = Places(buffer', head', len')
  BY DEF contents, Places
<1>3. QED
  BY <1>1, <1>2, PlacesAreSeq, Zenon

(* A push appends to the queue. *)
LEMMA PushRefines ==
    ASSUME RingInv, NEW item \in Items, push(item)
    PROVE  Fifo!Push(item)
<1>1. /\ contents \in Seq(Items) /\ Len(contents) = len /\ len \in Nat
      /\ \A i \in 1 .. len : contents[i] = buffer[slot(head, i - 1)]
  BY ContentsIsSeq, RingAssumption DEF RingInv, RingTypeOK
<1>2. CASE len = N
  <2>1. out' = Err /\ UNCHANGED <<buffer, head, tail, len>>
    BY <1>2 DEF push
  <2>2. contents' = contents
    BY <2>1 DEF contents
  <2>3. QED
    BY <1>1, <1>2, <2>1, <2>2 DEF Fifo!Push
<1>3. CASE len # N
  <2>1. /\ RingInv'
        /\ out' = Ok
        /\ len' = len + 1
        /\ \A i \in 0 .. len - 1 : buffer'[slot(head', i)] = buffer[slot(head, i)]
        /\ buffer'[slot(head', len)] = item
    BY <1>3, PushEffect
  <2>2. /\ contents' \in Seq(Items) /\ Len(contents') = len'
        /\ \A i \in 1 .. len' : contents'[i] = buffer'[slot(head', i - 1)]
    BY <2>1, ContentsIsSeqPrime
  <2>3. \A i \in 1 .. len : contents'[i] = contents[i]
    <3> SUFFICES ASSUME NEW i \in 1 .. len PROVE contents'[i] = contents[i]
      OBVIOUS
    <3>1. i \in 1 .. len' /\ i - 1 \in 0 .. len - 1
      BY <1>1, <2>1
    <3>2. QED
      BY <1>1, <2>1, <2>2, <3>1, Zenon
  <2>4. contents'[len + 1] = item
    <3>1. len + 1 \in 1 .. len' /\ (len + 1) - 1 = len
      BY <1>1, <2>1
    <3>2. QED
      BY <2>1, <2>2, <3>1
  <2>5. /\ Append(contents, item) \in Seq(Items)
        /\ Len(Append(contents, item)) = len + 1
        /\ \A i \in 1 .. len : Append(contents, item)[i] = contents[i]
        /\ Append(contents, item)[len + 1] = item
    BY <1>1, AppendProperties
  <2>6. \A i \in 1 .. len + 1 : contents'[i] = Append(contents, item)[i]
    <3> SUFFICES ASSUME NEW i \in 1 .. len + 1
                 PROVE  contents'[i] = Append(contents, item)[i]
      BY Zenon
    <3>1. i \in 1 .. len \/ i = len + 1
      BY <1>1
    <3>2. QED
      BY <2>3, <2>4, <2>5, <3>1
  <2>7. contents' = Append(contents, item)
    BY <2>1, <2>2, <2>5, <2>6, SeqEqual
  <2>8. QED
    BY <1>1, <1>3, <2>1, <2>7 DEF Fifo!Push
<1>4. QED
  BY <1>2, <1>3

(* A pop takes the front of the queue. *)
LEMMA PopRefines ==
    ASSUME RingInv, pop
    PROVE  Fifo!Pop
<1>1. /\ contents \in Seq(Items) /\ Len(contents) = len /\ len \in Nat
      /\ \A i \in 1 .. len : contents[i] = buffer[slot(head, i - 1)]
  BY ContentsIsSeq, RingAssumption DEF RingInv, RingTypeOK
<1>2. CASE len = 0
  <2>1. out' = None /\ UNCHANGED <<buffer, head, tail, len>>
    BY <1>2 DEF pop
  <2>2. contents' = contents
    BY <2>1 DEF contents
  <2>3. contents = << >>
    BY <1>1, <1>2, EmptySeq
  <2>4. QED
    BY <2>1, <2>2, <2>3 DEF Fifo!Pop
<1>3. CASE len # 0
  <2>1. /\ RingInv'
        /\ out' = buffer[slot(head, 0)]
        /\ len' = len - 1
        /\ \A i \in 0 .. len - 2 : buffer'[slot(head', i)] = buffer[slot(head, i + 1)]
    BY <1>3, PopEffect
  <2>2. /\ contents' \in Seq(Items) /\ Len(contents') = len'
        /\ \A i \in 1 .. len' : contents'[i] = buffer'[slot(head', i - 1)]
    BY <2>1, ContentsIsSeqPrime
  <2>3. contents # << >>
    <3>1. Len(<< >>) = 0
      OBVIOUS
    <3>2. QED
      BY <1>1, <1>3, <3>1
  <2>4. /\ Tail(contents) \in Seq(Items)
        /\ Len(Tail(contents)) = len - 1
        /\ \A i \in 1 .. len - 1 : Tail(contents)[i] = contents[i + 1]
        /\ Head(contents) = contents[1]
    BY <1>1, <2>3, HeadTailProperties
  <2>5. \A i \in 1 .. len - 1 : contents'[i] = contents[i + 1]
    <3> SUFFICES ASSUME NEW i \in 1 .. len - 1 PROVE contents'[i] = contents[i + 1]
      OBVIOUS
    <3>1. /\ i \in 1 .. len' /\ i - 1 \in 0 .. len - 2 /\ (i - 1) + 1 = i
          /\ i + 1 \in 1 .. len /\ (i + 1) - 1 = i
      BY <1>1, <2>1
    <3>2. contents'[i] = buffer'[slot(head', i - 1)]
      BY <2>2, <3>1
    <3>3. buffer'[slot(head', i - 1)] = buffer[slot(head, i)]
      BY <2>1, <3>1
    <3>4. contents[i + 1] = buffer[slot(head, i)]
      BY <1>1, <3>1
    <3>5. QED
      BY <3>2, <3>3, <3>4
  <2>6. contents' = Tail(contents)
    BY <2>1, <2>2, <2>4, <2>5, SeqEqual
  <2>7. contents[1] = buffer[slot(head, 0)]
    <3>1. 1 \in 1 .. len /\ 1 - 1 = 0
      BY <1>1, <1>3
    <3>2. QED
      BY <1>1, <3>1
  <2>8. QED
    BY <2>1, <2>3, <2>4, <2>6, <2>7 DEF Fifo!Pop
<1>4. QED
  BY <1>2, <1>3

(* The ring buffer, whose indices wrap, implements the bounded queue.      *)
THEOREM RingBufferIsFifo == RingSpec => ImplementsFifo
<1>1. RingInit => Fifo!FifoInit
  <2> SUFFICES ASSUME RingInit PROVE Fifo!FifoInit
    OBVIOUS
  <2>1. contents \in Seq(Items) /\ Len(contents) = 0
    BY InitRingInv, ContentsIsSeq DEF RingInit
  <2>2. contents = << >>
    BY <2>1, EmptySeq
  <2>3. QED
    BY <2>2 DEF Fifo!FifoInit, RingInit
<1>2. RingInv /\ [RingNext]_ringVars => [Fifo!FifoNext]_<<contents, out>>
  <2> SUFFICES ASSUME RingInv, [RingNext]_ringVars
               PROVE  [Fifo!FifoNext]_<<contents, out>>
    OBVIOUS
  <2>1. ASSUME NEW item \in Items, push(item) PROVE Fifo!FifoNext
    BY <2>1, PushRefines DEF Fifo!FifoNext
  <2>2. CASE pop
    BY <2>2, PopRefines DEF Fifo!FifoNext
  <2>3. CASE UNCHANGED ringVars
    BY <2>3 DEF ringVars, contents
  <2>4. QED
    BY <2>1, <2>2, <2>3 DEF RingNext
<1>3. RingSpec => []RingInv
  BY RingIsConsistent DEF RingInv
<1>4. QED
  BY <1>1, <1>2, <1>3, PTL DEF RingSpec, ImplementsFifo, Fifo!FifoSpec

----------------------------------------------------------------------------
(* Writing characters *)

TransmitTypeOK ==
    /\ writer \in {"init", "ready", "disable", "lock", "push", "unlock", "enable", "again"}
    /\ current_ier \subseteq {"RX", "TX"}
    /\ written \in 0 .. MaxChars
    /\ locked \in BOOLEAN
    /\ ier \subseteq {"RX", "TX"}
    /\ fifo \in Seq(Items) /\ wire \in Seq(Items)
    /\ thr_ipending \in BOOLEAN
    /\ rx \in Nat
    /\ plic \in {"idle", "pending", "claimed"}
    /\ handler \in {"none", "isr", "lock", "send", "check", "complete"}
    /\ sent \in Nat

(* putchar, from the write that turns the transmit interrupt off to the    *)
(* one that turns it on again                                              *)
Masked == {"lock", "push", "unlock", "enable"}

(* The handler fills a FIFO that was empty when it read ISR: it has room   *)
(* for every turn of the loop.                                             *)
FifoHasRoom ==
    /\ thr_ipending => fifo = << >>
    /\ handler = "lock" => sent = 0
    /\ handler \in {"lock", "send"} => Len(fifo) <= sent

(* Who holds the lock of transmit_buffer: the writer, which the transmit   *)
(* interrupt cannot have interrupted, or the handler                       *)
LockOwner ==
    /\ writer \in Masked => "TX" \notin ier
    /\ handler \in {"lock", "send", "check"} => writer \notin Masked
    /\ locked <=> writer \in {"push", "unlock"} \/ handler \in {"send", "check"}

(* What the controller knows of the UART *)
PlicInStep ==
    /\ plic = "idle" => cause = "NONE"
    /\ plic = "claimed" <=> handler # "none"

(* The transmit interrupt is on unless there is nothing to send; while it  *)
(* is on, an empty FIFO has requested it or the handler is about to send.  *)
Armed ==
    /\ writer = "init" => len = 0
    /\ len > 0 /\ writer \in {"ready", "again"} => "TX" \in ier
    /\ "TX" \in ier /\ fifo = << >> /\ ~thr_ipending =>
           \/ handler = "lock"
           \/ handler = "send" /\ sent = 0
           \/ handler = "check" /\ len = 0

TransmitInv ==
    /\ RingInv /\ TransmitTypeOK
    /\ writer \in {"disable", "lock", "push"} => written < MaxChars
    /\ OutputInOrder /\ FifoHasRoom
    /\ LockOwner /\ PlicInStep /\ Armed

----------------------------------------------------------------------------
(* Sequences *)

(* The first element of a sequence may as well be the last of the one      *)
(* before it.                                                              *)
LEMMA HandOver ==
    ASSUME NEW S, NEW s \in Seq(S), NEW t \in Seq(S), t # << >>
    PROVE  /\ Append(s, Head(t)) \o Tail(t) = s \o t
           /\ Append(s, Head(t)) \in Seq(S) /\ Tail(t) \in Seq(S)
<1>1. /\ Head(t) \in S /\ Tail(t) \in Seq(S)
      /\ Append(s, Head(t)) \in Seq(S) /\ Append(s, Head(t)) = s \o <<Head(t)>>
  BY HeadTailProperties, AppendProperties, AppendIsConcat
<1>2. <<Head(t)>> \in Seq(S)
  BY <1>1
<1>3. t = <<Head(t)>> \o Tail(t)
  <2>1. Len(t) \in Nat \ {0} /\ 1 \in 1 .. Len(t) /\ Len(t) \in 1 .. Len(t)
    BY EmptySeq
  <2>2. SubSeq(t, 1, Len(t)) = <<t[1]>> \o SubSeq(t, 2, Len(t))
    BY <2>1, SubSeqRecursiveFirst
  <2>3. SubSeq(t, 1, Len(t)) = t /\ Tail(t) = SubSeq(t, 2, Len(t)) /\ Head(t) = t[1]
    BY SubSeqFull, TailIsSubSeq
  <2>4. QED
    BY <2>2, <2>3
<1>4. (s \o <<Head(t)>>) \o Tail(t) = s \o (<<Head(t)>> \o Tail(t))
  BY <1>1, <1>2, ConcatAssociative
<1>5. QED
  BY <1>1, <1>3, <1>4

(* Concatenation under a name of its own: kept unexpanded, the provers     *)
(* treat it as they would any operator.                                    *)
Cat(s, t) == s \o t

LEMMA CatAssociative ==
    ASSUME NEW S, NEW r \in Seq(S), NEW s \in Seq(S), NEW t \in Seq(S)
    PROVE  Cat(Cat(r, s), t) = Cat(r, Cat(s, t))
BY ConcatAssociative DEF Cat

LEMMA HandOverBehind ==
    ASSUME NEW S
    PROVE  \A r \in Seq(S) : \A s \in Seq(S) : \A t \in Seq(S) :
               t # << >> => Cat(Cat(r, Append(s, Head(t))), Tail(t)) = Cat(Cat(r, s), t)
<1> SUFFICES ASSUME NEW r \in Seq(S), NEW s \in Seq(S), NEW t \in Seq(S), t # << >>
             PROVE  Cat(Cat(r, Append(s, Head(t))), Tail(t)) = Cat(Cat(r, s), t)
  BY Zenon
<1>1. /\ Append(s, Head(t)) \in Seq(S) /\ Tail(t) \in Seq(S)
      /\ Cat(Append(s, Head(t)), Tail(t)) = Cat(s, t)
  BY HandOver DEF Cat
<1>2. \A x \in Seq(S) : \A y \in Seq(S) : Cat(Cat(r, x), y) = Cat(r, Cat(x, y))
  BY CatAssociative
<1>3. Cat(Cat(r, s), t) = Cat(r, Cat(s, t))
  BY <1>2, Zenon
<1>4. Cat(Cat(r, Append(s, Head(t))), Tail(t)) = Cat(r, Cat(Append(s, Head(t)), Tail(t)))
  BY <1>1, <1>2, Zenon
<1>5. QED
  BY <1>1, <1>3, <1>4, Zenon

(* What is appended to the last part is appended to the whole. *)
LEMMA AppendToLast ==
    ASSUME NEW S, NEW s \in Seq(S), NEW t \in Seq(S), NEW e \in S
    PROVE  s \o Append(t, e) = Append(s \o t, e)
<1>1. <<e>> \in Seq(S) /\ s \o t \in Seq(S)
  BY ConcatProperties
<1>2. Append(t, e) = t \o <<e>> /\ Append(s \o t, e) = (s \o t) \o <<e>>
  BY <1>1, AppendIsConcat
<1>3. QED
  BY <1>1, <1>2, ConcatAssociative

LEMMA Counting ==
    ASSUME NEW n \in Nat
    PROVE  /\ [i \in 1 .. n |-> i] \in Seq(1 .. n + 1)
           /\ [i \in 1 .. n + 1 |-> i] = Append([i \in 1 .. n |-> i], n + 1)
<1> DEFINE s == [i \in 1 .. n |-> i]
           u == [i \in 1 .. n + 1 |-> i]
<1>1. s \in Seq(1 .. n + 1) /\ Len(s) = n /\ \A i \in 1 .. n : s[i] = i
  <2>1. s \in [1 .. n -> 1 .. n + 1]
    OBVIOUS
  <2>2. QED
    BY <2>1
<1>2. u \in Seq(1 .. n + 1) /\ Len(u) = n + 1 /\ \A i \in 1 .. n + 1 : u[i] = i
  <2>1. u \in [1 .. n + 1 -> 1 .. n + 1]
    OBVIOUS
  <2>2. QED
    BY <2>1
<1> HIDE DEF s, u
<1>3. n + 1 \in 1 .. n + 1
  OBVIOUS
<1>4. /\ Append(s, n + 1) \in Seq(1 .. n + 1) /\ Len(Append(s, n + 1)) = n + 1
      /\ \A i \in 1 .. n : Append(s, n + 1)[i] = s[i]
      /\ Append(s, n + 1)[n + 1] = n + 1
  BY <1>1, <1>3, AppendProperties
<1>5. \A i \in 1 .. n + 1 : i \in 1 .. n \/ i = n + 1
  OBVIOUS
<1>6. \A i \in 1 .. n + 1 : u[i] = Append(s, n + 1)[i]
  BY <1>1, <1>2, <1>4, <1>5
<1>7. u = Append(s, n + 1)
  BY <1>2, <1>4, <1>6, SeqEqual
<1>8. QED
  BY <1>1, <1>7 DEF s, u

----------------------------------------------------------------------------
(* The initial state and the ring buffer *)

LEMMA InitTransmitInv == TransmitInit => TransmitInv
<1> SUFFICES ASSUME TransmitInit PROVE TransmitInv
  OBVIOUS
<1>1. RingInv /\ len = 0
  BY InitRingInv DEF TransmitInit, RingInit
<1>2. TransmitTypeOK
  <2>1. fifo \in Seq(Items) /\ wire \in Seq(Items)
    BY EmptySeq DEF TransmitInit
  <2>2. locked \in BOOLEAN /\ thr_ipending \in BOOLEAN
    BY Zenon DEF TransmitInit
  <2>3. written \in 0 .. MaxChars /\ rx \in Nat /\ sent \in Nat
    BY TransmitAssumption DEF TransmitInit
  <2>4. QED
    BY <2>1, <2>2, <2>3, Zenon DEF TransmitInit, TransmitTypeOK
<1>3. OutputInOrder
  <2>1. contents \in Seq(Items) /\ Len(contents) = 0
    BY <1>1, ContentsIsSeq
  <2>2. contents = << >>
    BY <2>1, EmptySeq
  <2>3. [i \in 1 .. 0 |-> i] = << >>
    OBVIOUS
  <2>4. QED
    BY <2>2, <2>3 DEF OutputInOrder, TransmitInit
<1>4. FifoHasRoom /\ LockOwner /\ PlicInStep /\ Armed
  BY <1>1 DEF TransmitInit, FifoHasRoom, LockOwner, PlicInStep, Armed, Masked, cause
<1>5. QED
  BY <1>1, <1>2, <1>3, <1>4 DEF TransmitInv, TransmitInit

(* Characters enter the buffer in putchar_push and leave it in send_data;  *)
(* no other step touches it.                                               *)
LEMMA StepOfRing ==
    ASSUME TransmitInv, [TransmitNext]_transmitVars
    PROVE  [RingNext]_ringVars
<1>1. CASE putchar_push
  <2>1. writer = "push" /\ push(written + 1)
    BY <1>1 DEF putchar_push, goes
  <2>2. written + 1 \in Items
    BY <2>1, TransmitAssumption DEF TransmitInv, TransmitTypeOK
  <2>3. QED
    BY <2>1, <2>2 DEF RingNext
<1>2. CASE send_data
  BY <1>2 DEF send_data, RingNext
<1>3. CASE \/ init \/ write_str \/ claim \/ transmit \/ receive
           \/ putchar_lock \/ putchar_unlock
           \/ disable_transmit_interrupt \/ enable_transmit_interrupt
           \/ uart_interrupt_handler \/ send_data_lock \/ send_data_end \/ complete
  BY <1>3 DEF init, write_str, claim, transmit, receive, putchar_lock, putchar_unlock,
              disable_transmit_interrupt, enable_transmit_interrupt,
              uart_interrupt_handler, send_data_lock, send_data_end, complete
<1>4. CASE UNCHANGED transmitVars
  BY <1>4 DEF transmitVars
<1>5. QED
  BY <1>1, <1>2, <1>3, <1>4 DEF TransmitNext, putchar, handling

LEMMA RingInvKept ==
    ASSUME TransmitInv, [TransmitNext]_transmitVars
    PROVE  RingInv'
BY StepOfRing, NextRingInv DEF TransmitInv

(* What the writer's push and the handler's pop do to the queue *)
LEMMA QueuePush ==
    ASSUME TransmitInv, NEW item \in Items, push(item)
    PROVE  /\ contents \in Seq(Items) /\ len \in Nat
           /\ \/ out' = Err /\ contents' = contents /\ len' = len
              \/ out' = Ok /\ contents' = Append(contents, item) /\ len' = len + 1
<1>1. /\ contents \in Seq(Items) /\ Len(contents) = len
      /\ len \in Nat
  BY ContentsIsSeq DEF TransmitInv, RingInv, RingTypeOK
<1>2. IF Len(contents) = N
      THEN out' = Err /\ UNCHANGED contents
      ELSE out' = Ok /\ contents' = Append(contents, item)
  BY PushRefines DEF TransmitInv, Fifo!Push
<1>3. IF len = N THEN len' = len ELSE len' = len + 1
  BY DEF push
<1>4. QED
  BY <1>1, <1>2, <1>3

LEMMA QueuePop ==
    ASSUME TransmitInv, pop
    PROVE  /\ contents \in Seq(Items) /\ len \in Nat
           /\ \/ out' = None /\ contents' = contents /\ len = 0 /\ len' = 0
              \/ /\ out' # None /\ out' \in Items
                 /\ contents # << >> /\ out' = Head(contents) /\ contents' = Tail(contents)
                 /\ len > 0 /\ len' = len - 1
<1>1. /\ contents \in Seq(Items) /\ Len(contents) = len
      /\ len \in Nat
  BY ContentsIsSeq DEF TransmitInv, RingInv, RingTypeOK
<1>2. IF contents = << >>
      THEN out' = None /\ UNCHANGED contents
      ELSE out' = Head(contents) /\ contents' = Tail(contents)
  BY PopRefines DEF TransmitInv, Fifo!Pop
<1>3. IF len = 0 THEN len' = len ELSE len' = len - 1
  BY DEF pop
<1>4. contents = << >> <=> len = 0
  BY <1>1, EmptySeq
<1>5. contents # << >> => Head(contents) \in Items
  BY <1>1, HeadTailProperties
<1>6. None \notin Items
  BY RingAssumption
<1>7. QED
  BY <1>1, <1>2, <1>3, <1>4, <1>5, <1>6

----------------------------------------------------------------------------
(* One lemma for every part of the invariant, one step for every action    *)
(* that can disturb it                                                     *)

(* The steps that leave the lists of characters alone *)
QuietStep ==
    \/ init \/ write_str \/ claim \/ receive
    \/ putchar_lock \/ putchar_unlock \/ disable_transmit_interrupt \/ enable_transmit_interrupt
    \/ uart_interrupt_handler \/ send_data_lock \/ send_data_end \/ complete
    \/ UNCHANGED transmitVars

LEMMA QuietStepEffect ==
    ASSUME QuietStep
    PROVE  UNCHANGED <<buffer, head, tail, len, out, wire, fifo, written>>
<1>1. CASE init \/ write_str \/ claim \/ receive
  BY <1>1, Zenon DEF init, write_str, claim, receive, write_ier, ringVars, driver, device
<1>2. CASE \/ putchar_lock \/ putchar_unlock
           \/ disable_transmit_interrupt \/ enable_transmit_interrupt
  BY <1>2, Zenon DEF putchar_lock, putchar_unlock, disable_transmit_interrupt,
              enable_transmit_interrupt, write_ier, ringVars, device
<1>3. CASE uart_interrupt_handler \/ send_data_lock \/ send_data_end \/ complete
  BY <1>3, Zenon DEF uart_interrupt_handler, send_data_lock, send_data_end, complete,
              write_ier, ringVars, driver, device
<1>4. CASE UNCHANGED transmitVars
  BY <1>4 DEF transmitVars, ringVars, driver, device
<1>5. QED
  BY <1>1, <1>2, <1>3, <1>4 DEF QuietStep

LEMMA StepKinds ==
    ASSUME [TransmitNext]_transmitVars
    PROVE  QuietStep \/ transmit \/ putchar_push \/ send_data
BY DEF TransmitNext, QuietStep, putchar, handling

(* send_data, by what the turn of its loop finds *)
LEMMA SendDataCases ==
    ASSUME TransmitInv, send_data
    PROVE  /\ handler = "send" /\ UNCHANGED <<driver, locked, ier, receiver, plic>>
           /\ \/ /\ ~turns_left /\ handler' = "check" /\ UNCHANGED <<ringVars, device, sent>>
              \/ /\ turns_left /\ pop /\ out' = None
                 /\ handler' = "check" /\ UNCHANGED <<device, sent>>
              \/ /\ turns_left /\ pop /\ out' # None
                 /\ fifo' = Append(fifo, out') /\ thr_ipending' = FALSE
                 /\ wire' = wire /\ sent' = sent + 1 /\ handler' = "send"
<1>1. CASE turns_left /\ out' # None
  <2>1. Len(fifo) <= sent /\ sent \in Nat /\ Len(fifo) \in Nat /\ UART_FIFO_CAPACITY \in Nat
    BY TransmitAssumption, LenProperties
    DEF send_data, TransmitInv, FifoHasRoom, TransmitTypeOK
  <2>2. Len(fifo) < UART_FIFO_CAPACITY
    BY <1>1, <2>1 DEF turns_left
  <2>3. QED
    BY <1>1, <2>2 DEF send_data, write_thr
<1>2. CASE ~(turns_left /\ out' # None)
  BY <1>2 DEF send_data
<1>3. QED
  BY <1>1, <1>2, Zenon

(* The characters move on in their order. *)
LEMMA OrderKept ==
    ASSUME TransmitInv, [TransmitNext]_transmitVars
    PROVE  OutputInOrder'
<1>0. /\ contents \in Seq(Items) /\ fifo \in Seq(Items) /\ wire \in Seq(Items)
      /\ wire \o fifo \in Seq(Items)
  BY ContentsIsSeq, ConcatProperties DEF TransmitInv, TransmitTypeOK
<1>1. /\ written \in Nat
      /\ (wire \o fifo) \o contents = [i \in 1 .. written |-> i]
  BY TransmitAssumption DEF TransmitInv, TransmitTypeOK, OutputInOrder
<1>2. CASE QuietStep
  <2>1. UNCHANGED <<buffer, head, len, wire, fifo, written>>
    BY <1>2, QuietStepEffect
  <2>2. contents' = contents
    BY <2>1 DEF contents
  <2>3. QED
    BY <1>1, <2>1, <2>2 DEF OutputInOrder
<1>3. CASE transmit
  <2>1. /\ fifo # << >> /\ wire' = Append(wire, Head(fifo)) /\ fifo' = Tail(fifo)
        /\ written' = written
    BY <1>3 DEF transmit, driver
  <2>2. contents' = contents
    BY <1>3 DEF transmit, ringVars, contents
  <2>3. wire' \o fifo' = wire \o fifo
    BY <1>0, <2>1, HandOver
  <2>4. QED
    BY <1>1, <2>1, <2>2, <2>3, Zenon DEF OutputInOrder
<1>4. CASE putchar_push
  <2>1. /\ push(written + 1) /\ wire' = wire /\ fifo' = fifo /\ writer = "push"
        /\ written' = IF out' = Ok THEN written + 1 ELSE written
    BY <1>4 DEF putchar_push, goes, device
  <2>2. written + 1 \in Items
    BY <2>1, TransmitAssumption DEF TransmitInv, TransmitTypeOK
  <2>3. \/ out' = Err /\ contents' = contents
        \/ out' = Ok /\ contents' = Append(contents, written + 1)
    BY <2>1, <2>2, QueuePush
  <2>4. CASE out' = Err
    <3>1. contents' = contents /\ written' = written
      BY <2>1, <2>3, <2>4, RingAssumption
    <3>2. QED
      BY <1>1, <2>1, <3>1 DEF OutputInOrder
  <2>5. CASE out' = Ok
    <3>1. contents' = Append(contents, written + 1) /\ written' = written + 1
      BY <2>1, <2>3, <2>5, RingAssumption
    <3>3. (wire \o fifo) \o Append(contents, written + 1)
              = Append((wire \o fifo) \o contents, written + 1)
      BY <1>0, <2>2, AppendToLast
    <3>4. [i \in 1 .. written + 1 |-> i] = Append([i \in 1 .. written |-> i], written + 1)
      BY <1>1, Counting
    <3>5. QED
      BY <1>1, <2>1, <3>1, <3>3, <3>4, Zenon DEF OutputInOrder
  <2>6. QED
    BY <2>3, <2>4, <2>5
<1>5. CASE send_data
  <2>1. written' = written /\ wire' = wire
    BY <1>5, SendDataCases, Zenon DEF driver, device
  <2>2. CASE contents' = contents /\ fifo' = fifo
    BY <1>1, <2>1, <2>2 DEF OutputInOrder
  <2>3. CASE turns_left /\ pop /\ out' # None /\ fifo' = Append(fifo, out')
    <3>1. contents # << >> /\ out' = Head(contents) /\ contents' = Tail(contents)
      BY <2>3, QueuePop
    <3>2. contents # << >> /\ fifo' = Append(fifo, Head(contents)) /\ contents' = Tail(contents)
      BY <2>3, <3>1
    <3>3. \A r \in Seq(Items) : \A s \in Seq(Items) : \A t \in Seq(Items) :
              t # << >> => Cat(Cat(r, Append(s, Head(t))), Tail(t)) = Cat(Cat(r, s), t)
      BY HandOverBehind
    <3>4. Cat(Cat(wire, fifo'), contents') = Cat(Cat(wire, fifo), contents)
      BY <1>0, <3>2, <3>3, Zenon
    <3>5. Cat(Cat(wire', fifo'), contents') = Cat(Cat(wire, fifo), contents)
      BY <2>1, <3>4
    <3>6. QED
      BY <1>1, <2>1, <3>5 DEF OutputInOrder, Cat
  <2>4. CASE UNCHANGED <<ringVars, device>>
    <3>1. contents' = contents /\ fifo' = fifo
      BY <2>4 DEF ringVars, device, contents
    <3>2. QED
      BY <2>2, <3>1
  <2>5. CASE pop /\ out' = None /\ UNCHANGED device
    <3>1. contents' = contents /\ fifo' = fifo
      BY <2>5, QueuePop DEF device
    <3>2. QED
      BY <2>2, <3>1
  <2>6. QED
    BY <1>5, <2>3, <2>4, <2>5, SendDataCases, Zenon
<1>6. QED
  BY <1>2, <1>3, <1>4, <1>5, StepKinds

LEMMA TypeKept ==
    ASSUME TransmitInv, [TransmitNext]_transmitVars
    PROVE  TransmitTypeOK'
<1>1. fifo' \in Seq(Items) /\ wire' \in Seq(Items)
  <2>1. fifo \in Seq(Items) /\ wire \in Seq(Items)
    BY DEF TransmitInv, TransmitTypeOK
  <2>2. CASE QuietStep
    BY <2>1, <2>2, QuietStepEffect
  <2>3. CASE transmit
    BY <2>1, <2>3, HandOver DEF transmit
  <2>4. CASE putchar_push
    BY <2>1, <2>4 DEF putchar_push, device
  <2>5. CASE send_data
    <3>1. CASE UNCHANGED device
      BY <2>1, <3>1 DEF device
    <3>2. CASE pop /\ out' # None /\ fifo' = Append(fifo, out') /\ wire' = wire
      <4>1. out' \in Items
        BY <3>2, QueuePop
      <4>2. QED
        BY <2>1, <3>2, <4>1, AppendProperties
    <3>3. QED
      BY <2>5, <3>1, <3>2, SendDataCases, Zenon
  <2>6. QED
    BY <2>2, <2>3, <2>4, <2>5, StepKinds
<1>2. written' \in 0 .. MaxChars
  <2>1. written \in 0 .. MaxChars /\ MaxChars \in Nat
    BY TransmitAssumption DEF TransmitInv, TransmitTypeOK
  <2>2. CASE QuietStep
    BY <2>1, <2>2, QuietStepEffect
  <2>3. CASE transmit \/ send_data
    BY <2>1, <2>3 DEF transmit, send_data, driver
  <2>4. CASE putchar_push
    <3>1. written < MaxChars
      BY <2>4 DEF putchar_push, goes, TransmitInv
    <3>2. QED
      BY <2>1, <2>4, <3>1 DEF putchar_push
  <2>5. QED
    BY <2>2, <2>3, <2>4, StepKinds
<1>3. /\ writer' \in {"init", "ready", "disable", "lock", "push", "unlock", "enable", "again"}
      /\ handler' \in {"none", "isr", "lock", "send", "check", "complete"}
      /\ plic' \in {"idle", "pending", "claimed"}
  <2>1. writer' \in {"init", "ready", "disable", "lock", "push", "unlock", "enable", "again"}
    BY ZenonT(30) DEF TransmitInv, TransmitTypeOK, TransmitNext, transmitVars, driver, service,
           init, write_str, claim, transmit, receive, putchar, putchar_lock, putchar_push,
           putchar_unlock, disable_transmit_interrupt, enable_transmit_interrupt, goes,
           handling, uart_interrupt_handler, send_data_lock, send_data, send_data_end,
           complete, latch
  <2>2. handler' \in {"none", "isr", "lock", "send", "check", "complete"}
    BY ZenonT(30) DEF TransmitInv, TransmitTypeOK, TransmitNext, transmitVars, driver, service,
           init, write_str, claim, transmit, receive, putchar, putchar_lock, putchar_push,
           putchar_unlock, disable_transmit_interrupt, enable_transmit_interrupt, goes,
           handling, uart_interrupt_handler, send_data_lock, send_data, send_data_end,
           complete, latch
  <2>3. plic' \in {"idle", "pending", "claimed"}
    BY ZenonT(30) DEF TransmitInv, TransmitTypeOK, TransmitNext, transmitVars, driver, service,
           init, write_str, claim, transmit, receive, putchar, putchar_lock, putchar_push,
           putchar_unlock, disable_transmit_interrupt, enable_transmit_interrupt, goes,
           handling, uart_interrupt_handler, send_data_lock, send_data, send_data_end,
           complete, latch
  <2>4. QED
    BY <2>1, <2>2, <2>3
<1>4. current_ier' \subseteq {"RX", "TX"} /\ ier' \subseteq {"RX", "TX"}
  BY ZenonT(30) DEF TransmitInv, TransmitTypeOK, TransmitNext, transmitVars, driver, write_ier,
         init, write_str, claim, transmit, receive, putchar, putchar_lock, putchar_push,
         putchar_unlock, disable_transmit_interrupt, enable_transmit_interrupt,
         handling, uart_interrupt_handler, send_data_lock, send_data, send_data_end,
         complete
<1>5. locked' \in BOOLEAN
  BY Zenon DEF TransmitInv, TransmitTypeOK, TransmitNext, transmitVars,
         init, write_str, claim, transmit, receive, putchar, putchar_lock, putchar_push,
         putchar_unlock, disable_transmit_interrupt, enable_transmit_interrupt,
         handling, uart_interrupt_handler, send_data_lock, send_data, send_data_end,
         complete
<1>6. thr_ipending' \in BOOLEAN
  BY Zenon DEF TransmitInv, TransmitTypeOK, TransmitNext, transmitVars, device, write_ier, write_thr,
         init, write_str, claim, transmit, receive, putchar, putchar_lock, putchar_push,
         putchar_unlock, disable_transmit_interrupt, enable_transmit_interrupt,
         handling, uart_interrupt_handler, send_data_lock, send_data, send_data_end,
         complete
<1>7. rx' \in Nat /\ sent' \in Nat
  <2>1. rx \in Nat /\ sent \in Nat
    BY DEF TransmitInv, TransmitTypeOK
  <2>2. CASE receive
    BY <2>1, <2>2 DEF receive, service
  <2>3. CASE uart_interrupt_handler
    BY <2>1, <2>3 DEF uart_interrupt_handler, cause
  <2>4. CASE send_data
    BY <2>1, <2>4 DEF send_data, receiver
  <2>5. CASE init \/ write_str \/ claim \/ transmit \/ putchar
    BY <2>1, <2>5 DEF init, write_str, claim, transmit, putchar, putchar_lock, putchar_push,
                      putchar_unlock, disable_transmit_interrupt, enable_transmit_interrupt,
                      goes, receiver, service
  <2>6. CASE send_data_lock \/ send_data_end \/ complete \/ UNCHANGED transmitVars
    BY <2>1, <2>6 DEF send_data_lock, send_data_end, complete, transmitVars, receiver, service
  <2>7. QED
    BY <2>2, <2>3, <2>4, <2>5, <2>6 DEF TransmitNext, handling
<1>8. QED
  BY <1>1, <1>2, <1>3, <1>4, <1>5, <1>6, <1>7, Zenon DEF TransmitTypeOK

LEMMA RoomToWriteKept ==
    ASSUME TransmitInv, [TransmitNext]_transmitVars
    PROVE  writer' \in {"disable", "lock", "push"} => written' < MaxChars
BY Zenon DEF TransmitInv, TransmitNext, transmitVars, driver,
       init, write_str, claim, transmit, receive, putchar, putchar_lock, putchar_push,
       putchar_unlock, disable_transmit_interrupt, enable_transmit_interrupt, goes,
       handling, uart_interrupt_handler, send_data_lock, send_data, send_data_end,
       complete

LEMMA LockOwnerKept ==
    ASSUME TransmitInv, [TransmitNext]_transmitVars
    PROVE  LockOwner'
<1>1. LockOwner /\ TransmitTypeOK
  BY DEF TransmitInv
<1>2. CASE init \/ write_str
  BY <1>1, <1>2 DEF LockOwner, Masked, init, write_str, goes, service
<1>3. CASE putchar_push \/ putchar_unlock \/ enable_transmit_interrupt
  BY <1>1, <1>3 DEF LockOwner, Masked, putchar_push, putchar_unlock,
                    enable_transmit_interrupt, goes, service
<1>4. CASE putchar_lock
  BY <1>1, <1>4 DEF LockOwner, Masked, putchar_lock, goes, service
<1>5. CASE disable_transmit_interrupt
  BY <1>1, <1>5 DEF LockOwner, Masked, disable_transmit_interrupt, write_ier, goes, service
<1>6. CASE transmit \/ receive \/ claim
  BY <1>1, <1>6 DEF LockOwner, Masked, transmit, receive, claim, driver, service
<1>7. CASE uart_interrupt_handler
  BY <1>1, <1>7 DEF LockOwner, Masked, uart_interrupt_handler, cause, driver
<1>8. CASE send_data_lock \/ send_data
  <2>1. CASE send_data_lock
    BY <1>1, <2>1 DEF LockOwner, Masked, send_data_lock, driver
  <2>2. CASE send_data
    <3>1. /\ handler = "send" /\ handler' \in {"send", "check"}
          /\ UNCHANGED <<writer, locked, ier>>
      BY <2>2, SendDataCases, Zenon DEF driver
    <3>2. QED
      BY <1>1, <3>1 DEF LockOwner
  <2>3. QED
    BY <1>8, <2>1, <2>2
<1>9. CASE send_data_end \/ complete
  <2>1. CASE send_data_end
    <3>1. /\ handler = "check" /\ handler' = "complete" /\ writer' = writer /\ locked' = FALSE
          /\ "TX" \notin ier => "TX" \notin ier'
      BY <2>1, Zenon DEF send_data_end, write_ier, driver
    <3>2. QED
      BY <1>1, <3>1 DEF LockOwner, Masked
  <2>2. CASE complete
    BY <1>1, <2>2 DEF LockOwner, complete, driver
  <2>3. QED
    BY <1>9, <2>1, <2>2
<1>10. CASE UNCHANGED transmitVars
  BY <1>1, <1>10 DEF LockOwner, transmitVars, driver, service
<1>11. QED
  BY <1>2, <1>3, <1>4, <1>5, <1>6, <1>7, <1>8, <1>9, <1>10
  DEF TransmitNext, putchar, handling

LEMMA FifoHasRoomKept ==
    ASSUME TransmitInv, [TransmitNext]_transmitVars
    PROVE  FifoHasRoom'
<1>1. /\ thr_ipending \in BOOLEAN /\ sent \in Nat
      /\ fifo \in Seq(Items) /\ Len(fifo) \in Nat
      /\ FifoHasRoom
  BY LenProperties DEF TransmitInv, TransmitTypeOK
<1>2. CASE UNCHANGED <<fifo, thr_ipending, handler, sent>>
  BY <1>1, <1>2 DEF FifoHasRoom
<1>3. CASE init \/ disable_transmit_interrupt \/ enable_transmit_interrupt \/ send_data_end
  BY <1>1, <1>3, Zenon DEF FifoHasRoom, init, disable_transmit_interrupt,
                    enable_transmit_interrupt, send_data_end, write_ier, device, goes, service
<1>4. CASE transmit
  <2>1. /\ fifo # << >> /\ fifo' = Tail(fifo) /\ thr_ipending' = (thr_ipending \/ Len(fifo) = 1)
        /\ handler' = handler /\ sent' = sent
    BY <1>4 DEF transmit, service
  <2>2. Len(fifo') = Len(fifo) - 1 /\ fifo' \in Seq(Items)
    BY <1>1, <2>1, HeadTailProperties
  <2>3. Len(fifo) = 1 => fifo' = << >>
    BY <2>2, EmptySeq
  <2>4. ~thr_ipending
    BY <1>1, <2>1 DEF FifoHasRoom
  <2>5. QED
    BY <1>1, <2>1, <2>2, <2>3, <2>4 DEF FifoHasRoom
<1>5. CASE claim \/ complete
  BY <1>1, <1>5 DEF FifoHasRoom, claim, complete, device
<1>6. CASE uart_interrupt_handler
  <2>1. /\ fifo' = fifo /\ sent' = 0
        /\ handler' = IF cause = "TX_EMPTY" THEN "lock" ELSE "complete"
        /\ thr_ipending' = (thr_ipending /\ cause # "TX_EMPTY")
    BY <1>6 DEF uart_interrupt_handler
  <2>2. cause = "TX_EMPTY" => thr_ipending
    BY DEF cause
  <2>3. Len(<< >>) = 0
    BY EmptySeq
  <2>4. QED
    BY <1>1, <2>1, <2>2, <2>3 DEF FifoHasRoom
<1>7. CASE send_data_lock
  BY <1>1, <1>7 DEF FifoHasRoom, send_data_lock, device
<1>8. CASE send_data
  <2>1. handler = "send"
    BY <1>8 DEF send_data
  <2>2. CASE handler' = "check" /\ UNCHANGED <<device, sent>>
    BY <1>1, <2>2 DEF FifoHasRoom, device
  <2>3. CASE /\ pop /\ out' # None /\ fifo' = Append(fifo, out') /\ thr_ipending' = FALSE
             /\ sent' = sent + 1 /\ handler' = "send"
    <3>1. out' \in Items
      BY <2>3, QueuePop
    <3>2. Len(fifo') = Len(fifo) + 1
      BY <1>1, <2>3, <3>1, AppendProperties
    <3>3. QED
      BY <1>1, <2>1, <2>3, <3>2 DEF FifoHasRoom
  <2>4. QED
    BY <1>8, <2>2, <2>3, SendDataCases, Zenon
<1>9. CASE \/ write_str \/ receive \/ putchar_lock \/ putchar_push \/ putchar_unlock
           \/ UNCHANGED transmitVars
  BY <1>2, <1>9 DEF write_str, receive, putchar_lock, putchar_push, putchar_unlock, transmitVars,
                    device, goes, service
<1>10. QED
  BY <1>3, <1>4, <1>5, <1>6, <1>7, <1>8, <1>9 DEF TransmitNext, putchar, handling

LEMMA PlicInStepKept ==
    ASSUME TransmitInv, [TransmitNext]_transmitVars
    PROVE  PlicInStep'
<1>1. PlicInStep /\ plic \in {"idle", "pending", "claimed"}
  BY DEF TransmitInv, TransmitTypeOK
<1>2. ASSUME latch(plic), handler' = handler PROVE PlicInStep'
  BY <1>1, <1>2 DEF latch, PlicInStep
<1>3. CASE \/ init \/ write_str \/ putchar_lock \/ putchar_push \/ putchar_unlock
           \/ disable_transmit_interrupt \/ enable_transmit_interrupt
           \/ transmit \/ receive
  BY <1>2, <1>3, Zenon DEF init, write_str, putchar_lock, putchar_push, putchar_unlock,
                    disable_transmit_interrupt, enable_transmit_interrupt, transmit, receive,
                    goes, service
<1>4. CASE claim
  BY <1>4 DEF claim, PlicInStep
<1>5. CASE uart_interrupt_handler \/ send_data_lock \/ send_data \/ send_data_end
  <2>1. handler # "none" /\ handler' # "none" /\ plic' = plic
    BY <1>5 DEF uart_interrupt_handler, send_data_lock, send_data, send_data_end
  <2>2. QED
    BY <1>1, <2>1 DEF PlicInStep
<1>6. CASE complete
  BY <1>6 DEF complete, latch, PlicInStep
<1>7. CASE UNCHANGED transmitVars
  BY <1>1, <1>7 DEF transmitVars, service, device, receiver, PlicInStep, cause
<1>8. QED
  BY <1>3, <1>4, <1>5, <1>6, <1>7 DEF TransmitNext, putchar, handling

LEMMA ArmedKept ==
    ASSUME TransmitInv, [TransmitNext]_transmitVars
    PROVE  Armed'
<1>1. /\ thr_ipending \in BOOLEAN /\ sent \in Nat /\ len \in Nat
      /\ Armed /\ UART_FIFO_CAPACITY \in Nat \ {0}
      /\ fifo \in Seq(Items)
  BY TransmitAssumption, RingAssumption
  DEF TransmitInv, TransmitTypeOK, RingInv, RingTypeOK
<1>2. CASE init
  BY <1>1, <1>2 DEF Armed, init, write_ier, goes, ringVars
<1>3. CASE write_str \/ putchar_lock \/ putchar_unlock
  BY <1>1, <1>3 DEF Armed, write_str, putchar_lock, putchar_unlock, goes, ringVars, device, service
<1>4. CASE disable_transmit_interrupt \/ enable_transmit_interrupt
  BY <1>1, <1>4, Zenon DEF Armed, disable_transmit_interrupt, enable_transmit_interrupt,
                    write_ier, goes, ringVars, service
<1>5. CASE putchar_push
  <2>1. writer = "push" /\ writer' = "unlock" /\ handler = "none" /\ UNCHANGED <<ier, device>>
    BY <1>5 DEF putchar_push, goes
  <2>2. QED
    BY <1>1, <2>1 DEF Armed, device
<1>6. CASE transmit
  <2>1. /\ fifo # << >> /\ fifo' = Tail(fifo) /\ thr_ipending' = (thr_ipending \/ Len(fifo) = 1)
        /\ UNCHANGED <<len, writer, ier, handler, sent>>
    BY <1>6 DEF transmit, ringVars, driver, service
  <2>2. Len(fifo') = Len(fifo) - 1 /\ Len(<< >>) = 0 /\ Len(fifo) \in Nat
    BY <1>1, <2>1, HeadTailProperties, EmptySeq, LenProperties
  <2>3. fifo' = << >> => Len(fifo) = 1
    BY <2>2
  <2>4. QED
    BY <1>1, <2>1, <2>3, Zenon DEF Armed
<1>7. CASE receive \/ claim \/ complete \/ UNCHANGED transmitVars
  BY <1>1, <1>7 DEF Armed, receive, claim, complete, transmitVars, ringVars, driver, device, service
<1>8. CASE uart_interrupt_handler
  BY <1>1, <1>8 DEF Armed, uart_interrupt_handler, ringVars, driver, cause
<1>9. CASE send_data_lock
  <2>1. handler = "lock" => sent = 0
    BY DEF TransmitInv, FifoHasRoom
  <2>2. QED
    BY <1>1, <1>9, <2>1 DEF Armed, send_data_lock, ringVars, driver, device
<1>10. CASE send_data
  <2>1. handler = "send" /\ UNCHANGED <<writer, ier>>
    BY <1>10, SendDataCases DEF driver
  <2>2. CASE ~turns_left /\ handler' = "check" /\ UNCHANGED <<ringVars, device, sent>>
    BY <1>1, <2>1, <2>2 DEF Armed, turns_left, ringVars, device
  <2>3. CASE pop /\ out' = None /\ handler' = "check" /\ UNCHANGED <<device, sent>>
    <3>1. len = 0 /\ len' = 0
      BY <2>3, QueuePop, RingAssumption
    <3>2. QED
      BY <1>1, <2>1, <2>3, <3>1 DEF Armed, device
  <2>4. CASE pop /\ out' # None /\ fifo' = Append(fifo, out')
    <3>1. out' \in Items /\ len > 0 /\ len' = len - 1
      BY <2>4, QueuePop
    <3>2. fifo' # << >>
      BY <1>1, <2>4, <3>1, AppendProperties
    <3>3. QED
      BY <1>1, <2>1, <3>1, <3>2 DEF Armed
  <2>5. QED
    BY <1>10, <2>2, <2>3, <2>4, SendDataCases, Zenon
<1>11. CASE send_data_end
  <2>1. handler = "check" /\ handler' = "complete" /\ len' = len /\ writer' = writer
    BY <1>11 DEF send_data_end, ringVars, driver
  <2>2. CASE len = 0
    <3>1. "TX" \notin ier'
      BY <1>11, <2>2 DEF send_data_end, write_ier
    <3>2. QED
      BY <1>1, <2>1, <2>2, <3>1 DEF Armed
  <2>3. CASE len # 0
    <3>1. ier' = ier /\ fifo' = fifo /\ thr_ipending' = thr_ipending
      BY <1>11, <2>3 DEF send_data_end, device
    <3>2. QED
      BY <1>1, <2>1, <2>3, <3>1 DEF Armed
  <2>4. QED
    BY <2>2, <2>3
<1>12. QED
  BY <1>2, <1>3, <1>4, <1>5, <1>6, <1>7, <1>8, <1>9, <1>10, <1>11
  DEF TransmitNext, putchar, handling

LEMMA NextTransmitInv == TransmitInv /\ [TransmitNext]_transmitVars => TransmitInv'
<1> SUFFICES ASSUME TransmitInv, [TransmitNext]_transmitVars PROVE TransmitInv'
  OBVIOUS
<1>1. RingInv' /\ TransmitTypeOK' /\ OutputInOrder' /\ FifoHasRoom'
  BY RingInvKept, TypeKept, OrderKept, FifoHasRoomKept
<1>2. LockOwner' /\ PlicInStep' /\ Armed'
  BY LockOwnerKept, PlicInStepKept, ArmedKept
<1>3. writer' \in {"disable", "lock", "push"} => written' < MaxChars
  BY RoomToWriteKept
<1>4. QED
  BY <1>1, <1>2, <1>3 DEF TransmitInv

(* The parts of the invariant hold together through every interleaving of  *)
(* putchar, plic_handler and the UART.                                     *)
THEOREM TransmitInvariant == TransmitSpec => []TransmitInv
<1>1. QED
  BY InitTransmitInv, NextTransmitInv, PTL DEF TransmitSpec

----------------------------------------------------------------------------
(* What follows from the invariant *)

(* putchar, send_data and the UART pass every character on exactly once    *)
(* and in order, whatever the capacities; the FIFO is never overrun.       *)
THEOREM OutputStaysInOrder == TransmitSpec => []OutputInOrder
<1>1. TransmitInv => OutputInOrder
  BY DEF TransmitInv
<1>2. QED
  BY <1>1, TransmitInvariant, PTL

(* No lost wakeup: enable_transmit_interrupt and send_data_end leave the   *)
(* transmit interrupt on and coming as long as the buffer is not empty.    *)
THEOREM TransmitterStaysArmed == TransmitSpec => []TransmitterArmed
<1>1. TransmitInv => TransmitterArmed
  <2> SUFFICES ASSUME TransmitInv, len > 0, writer \in {"ready", "again"}, handler = "none"
               PROVE  "TX" \in ier /\ (plic = "pending" \/ fifo # << >>)
    BY DEF TransmitterArmed
  <2>1. "TX" \in ier
    BY DEF TransmitInv, Armed
  <2>2. CASE fifo = << >>
    <3>1. thr_ipending
      BY <2>1, <2>2 DEF TransmitInv, Armed
    <3>2. cause # "NONE"
      BY <2>1, <3>1 DEF cause
    <3>3. plic \in {"idle", "pending", "claimed"} /\ plic # "idle" /\ plic # "claimed"
      BY <3>2 DEF TransmitInv, TransmitTypeOK, PlicInStep
    <3>4. QED
      BY <2>1, <3>3
  <2>3. QED
    BY <2>1, <2>2
<1>2. QED
  BY <1>1, TransmitInvariant, PTL

(* The handler never spins in send_data_lock: putchar holds the lock only  *)
(* while the transmit interrupt is off, so the code it has interrupted     *)
(* does not hold it.                                                       *)
HandlerFindsLockFree == handler = "lock" => ~locked

THEOREM HandlerNeverSpins == TransmitSpec => []HandlerFindsLockFree
<1>1. TransmitInv => HandlerFindsLockFree
  BY DEF TransmitInv, LockOwner, Masked, HandlerFindsLockFree
<1>2. QED
  BY <1>1, TransmitInvariant, PTL

(* Between a writer and a handler that come at any moment, the transmit    *)
(* buffer is still a ring buffer, and so the queue of BoundedFifo.         *)
THEOREM TransmitBufferIsRing == TransmitSpec => RingSpec
<1>1. TransmitInit => RingInit
  BY DEF TransmitInit
<1>2. TransmitInv /\ [TransmitNext]_transmitVars => [RingNext]_ringVars
  BY StepOfRing
<1>3. QED
  BY <1>1, <1>2, TransmitInvariant, PTL DEF TransmitSpec, RingSpec

(* The queue that RingBuffer's push and pop implement, and their indices,  *)
(* hold up in the transmit buffer.                                         *)
THEOREM TransmitBufferIsFifo == TransmitSpec => ImplementsFifo /\ []RingConsistent
<1>1. QED
  BY TransmitBufferIsRing, RingBufferIsFifo, RingIsConsistent, PTL
=============================================================================
