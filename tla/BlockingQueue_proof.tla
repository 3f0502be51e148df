------------------------- MODULE BlockingQueue_proof -------------------------
(***************************************************************************)
(* Lemmas about the ring of RingBuffer: the arithmetic of its indices, and *)
(* what each operation does to the sequence of its contents.  Then the     *)
(* theorems about BlockingQueue.  All hold for every capacity and every    *)
(* set of items.                                                           *)
(***************************************************************************)
EXTENDS BlockingQueue, TLAPS

------------------------------------------------------------------------------
(* Arithmetic of the indices.                                               *)

\* An index below the modulus is its own remainder.
LEMMA ModSmall ==
    ASSUME NEW n \in Nat \ {0}, NEW i \in 0..(n - 1)
    PROVE  i % n = i
OBVIOUS

\* An index one turn too far is brought back by one turn.
LEMMA ModWrap ==
    ASSUME NEW n \in Nat \ {0}, NEW i \in n..(2 * n - 1)
    PROVE  i % n = i - n
OBVIOUS

\* The slot idx places after the slot s, for every idx that at() accepts.
LEMMA NthValue ==
    ASSUME NEW s \in Slot, NEW idx \in Slot
    PROVE  /\ Nth(s, idx) \in Slot
           /\ s + idx <= Capacity => Nth(s, idx) = s + idx
           /\ s + idx > Capacity => Nth(s, idx) = s + idx - Capacity - 1
<1>1. CASE s + idx <= Capacity
  BY <1>1, ModSmall, RingAssumption DEF Nth, Slot, MaxItems
<1>2. CASE s + idx > Capacity
  BY <1>2, ModWrap, RingAssumption DEF Nth, Slot, MaxItems
<1>3. QED
  BY <1>1, <1>2, RingAssumption DEF Slot

\* The slot after s.
LEMMA AfterValue ==
    ASSUME NEW s \in Slot
    PROVE  /\ After(s) \in Slot
           /\ After(s) = IF s = Capacity THEN 0 ELSE s + 1
<1>1. 1 \in Slot
  BY RingAssumption DEF Slot
<1>2. QED
  BY <1>1, NthValue, RingAssumption DEF After, Slot

\* A ring counts at most _capacity items; it counts none exactly when empty()
\* and _capacity exactly when full().
LEMMA SizeType ==
    ASSUME NEW q \in Ring
    PROVE  /\ Size(q) \in 0..Capacity
           /\ Size(q) = 0 <=> Empty(q)
           /\ Size(q) = Capacity <=> Full(q)
<1>1. q.head \in Slot /\ q.tail \in Slot
  BY DEF Ring
<1>2. QED
  BY <1>1, AfterValue, RingAssumption DEF Size, Empty, Full, Slot, MaxItems

\* The contents of a ring and what at() reads from it are the same thing.
LEMMA ContentsAt ==
    ASSUME NEW q \in Ring
    PROVE  /\ Len(Contents(q)) = Size(q)
           /\ Contents(q) \in Seq(Item \cup {Vacant})
           /\ \A idx \in Slot : idx < Size(q) => Contents(q)[idx + 1] = At(q, idx)
<1>1. \A k \in 1..Size(q) : At(q, k - 1) \in Item \cup {Vacant}
  <2> TAKE k \in 1..Size(q)
  <2>1. k - 1 \in Slot /\ q.head \in Slot
    BY SizeType, RingAssumption DEF Slot, Ring
  <2>2. Nth(q.head, k - 1) \in Slot
    BY <2>1, NthValue
  <2>3. QED
    BY <2>2 DEF At, Ring
<1>2. Size(q) \in Nat
  BY SizeType, RingAssumption
<1>3. Contents(q) \in Seq(Item \cup {Vacant}) /\ Len(Contents(q)) = Size(q)
  BY <1>1, <1>2 DEF Contents
<1>4. QED
  BY <1>2, <1>3, RingAssumption DEF Contents, Slot

------------------------------------------------------------------------------
(* What each operation on a ring does to its contents.                      *)

\* enqueue on a ring with space appends.
LEMMA PutAppends ==
    ASSUME NEW q \in Ring, NEW x \in Item, ~ Full(q)
    PROVE  /\ Put(q, x) \in Ring
           /\ Contents(Put(q, x)) = Append(Contents(q), x)
<1> DEFINE p == Put(q, x)
<1>1. /\ p \in Ring
      /\ q.head \in Slot /\ q.tail \in Slot
      /\ p.head = q.head /\ p.tail = After(q.tail)
      /\ \A s \in Slot : p.items[s] = IF s = q.tail THEN x ELSE q.items[s]
  BY AfterValue DEF Ring, Put
<1> HIDE DEF p
<1>2. Size(p) = Size(q) + 1 /\ Size(q) \in Nat
  BY <1>1, AfterValue, SizeType, RingAssumption DEF Size, Full, Slot, MaxItems
<1>3. ASSUME NEW idx \in 0..Size(q)
      PROVE  At(p, idx) = IF idx = Size(q) THEN x ELSE At(q, idx)
  <2>1. idx \in Slot
    BY <1>3, SizeType, RingAssumption DEF Slot
  <2>2. /\ Nth(q.head, idx) \in Slot
        /\ q.head + idx <= Capacity => Nth(q.head, idx) = q.head + idx
        /\ q.head + idx > Capacity => Nth(q.head, idx) = q.head + idx - Capacity - 1
    BY <1>1, <2>1, NthValue
  <2>3. Nth(q.head, idx) = q.tail <=> idx = Size(q)
    BY <1>1, <1>3, <2>1, <2>2, SizeType, RingAssumption DEF Size, Slot, MaxItems
  <2>4. QED
    BY <1>1, <2>2, <2>3 DEF At
<1>4. Contents(p) = Append(Contents(q), x)
  BY <1>1, <1>2, <1>3, ContentsAt DEF Contents
<1>5. QED
  BY <1>1, <1>4 DEF p

\* dequeue on a ring with items removes the oldest.
LEMMA TakeRemovesHead ==
    ASSUME NEW q \in Ring, ~ Empty(q), NEW p \in {Take(q), Drop(q)}
    PROVE  /\ p \in Ring
           /\ q.items[q.head] = Head(Contents(q))
           /\ Contents(q) # <<>>
           /\ Contents(p) = Tail(Contents(q))
<1>1. /\ p \in Ring
      /\ q.head \in Slot /\ q.tail \in Slot
      /\ p.head = After(q.head) /\ p.tail = q.tail
      /\ \A s \in Slot : s # q.head => p.items[s] = q.items[s]
  <2>1. q.head \in Slot /\ q.tail \in Slot
    BY DEF Ring
  <2>2. After(q.head) \in Slot
    BY <2>1, AfterValue
  <2>3. CASE p = Take(q)
    BY <2>1, <2>2, <2>3 DEF Ring, Take
  <2>4. CASE p = Drop(q)
    BY <2>1, <2>2, <2>4 DEF Ring, Drop
  <2>5. QED
    BY <2>3, <2>4
<1>2. Size(q) = Size(p) + 1 /\ Size(p) \in Nat
  BY <1>1, AfterValue, SizeType, RingAssumption DEF Size, Empty, Slot, MaxItems
<1>3. ASSUME NEW idx \in Nat, idx < Size(p)
      PROVE  At(p, idx) = At(q, idx + 1)
  <2>1. idx + 1 \in Slot /\ idx \in Slot
    BY <1>1, <1>2, <1>3, SizeType, RingAssumption DEF Slot
  <2>2. /\ Nth(q.head, idx + 1) \in Slot
        /\ q.head + (idx + 1) <= Capacity => Nth(q.head, idx + 1) = q.head + (idx + 1)
        /\ q.head + (idx + 1) > Capacity => Nth(q.head, idx + 1) = q.head + (idx + 1) - Capacity - 1
    BY <1>1, <2>1, NthValue
  <2>3. /\ p.head \in Slot
        /\ p.head = IF q.head = Capacity THEN 0 ELSE q.head + 1
    BY <1>1, AfterValue
  <2>4. /\ Nth(p.head, idx) \in Slot
        /\ p.head + idx <= Capacity => Nth(p.head, idx) = p.head + idx
        /\ p.head + idx > Capacity => Nth(p.head, idx) = p.head + idx - Capacity - 1
    BY <2>1, <2>3, NthValue
  <2>5. Nth(p.head, idx) = Nth(q.head, idx + 1) /\ Nth(q.head, idx + 1) # q.head
    BY <1>1, <2>1, <2>2, <2>3, <2>4, RingAssumption DEF Slot
  <2>6. QED
    BY <1>1, <2>2, <2>5 DEF At
<1>4. q.items[q.head] = At(q, 0)
  <2>1. 0 \in Slot
    BY RingAssumption DEF Slot
  <2>2. q.head + 0 <= Capacity => Nth(q.head, 0) = q.head + 0
    BY <1>1, <2>1, NthValue
  <2>3. Nth(q.head, 0) = q.head
    BY <1>1, <2>2, RingAssumption DEF Slot
  <2>4. QED
    BY <2>3 DEF At
<1>5. Contents(q) # <<>> /\ Contents(q)[1] = At(q, 0)
  BY <1>1, <1>2, ContentsAt DEF Contents
<1>6. Contents(p) = Tail(Contents(q))
  BY <1>1, <1>2, <1>3, ContentsAt DEF Contents
<1>7. QED
  BY <1>1, <1>4, <1>5, <1>6

\* enqueue_overrun on a full ring loses exactly the oldest item.
LEMMA PutOverrunContents ==
    ASSUME NEW q \in Ring, NEW x \in Item
    PROVE  /\ PutOverrun(q, x) \in Ring
           /\ ~ Full(q) => PutOverrun(q, x) = Put(q, x)
           /\ Full(q) => /\ Contents(q) # <<>>
                         /\ Contents(PutOverrun(q, x)) = Append(Tail(Contents(q)), x)
                         /\ PutOverrun(q, x).overrun = q.overrun + 1
<1>1. CASE ~ Full(q)
  <2>1. Put(q, x).head # Put(q, x).tail
    BY <1>1 DEF Put, Full, Ring
  <2>2. PutOverrun(q, x) = Put(q, x)
    BY <2>1 DEF PutOverrun
  <2>3. QED
    BY <1>1, <2>2, PutAppends
<1>2. CASE Full(q)
  <2> DEFINE r == Drop(q)
             p == PutOverrun(q, x)
  <2>1. ~ Empty(q) /\ After(q.tail) = q.head
    BY <1>2, SizeType, RingAssumption DEF Full
  <2>2. r \in Ring /\ Contents(q) # <<>> /\ Contents(r) = Tail(Contents(q))
    BY <2>1, TakeRemovesHead
  <2>3. ~ Full(r)
    BY <2>1, AfterValue, RingAssumption DEF Full, Drop, Ring, Slot
  <2>4. Contents(Put(r, x)) = Append(Tail(Contents(q)), x) /\ Put(r, x) \in Ring
    BY <2>2, <2>3, PutAppends
  <2>5. p = [Put(r, x) EXCEPT !.overrun = q.overrun + 1]
    BY <2>1 DEF PutOverrun, Put, Drop, Ring
  <2>6. p \in Ring /\ p.overrun = q.overrun + 1
    BY <2>4, <2>5 DEF Ring
  <2>7. Contents(p) = Contents(Put(r, x))
    BY <2>4, <2>5 DEF Contents, Size, At, Ring
  <2>8. QED
    BY <1>2, <2>2, <2>4, <2>6, <2>7
<1>3. QED
  BY <1>1, <1>2

\* clear leaves a ring without items.
LEMMA ClearedEmpty ==
    ASSUME NEW q \in Ring
    PROVE  /\ Cleared(q) \in Ring
           /\ Contents(Cleared(q)) = <<>>
           /\ Cleared(q).overrun = 0
<1>1. 0 \in Slot
  BY RingAssumption DEF Slot
<1>2. /\ Cleared(q) \in Ring
      /\ Cleared(q).head = 0 /\ Cleared(q).tail = 0 /\ Cleared(q).overrun = 0
  BY <1>1 DEF Cleared, Ring
<1>3. Size(Cleared(q)) = 0
  BY <1>2 DEF Size
<1>4. QED
  BY <1>2, <1>3 DEF Contents

\* No operation but an overrun touches the overrun counter.
LEMMA OverrunAside ==
    ASSUME NEW q \in Ring
    PROVE  /\ Take(q).overrun = q.overrun
           /\ Drop(q).overrun = q.overrun
           /\ \A x \in Item : Put(q, x).overrun = q.overrun
BY DEF Take, Drop, Put, Ring

------------------------------------------------------------------------------
(* The inductive invariant: the types, and only items between the indices.  *)

IInv == TypeOK /\ Contents(queue) \in Seq(Item)

\* The two ways to say that only items stand between head and tail.
LEMMA LiveContents ==
    ASSUME queue \in Ring, Contents(queue) \in Seq(Item)
    PROVE  LiveSlots
<1>1. ASSUME NEW idx \in Slot, idx < Size(queue)
      PROVE  At(queue, idx) \in Item
  <2>1. At(queue, idx) = Contents(queue)[idx + 1] /\ Len(Contents(queue)) = Size(queue)
    BY <1>1, ContentsAt
  <2>2. idx + 1 \in 1..Len(Contents(queue))
    BY <1>1, <2>1, SizeType, RingAssumption DEF Slot
  <2>3. QED
    BY <2>1, <2>2
<1>2. QED
  BY <1>1 DEF LiveSlots

\* The empty ring of the constructor satisfies it.
LEMMA InitIInv == Init => IInv
<1> SUFFICES ASSUME Init PROVE IInv
  OBVIOUS
<1>1. queue \in Ring /\ Size(queue) = 0
  BY RingAssumption DEF Init, EmptyRing, Ring, Slot, Size
<1>2. TypeOK
  BY <1>1, RingAssumption DEF TypeOK, Init, Ret, Op
<1>3. Contents(queue) = <<>>
  BY <1>1 DEF Contents
<1>4. QED
  BY <1>2, <1>3 DEF IInv

\* What a value read from a slot between the indices is.
LEMMA ReadItem ==
    ASSUME queue \in Ring, NEW idx \in Slot, idx < Size(queue)
    PROVE  /\ At(queue, idx) = Contents(queue)[idx + 1]
           /\ idx + 1 \in 1..Len(Contents(queue))
           /\ At(queue, idx) \in Item \cup {Vacant}
<1>1. /\ At(queue, idx) = Contents(queue)[idx + 1]
      /\ Len(Contents(queue)) = Size(queue)
      /\ Contents(queue) \in Seq(Item \cup {Vacant})
  BY ContentsAt
<1>2. idx + 1 \in 1..Len(Contents(queue))
  BY <1>1, SizeType, RingAssumption DEF Slot
<1>3. QED
  BY <1>1, <1>2

\* Every call of the queue is a step of the FIFO or leaves it alone, and keeps
\* the invariant.
LEMMA StepIInv ==
    ASSUME IInv, [Next]_vars
    PROVE  IInv' /\ [Fifo!Next]_(Fifo!fifoVars)
<1> USE DEF IInv, TypeOK
<1> DEFINE FifoVars == <<Contents(queue), queue.overrun, out>>
<1>0. Fifo!fifoVars = FifoVars /\ (Fifo!fifoVars)' = FifoVars'
  BY DEF Fifo!fifoVars
<1>1. ASSUME NEW x \in Item, Enqueue(x)
      PROVE  IInv' /\ [Fifo!Next]_(Fifo!fifoVars)
  <2>1. CASE Full(queue)
    BY <1>0, <1>1, <2>1, RingAssumption DEF Enqueue, Returns, Ret, Op
  <2>2. CASE ~ Full(queue)
    <3>1. /\ queue' = Put(queue, x) /\ out' = out /\ queue' \in Ring
          /\ Contents(queue)' = Append(Contents(queue), x)
      BY <1>1, <2>2, PutAppends DEF Enqueue
    <3>2. ret' \in Ret
      BY <1>1, <2>2, RingAssumption DEF Enqueue, Returns, Ret, Op
    <3>3. Len(Contents(queue)) < Capacity
      BY <2>2, SizeType, ContentsAt, RingAssumption
    <3>4. Fifo!Put(x)
      BY <3>1, <3>3, OverrunAside DEF Fifo!Put, AllMethods
    <3>5. QED
      BY <3>1, <3>2, <3>4 DEF Fifo!Next
  <2>3. QED
    BY <2>1, <2>2
<1>2. ASSUME NEW x \in Item, EnqueueOverrun(x)
      PROVE  IInv' /\ [Fifo!Next]_(Fifo!fifoVars)
  <2>1. ret' \in Ret /\ out' = out /\ queue' = PutOverrun(queue, x) /\ queue' \in Ring
    BY <1>2, PutOverrunContents, RingAssumption DEF EnqueueOverrun, Returns, Ret, Op
  <2>2. CASE Full(queue)
    <3>1. /\ Contents(queue) # <<>>
          /\ Contents(queue)' = Append(Tail(Contents(queue)), x)
          /\ queue'.overrun = queue.overrun + 1
      BY <2>1, <2>2, PutOverrunContents
    <3>2. Len(Contents(queue)) = Capacity
      BY <2>2, SizeType, ContentsAt, RingAssumption
    <3>3. Fifo!PutOver(x)
      BY <2>1, <3>1, <3>2 DEF Fifo!PutOver, AllMethods
    <3>4. QED
      BY <2>1, <3>1, <3>3 DEF Fifo!Next
  <2>3. CASE ~ Full(queue)
    <3>1. /\ Contents(queue)' = Append(Contents(queue), x)
          /\ queue' = Put(queue, x)
      BY <2>1, <2>3, PutOverrunContents, PutAppends
    <3>2. Len(Contents(queue)) < Capacity
      BY <2>3, SizeType, ContentsAt, RingAssumption
    <3>3. Fifo!Put(x)
      BY <2>1, <3>1, <3>2, OverrunAside DEF Fifo!Put, AllMethods
    <3>4. QED
      BY <2>1, <3>1, <3>3 DEF Fifo!Next
  <2>4. QED
    BY <2>2, <2>3
<1>3. ASSUME NEW c \in Client, Dequeue(c)
      PROVE  IInv' /\ [Fifo!Next]_(Fifo!fifoVars)
  <2>1. CASE Empty(queue)
    BY <1>0, <1>3, <2>1, RingAssumption DEF Dequeue, Returns, Ret, Op
  <2>2. CASE ~ Empty(queue)
    <3>1. /\ queue' = Take(queue)
          /\ out' = [out EXCEPT ![c] = queue.items[queue.head]]
          /\ ret' \in Ret
      BY <1>3, <2>2, RingAssumption DEF Dequeue, Returns, Ret, Op
    <3>2. /\ queue' \in Ring
          /\ queue.items[queue.head] = Head(Contents(queue))
          /\ Contents(queue) # <<>>
          /\ Contents(queue)' = Tail(Contents(queue))
      BY <2>2, <3>1, TakeRemovesHead
    <3>3. out' \in [Client -> Item \cup {Vacant}] /\ Contents(queue)' \in Seq(Item)
      BY <3>1, <3>2
    <3>4. Fifo!Take(c)
      BY <3>1, <3>2, OverrunAside DEF Fifo!Take, AllMethods
    <3>5. QED
      BY <3>1, <3>2, <3>3, <3>4 DEF Fifo!Next
  <2>3. QED
    BY <2>1, <2>2
<1>4. ASSUME NEW c \in Client, Front(c)
      PROVE  IInv' /\ [Fifo!Next]_(Fifo!fifoVars)
  <2>1. CASE Empty(queue)
    BY <1>0, <1>4, <2>1, RingAssumption DEF Front, Returns, Ret, Op
  <2>2. CASE ~ Empty(queue)
    <3>1. /\ queue' = queue
          /\ out' = [out EXCEPT ![c] = queue.items[queue.head]]
          /\ ret' \in Ret
      BY <1>4, <2>2, RingAssumption DEF Front, Returns, Ret, Op
    <3>2. /\ queue.items[queue.head] = Head(Contents(queue))
          /\ Contents(queue) # <<>>
      BY <2>2, TakeRemovesHead
    <3>3. 1 \in 1..Len(Contents(queue)) /\ 1 \in 1..Capacity
      BY <3>2, RingAssumption
    <3>4. Fifo!Read(c, 1)
      BY <3>1, <3>2, <3>3 DEF Fifo!Read, AllMethods
    <3>5. out' \in [Client -> Item \cup {Vacant}]
      BY <3>1, <3>2
    <3>6. QED
      BY <3>1, <3>3, <3>4, <3>5 DEF Fifo!Next
  <2>3. QED
    BY <2>1, <2>2
<1>5. ASSUME NEW c \in Client, NEW idx \in Slot, ReadAt(c, idx)
      PROVE  IInv' /\ [Fifo!Next]_(Fifo!fifoVars)
  <2>1. CASE idx >= Size(queue)
    BY <1>0, <1>5, <2>1, RingAssumption DEF ReadAt, Returns, Ret, Op
  <2>2. CASE idx < Size(queue)
    <3>1. /\ queue' = queue
          /\ out' = [out EXCEPT ![c] = At(queue, idx)]
          /\ ret' \in Ret
      BY <1>5, <2>2, SizeType, RingAssumption DEF ReadAt, Returns, Ret, Op, Slot
    <3>2. /\ At(queue, idx) = Contents(queue)[idx + 1]
          /\ idx + 1 \in 1..Len(Contents(queue))
          /\ At(queue, idx) \in Item \cup {Vacant}
      BY <2>2, ReadItem
    <3>3. idx + 1 \in 1..Capacity
      BY <3>2, SizeType, ContentsAt, RingAssumption DEF Slot
    <3>4. Fifo!Read(c, idx + 1)
      BY <3>1, <3>2 DEF Fifo!Read, AllMethods
    <3>5. out' \in [Client -> Item \cup {Vacant}]
      BY <3>1, <3>2
    <3>6. QED
      BY <3>1, <3>3, <3>4, <3>5 DEF Fifo!Next
  <2>3. QED
    BY <2>1, <2>2, SizeType, RingAssumption DEF Slot
<1>6. ASSUME DequeueDiscard
      PROVE  IInv' /\ [Fifo!Next]_(Fifo!fifoVars)
  <2>1. CASE Empty(queue)
    BY <1>0, <1>6, <2>1, RingAssumption DEF DequeueDiscard, Returns, Ret, Op
  <2>2. CASE ~ Empty(queue)
    <3>1. queue' = Drop(queue) /\ out' = out /\ ret' \in Ret
      BY <1>6, <2>2, RingAssumption DEF DequeueDiscard, Returns, Ret, Op
    <3>2. /\ queue' \in Ring
          /\ Contents(queue) # <<>>
          /\ Contents(queue)' = Tail(Contents(queue))
      BY <2>2, <3>1, TakeRemovesHead
    <3>3. Contents(queue)' \in Seq(Item)
      BY <3>2
    <3>4. Fifo!Drop
      BY <3>1, <3>2, OverrunAside DEF Fifo!Drop, AllMethods
    <3>5. QED
      BY <3>1, <3>2, <3>3, <3>4 DEF Fifo!Next
  <2>3. QED
    BY <2>1, <2>2
<1>7. ASSUME Clear
      PROVE  IInv' /\ [Fifo!Next]_(Fifo!fifoVars)
  <2>1. /\ queue' \in Ring /\ out' = out /\ ret' \in Ret
        /\ Contents(queue)' = <<>> /\ queue'.overrun = 0
    BY <1>7, ClearedEmpty, RingAssumption DEF Clear, Returns, Ret, Op
  <2>2. Fifo!Clear
    BY <2>1 DEF Fifo!Clear, AllMethods
  <2>3. QED
    BY <2>1, <2>2 DEF Fifo!Next
<1>8. ASSUME GetSize
      PROVE  IInv' /\ [Fifo!Next]_(Fifo!fifoVars)
  <2>1. queue' = queue /\ out' = out /\ ret' \in Ret
    BY <1>8, SizeType, RingAssumption DEF GetSize, Returns, Ret, Op
  <2>2. QED
    BY <1>0, <2>1
<1>9. CASE UNCHANGED vars
  BY <1>0, <1>9 DEF vars
<1>10. QED
  BY <1>1, <1>2, <1>3, <1>4, <1>5, <1>6, <1>7, <1>8, <1>9 DEF Next

------------------------------------------------------------------------------
\* The variables keep their types whatever calls are made
\* (blocking_queue.hpp:166-171): head and tail never leave the ring.
THEOREM TypeCorrect == Spec => []TypeOK
<1>1. IInv /\ [Next]_vars => IInv'
  BY StepIInv
<1>2. IInv => TypeOK
  BY DEF IInv
<1>3. QED
  BY InitIInv, <1>1, <1>2, PTL DEF Spec

\* No index arithmetic lets a reader reach a slot that was moved from or never
\* filled (blocking_queue.hpp:97, 119, 127, 133).
THEOREM OnlyLiveSlots == Spec => []LiveSlots
<1>1. IInv /\ [Next]_vars => IInv'
  BY StepIInv
<1>2. IInv => LiveSlots
  BY LiveContents DEF IInv, TypeOK
<1>3. QED
  BY InitIInv, <1>1, <1>2, PTL DEF Spec

\* The ring implements the bounded FIFO, for every capacity.
THEOREM Refinement == Spec => RefinesBoundedFifo
<1>1. Init => Fifo!Init
  <2> SUFFICES ASSUME Init PROVE Fifo!Init
    OBVIOUS
  <2>1. Size(queue) = 0 /\ queue.overrun = 0
    BY RingAssumption DEF Init, EmptyRing, Size
  <2>2. Contents(queue) = <<>>
    BY <2>1 DEF Contents
  <2>3. QED
    BY <2>1, <2>2 DEF Init, Fifo!Init
<1>2. IInv /\ [Next]_vars => IInv' /\ [Fifo!Next]_(Fifo!fifoVars)
  BY StepIInv
<1>3. QED
  BY InitIInv, <1>1, <1>2, PTL DEF Spec, RefinesBoundedFifo, Fifo!Spec

\* What the callers are told agrees with the FIFO: a refused call met a full or
\* an empty queue, and size() is the number of the items.
THEOREM AnswersAgree == Spec => Answers
<1>1. IInv /\ [Next]_vars => IInv'
  BY StepIInv
<1>2. ASSUME IInv, Next
      PROVE  LET n == Len(Contents(queue))
             IN  /\ ret'.op = "enqueue" => (ret'.val = 0 <=> n = Capacity)
                 /\ ret'.op \in {"dequeue", "front"} => (ret'.val = 0 <=> n = 0)
                 /\ ret'.op = "size" => ret'.val = n
  <2>1. /\ Len(Contents(queue)) = Size(queue)
        /\ Size(queue) = 0 <=> Empty(queue)
        /\ Size(queue) = Capacity <=> Full(queue)
    BY <1>2, ContentsAt, SizeType DEF IInv, TypeOK
  <2>2. QED
    BY <1>2, <2>1 DEF Next, Enqueue, EnqueueOverrun, Dequeue, Front, ReadAt,
        DequeueDiscard, Clear, GetSize, Returns
<1>3. QED
  BY InitIInv, <1>1, <1>2, PTL DEF Spec, Answers
==============================================================================
