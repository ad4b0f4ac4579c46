----------------------------- MODULE EepromProofs -----------------------------
(* Proofs about EepromQueue for every ring, page size and set of operations. *)
EXTENDS EepromQueue, SequenceTheorems, TLAPS

\* An operation as the ring may hold it.
operation == [rw : {0, 1}, start : Nat, len : Nat]

LEMMA OperationTyped == Operation \cup {Unused} \subseteq operation
  BY EepromAssumption DEF EepromAssumption, operation, Unused

\* A product of a positive number and the size of a page is a page at least.
LEMMA Pages == \A k \in Nat : k * PAGE_SIZE \in Nat /\ (k > 0 => k * PAGE_SIZE >= PAGE_SIZE)
  BY EepromAssumption DEF EepromAssumption

LEMMA OffsetInPage == \A o \in operation : Offset(o) \in 0 .. PAGE_SIZE - 1
  BY EepromAssumption DEF EepromAssumption, operation, Offset

\* A part that is sent lies within its operation, in the memory and in the
\* caller's buffer alike.
LEMMA ChunkInside ==
  ASSUME NEW o \in operation, NEW k \in Nat, Chunk(o, k) # "ERROR"
  PROVE  /\ ChunkStart(o, k) - o.start = ChunkBuffer(o, k)
         /\ ChunkBuffer(o, k) \in Nat /\ ChunkLength(o, k) \in Nat
         /\ ChunkBuffer(o, k) + ChunkLength(o, k) <= o.len
<1> DEFINE m == k * PAGE_SIZE
<1>1. m \in Nat /\ (k > 0 => m >= PAGE_SIZE)
  BY Pages
<1>2. Offset(o) \in 0 .. PAGE_SIZE - 1 /\ o.start \in Nat /\ o.len \in Nat /\ PAGE_SIZE \in Nat
  BY OffsetInPage, EepromAssumption DEF operation, EepromAssumption
<1>3. /\ ChunkStart(o, k) = IF k = 0 THEN o.start ELSE m + (o.start - Offset(o))
      /\ ChunkBuffer(o, k) = IF k = 0 THEN 0 ELSE m - Offset(o)
  BY DEF ChunkStart, ChunkBuffer
<1>4. ChunkSize(o, k) \in 1 .. PAGE_SIZE
  BY <1>2 DEF ChunkSize
<1>5. \/ Chunk(o, k) = "END" /\ Excess(o, k) \in 0 .. PAGE_SIZE - 1
      \/ Chunk(o, k) = "OK" /\ Excess(o, k) < 0
  <2> HIDE DEF m
  <2>1. Excess(o, k) \in Int
    BY <1>1, <1>2, <1>3, <1>4 DEF Excess, End
  <2> QED
    BY <1>2, <2>1 DEF Chunk
<1> HIDE DEF m
<1>6. Excess(o, k) = ChunkStart(o, k) + ChunkSize(o, k) - (o.start + o.len)
  BY DEF Excess, End
<1>7. ChunkStart(o, k) - o.start = ChunkBuffer(o, k) /\ ChunkBuffer(o, k) \in Nat
      /\ ChunkStart(o, k) \in Nat
  BY <1>1, <1>2, <1>3
<1>8. CASE Chunk(o, k) = "END"
  <2>1. ChunkLength(o, k) = ChunkSize(o, k) - Excess(o, k)
    BY <1>8 DEF ChunkLength
  <2>2. ChunkBuffer(o, k) + ChunkLength(o, k) = o.len
    BY <1>2, <1>4, <1>6, <1>7, <2>1
  <2>3. ChunkLength(o, k) >= 0
    <3>1. CASE k = 0
      BY <1>2, <1>3, <2>2, <3>1, <1>4, <1>6, <2>1, <1>7
    <3>2. CASE k # 0
      <4>1. ChunkSize(o, k) = PAGE_SIZE
        BY <3>2 DEF ChunkSize
      <4> QED
        BY <1>2, <1>5, <1>8, <2>1, <4>1
    <3> QED
      BY <3>1, <3>2
  <2>4. ChunkLength(o, k) \in Int
    BY <1>2, <1>4, <1>6, <1>7, <2>1
  <2> QED
    BY <1>2, <1>7, <2>2, <2>3, <2>4
<1>9. CASE Chunk(o, k) = "OK"
  <2>1. ChunkLength(o, k) = ChunkSize(o, k)
    BY <1>9 DEF ChunkLength
  <2> QED
    BY <1>2, <1>4, <1>5, <1>6, <1>7, <1>9, <2>1
<1> QED
  BY <1>5, <1>8, <1>9

-----------------------------------------------------------------------------
\* What holds however interrupts preempt the main loop: the types, and the bytes
\* that were moved lie where they belong.
Typed ==
  /\ buff \in [Index -> operation] /\ read_ptr \in Index /\ write_ptr \in Index /\ count \in Int
  /\ state \in {"IDLE", "WRITE", "READ"} /\ op \in operation /\ n \in Nat
  /\ datasent \in {0, 1}
  /\ pc \in [Level -> {"idle", "claim", "fill", "advance", "count"}]
  /\ arg \in [Level -> operation]
  /\ reg \in [Level -> Int] /\ \A l \in Level : pc[l] = "claim" => reg[l] \in Index

TypedInv == Typed /\ BytesInPlace

LEMMA SuccInIndex == \A i \in Index : Succ(i) \in Index
  BY EepromAssumption DEF Index, Succ, EepromAssumption

LEMMA TypedInit == Init => TypedInv
<1>1. Unused \in operation /\ 0 \in Index
  BY EepromAssumption DEF EepromAssumption, Unused, operation, Index
<1> QED
  BY <1>1 DEF Init, TypedInv, Typed, BytesInPlace

\* The bytes that a transfer moves, and what it leaves of the instance.
Span(from, to, length) == {<<from + b, to + b>> : b \in 0 .. length - 1}

LEMMA SentFields ==
  ASSUME NEW s, NEW from, NEW to, NEW length,
         s = [state |-> s.state, op |-> s.op, n |-> s.n, datasent |-> s.datasent,
              moved |-> s.moved]
  PROVE  Sent(s, from, to, length) =
           [state |-> s.state, op |-> s.op, n |-> s.n, datasent |-> 1,
            moved |-> s.moved \cup Span(from, to, length)]
<1>1. Sent(s, from, to, length) =
        [s EXCEPT !.datasent = 1, !.moved = @ \cup Span(from, to, length)]
  BY DEF Sent, Span
<1> QED
  BY <1>1

\* What a call of rw_exe and the start of an operation leave behind.
LEMMA MovedInPlace ==
  ASSUME TypedInv, NEW taken \in BOOLEAN, NEW s, s = rw_exe(Instance, taken)
  PROVE  /\ s.state \in {"IDLE", "WRITE", "READ"} /\ s.op = op /\ s.n \in Nat
         /\ s.datasent \in {0, 1}
         /\ \A m \in s.moved : m[1] - op.start = m[2] /\ m[2] \in 0 .. op.len - 1
<1> DEFINE I == Instance
<1>0. /\ I.state = state /\ I.op = op /\ I.n = n /\ I.datasent = datasent /\ I.moved = moved
      /\ I = [state |-> I.state, op |-> I.op, n |-> I.n, datasent |-> I.datasent,
              moved |-> I.moved]
  BY DEF Instance
<1>1. op \in operation /\ n \in Nat /\ state \in {"IDLE", "WRITE", "READ"} /\ datasent \in {0, 1}
  BY DEF TypedInv, Typed
<1>2. \A m \in moved : m[1] - op.start = m[2] /\ m[2] \in 0 .. op.len - 1
  BY DEF TypedInv, BytesInPlace
<1>3. ASSUME NEW from \in Nat, NEW to \in Nat, NEW length \in Nat,
             from - op.start = to, to + length <= op.len
      PROVE  /\ Sent(I, from, to, length).state = state /\ Sent(I, from, to, length).op = op
             /\ Sent(I, from, to, length).n = n /\ Sent(I, from, to, length).datasent = 1
             /\ \A m \in Sent(I, from, to, length).moved :
                  m[1] - op.start = m[2] /\ m[2] \in 0 .. op.len - 1
  <2>1. \A b \in 0 .. length - 1 : from + b - op.start = to + b /\ to + b \in 0 .. op.len - 1
    BY <1>1, <1>3 DEF operation
  <2>2. \A m \in Span(from, to, length) : m[1] - op.start = m[2] /\ m[2] \in 0 .. op.len - 1
    <3> SUFFICES ASSUME NEW m \in Span(from, to, length)
        PROVE  m[1] - op.start = m[2] /\ m[2] \in 0 .. op.len - 1
      OBVIOUS
    <3>1. PICK b \in 0 .. length - 1 : m = <<from + b, to + b>>
      BY DEF Span
    <3>2. m[1] = from + b /\ m[2] = to + b
      BY <3>1
    <3>3. from + b - op.start = to + b /\ to + b \in 0 .. op.len - 1
      BY <2>1
    <3>4. m[1] - op.start = m[2]
      <4>1. op.start \in Int
        BY <1>1 DEF operation
      <4> QED
        BY <3>2, <3>3, <4>1
    <3>5. m[2] \in 0 .. op.len - 1
      BY <3>2, <3>3
    <3> QED
      BY <3>4, <3>5
  <2> QED
    BY <1>0, <1>2, <2>2, SentFields
<1>4. /\ Idle(I).state = "IDLE" /\ Idle(I).op = op /\ Idle(I).n = 0 /\ Idle(I).datasent = 0
      /\ Idle(I).moved = moved
  BY DEF Idle, Instance
<1>5. CASE s = Idle(I)
  BY <1>2, <1>4, <1>5
<1>6. CASE s = I
  BY <1>0, <1>1, <1>2, <1>6
<1>7. CASE s = [I EXCEPT !.n = @ + 1, !.datasent = 0]
  <2>1. /\ s.state = state /\ s.op = op /\ s.n = n + 1 /\ s.datasent = 0 /\ s.moved = moved
    BY <1>7 DEF Instance
  <2> QED
    BY <1>1, <1>2, <2>1
<1>8. CASE /\ Chunk(op, n) # "ERROR"
           /\ s = Sent(I, ChunkStart(op, n), ChunkBuffer(op, n), ChunkLength(op, n))
  <2>1. ChunkStart(op, n) \in Nat
    <3>1. ChunkStart(op, n) = op.start + ChunkBuffer(op, n)
      <4>1. ChunkStart(op, n) \in Int
        BY <1>1, Pages, OffsetInPage DEF ChunkStart, operation
      <4> QED
        BY <1>1, <1>8, <4>1, ChunkInside DEF operation
    <3> QED
      BY <1>1, <1>8, <3>1, ChunkInside DEF operation
  <2> QED
    BY <1>1, <1>3, <1>8, <2>1, ChunkInside
<1>9. CASE s = Sent(I, op.start, 0, op.len)
  BY <1>1, <1>3, <1>9 DEF operation
<1>10. \/ s = Idle(I) \/ s = I
       \/ s = [I EXCEPT !.n = @ + 1, !.datasent = 0]
       \/ /\ Chunk(op, n) # "ERROR"
          /\ s = Sent(I, ChunkStart(op, n), ChunkBuffer(op, n), ChunkLength(op, n))
       \/ s = Sent(I, op.start, 0, op.len)
  <2>1. s = rw_exe(I, taken)
    OBVIOUS
  <2> HIDE DEF I
  <2> QED
    BY <1>0, <2>1 DEF rw_exe
<1> HIDE DEF I
<1> QED
  BY <1>5, <1>6, <1>7, <1>8, <1>9, <1>10

LEMMA RwRecord ==
  ASSUME NEW i, NEW taken,
         i = [state |-> i.state, op |-> i.op, n |-> i.n, datasent |-> i.datasent,
              moved |-> i.moved]
  PROVE  rw_exe(i, taken) =
           [state |-> rw_exe(i, taken).state, op |-> rw_exe(i, taken).op,
            n |-> rw_exe(i, taken).n, datasent |-> rw_exe(i, taken).datasent,
            moved |-> rw_exe(i, taken).moved]
<1> DEFINE s == rw_exe(i, taken)
<1> SUFFICES s = [state |-> s.state, op |-> s.op, n |-> s.n, datasent |-> s.datasent,
                  moved |-> s.moved]
  OBVIOUS
<1>1. \/ s = Idle(i) \/ s = i \/ s = [i EXCEPT !.n = @ + 1, !.datasent = 0]
      \/ s = Sent(i, ChunkStart(i.op, i.n), ChunkBuffer(i.op, i.n), ChunkLength(i.op, i.n))
      \/ s = Sent(i, i.op.start, 0, i.op.len)
  BY DEF rw_exe
<1> HIDE DEF s
<1>2. CASE s = Idle(i)
  BY <1>2 DEF Idle
<1>3. CASE s = [i EXCEPT !.n = @ + 1, !.datasent = 0]
  BY <1>3
<1>4. ASSUME NEW from, NEW to, NEW length, s = Sent(i, from, to, length)
      PROVE  s = [state |-> s.state, op |-> s.op, n |-> s.n, datasent |-> s.datasent,
                  moved |-> s.moved]
  BY <1>4, SentFields
<1> QED
  BY <1>1, <1>2, <1>3, <1>4

LEMMA TypedHandler ==
  ASSUME TypedInv, NEW taken \in BOOLEAN, at24cxx_dynamic_handler(taken)
  PROVE  TypedInv'
<1> DEFINE s == rw_exe(Instance, taken)
           starts == count # 0 /\ s.state = "IDLE"
           o == buff[Succ(read_ptr)]
<1>1. /\ s.state \in {"IDLE", "WRITE", "READ"} /\ s.op = op /\ s.n \in Nat
      /\ s.datasent \in {0, 1}
      /\ \A m \in s.moved : m[1] - op.start = m[2] /\ m[2] \in 0 .. op.len - 1
  BY MovedInPlace
<1>2. Becomes(IF starts THEN Started(s, o) ELSE s) /\ UNCHANGED <<ring, arg, reg>>
  BY DEF at24cxx_dynamic_handler
<1>3. /\ pc' \in [Level -> {"idle", "claim", "fill", "advance", "count"}]
      /\ \A l \in Level : pc'[l] = "claim" => pc[l] = "claim"
  BY DEF at24cxx_dynamic_handler, TypedInv, Typed
<1>4. s = [state |-> s.state, op |-> s.op, n |-> s.n, datasent |-> s.datasent, moved |-> s.moved]
  <2>1. Instance = [state |-> Instance.state, op |-> Instance.op, n |-> Instance.n,
                    datasent |-> Instance.datasent, moved |-> Instance.moved]
    BY DEF Instance
  <2> QED
    BY <2>1, RwRecord
<1> HIDE DEF s
<1>5. o \in operation
  BY SuccInIndex DEF TypedInv, Typed
<1>6. /\ state' \in {"IDLE", "WRITE", "READ"} /\ op' \in operation /\ n' \in Nat
      /\ datasent' \in {0, 1} /\ BytesInPlace'
  <2>1. CASE starts
    <3> DEFINE t == Started(s, o)
    <3>1. /\ t.state \in {"READ", "WRITE"} /\ t.op = o /\ t.n = 0 /\ t.moved = {}
          /\ t.datasent = s.datasent
      BY <1>4 DEF Started
    <3>2. state' = t.state /\ op' = t.op /\ n' = t.n /\ datasent' = t.datasent /\ moved' = t.moved
      BY <1>2, <2>1 DEF Becomes
    <3> HIDE DEF t
    <3> QED
      BY <1>1, <1>5, <3>1, <3>2 DEF BytesInPlace
  <2>2. CASE ~starts
    <3>1. state' = s.state /\ op' = s.op /\ n' = s.n /\ datasent' = s.datasent /\ moved' = s.moved
      BY <1>2, <2>2 DEF Becomes
    <3> QED
      BY <1>1, <3>1 DEF TypedInv, Typed, BytesInPlace
  <2> QED
    BY <2>1, <2>2
<1> QED
  BY <1>2, <1>3, <1>6 DEF TypedInv, Typed, ring

LEMMA TypedQueue ==
  ASSUME TypedInv, NEW l \in Level, Advance \/ CountDown \/ Claim(l) \/ Claimed(l) \/ Fill(l)
  PROVE  TypedInv'
<1>0. UNCHANGED instance => BytesInPlace'
  BY DEF instance, BytesInPlace, TypedInv
<1>1. CASE Advance
  BY <1>0, <1>1, SuccInIndex, EepromAssumption DEF Advance, TypedInv, Typed, instance,
     EepromAssumption
<1>2. CASE CountDown
  BY <1>0, <1>2, EepromAssumption DEF CountDown, TypedInv, Typed, instance, EepromAssumption
<1>3. CASE Claim(l)
  <2>1. PICK o \in Operation : arg' = [arg EXCEPT ![l] = o]
    BY <1>3 DEF Claim
  <2> QED
    BY <1>0, <1>3, <2>1, OperationTyped DEF Claim, TypedInv, Typed, instance, ring, Index
<1>4. CASE Claimed(l)
  BY <1>0, <1>4, SuccInIndex DEF Claimed, At, TypedInv, Typed, instance
<1>5. CASE Fill(l)
  BY <1>0, <1>5 DEF Fill, TypedInv, Typed, instance
<1> QED
  BY <1>1, <1>2, <1>3, <1>4, <1>5

LEMMA TypedStutter == TypedInv /\ UNCHANGED vars => TypedInv'
  BY DEF TypedInv, Typed, BytesInPlace, vars, ring, instance, local

THEOREM TypedHolds == Spec => []TypedInv
<1>1. TypedInv /\ [Next]_vars => TypedInv'
  <2>1. Level # {}
    BY EepromAssumption DEF EepromAssumption
  <2> QED
    BY <2>1, TypedHandler, TypedQueue, TypedStutter DEF Next
<1> QED
  BY TypedInit, <1>1, PTL DEF Spec

\* A transfer moves each byte between its place in the memory and its place in
\* the buffer, for every page size, however interrupts preempt the main loop.
THEOREM BytesInPlaceSafe == Spec => []BytesInPlace
<1>1. TypedInv => BytesInPlace
  BY DEF TypedInv
<1> QED
  BY TypedHolds, <1>1, PTL

-----------------------------------------------------------------------------
\* The parts of a write.  The first one exists, each is followed by the next or
\* is the last, none is empty, and none crosses a page.
LEMMA ChunkNumbers ==
  ASSUME NEW o \in operation, o.len > 0, NEW k \in Nat
  PROVE  /\ ChunkStart(o, k) \in Int /\ ChunkBuffer(o, k) \in Int /\ ChunkSize(o, k) \in 1 .. PAGE_SIZE
         /\ Excess(o, k) \in Int
         /\ Chunk(o, k) = IF Excess(o, k) < 0 THEN "OK"
                          ELSE IF Excess(o, k) < PAGE_SIZE THEN "END" ELSE "ERROR"
<1> DEFINE m == k * PAGE_SIZE
<1>1. m \in Nat
  BY Pages
<1>2. /\ Offset(o) \in 0 .. PAGE_SIZE - 1 /\ o.start \in Nat /\ o.len \in Nat
      /\ PAGE_SIZE \in Nat \ {0}
  BY OffsetInPage, EepromAssumption DEF operation, EepromAssumption
<1>3. /\ ChunkStart(o, k) = IF k = 0 THEN o.start ELSE m + (o.start - Offset(o))
      /\ ChunkBuffer(o, k) = IF k = 0 THEN 0 ELSE m - Offset(o)
  BY DEF ChunkStart, ChunkBuffer
<1>4. ChunkSize(o, k) \in 1 .. PAGE_SIZE
  BY <1>2 DEF ChunkSize
<1> HIDE DEF m
<1>5. ChunkStart(o, k) \in Int /\ ChunkBuffer(o, k) \in Int /\ Excess(o, k) \in Int
  BY <1>1, <1>2, <1>3, <1>4 DEF Excess, End
<1> QED
  BY <1>2, <1>4, <1>5 DEF Chunk

LEMMA ChunkFirst ==
  ASSUME NEW o \in operation, o.len > 0
  PROVE  Chunk(o, 0) # "ERROR" /\ ChunkBuffer(o, 0) = 0
<1>1. Excess(o, 0) = PAGE_SIZE - Offset(o) - o.len
  BY OffsetInPage, EepromAssumption
     DEF Excess, End, ChunkStart, ChunkSize, operation, EepromAssumption
<1>2. Excess(o, 0) < PAGE_SIZE /\ Excess(o, 0) \in Int
  BY <1>1, OffsetInPage, EepromAssumption DEF operation, EepromAssumption
<1> QED
  BY <1>2, ChunkNumbers DEF ChunkBuffer

LEMMA ChunkNext ==
  ASSUME NEW o \in operation, o.len > 0, NEW k \in Nat, Chunk(o, k) = "OK"
  PROVE  /\ Chunk(o, k + 1) # "ERROR"
         /\ ChunkBuffer(o, k + 1) = ChunkBuffer(o, k) + ChunkLength(o, k)
<1> DEFINE m == k * PAGE_SIZE
           j == (k + 1) * PAGE_SIZE
<1>1. m \in Nat /\ j = m + PAGE_SIZE /\ (k = 0 => m = 0)
  BY Pages, EepromAssumption DEF EepromAssumption
<1>2. /\ Offset(o) \in 0 .. PAGE_SIZE - 1 /\ o.start \in Nat /\ o.len \in Nat
      /\ PAGE_SIZE \in Nat \ {0}
  BY OffsetInPage, EepromAssumption DEF operation, EepromAssumption
<1>3. /\ ChunkStart(o, k) = IF k = 0 THEN o.start ELSE m + (o.start - Offset(o))
      /\ ChunkBuffer(o, k) = IF k = 0 THEN 0 ELSE m - Offset(o)
      /\ ChunkStart(o, k + 1) = j + (o.start - Offset(o))
      /\ ChunkBuffer(o, k + 1) = j - Offset(o)
      /\ ChunkSize(o, k) = IF k = 0 THEN PAGE_SIZE - Offset(o) ELSE PAGE_SIZE
      /\ ChunkSize(o, k + 1) = PAGE_SIZE
  BY DEF ChunkStart, ChunkBuffer, ChunkSize
<1> HIDE DEF m, j
<1>4. Excess(o, k) < 0 /\ Excess(o, k) \in Int
  BY ChunkNumbers
<1>5. ChunkStart(o, k + 1) = ChunkStart(o, k) + ChunkSize(o, k)
  BY <1>1, <1>2, <1>3
<1>6. Excess(o, k + 1) = Excess(o, k) + PAGE_SIZE
  <2>1. ChunkStart(o, k) \in Int /\ ChunkSize(o, k) \in Int
    BY ChunkNumbers, <1>2
  <2> QED
    BY <1>2, <1>3, <1>5, <2>1 DEF Excess, End
<1>7. Chunk(o, k + 1) # "ERROR"
  <2>1. Excess(o, k + 1) < PAGE_SIZE
    BY <1>2, <1>4, <1>6
  <2> QED
    BY <2>1, ChunkNumbers
<1>8. ChunkLength(o, k) = ChunkSize(o, k)
  BY DEF ChunkLength
<1> QED
  BY <1>1, <1>2, <1>3, <1>7, <1>8

LEMMA ChunkEnd ==
  ASSUME NEW o \in operation, o.len > 0, NEW k \in Nat, Chunk(o, k) = "END"
  PROVE  ChunkBuffer(o, k) + ChunkLength(o, k) = o.len
<1>1. /\ ChunkStart(o, k) \in Int /\ ChunkBuffer(o, k) \in Int /\ ChunkSize(o, k) \in Int
      /\ ChunkStart(o, k) - o.start = ChunkBuffer(o, k)
      /\ o.start \in Nat /\ o.len \in Nat
  BY ChunkInside, ChunkNumbers DEF operation
<1> QED
  BY <1>1 DEF ChunkLength, Excess, End

LEMMA ChunkNotEmpty ==
  ASSUME NEW o \in operation, o.len > 0, NEW k \in Nat, Chunk(o, k) # "ERROR"
  PROVE  ChunkLength(o, k) \in 1 .. PAGE_SIZE /\ ChunkLength(o, k) <= ChunkSize(o, k)
<1>1. /\ ChunkSize(o, k) \in 1 .. PAGE_SIZE /\ PAGE_SIZE \in Nat \ {0} /\ Excess(o, k) \in Int
  BY ChunkNumbers, EepromAssumption DEF EepromAssumption
<1>2. CASE Chunk(o, k) = "OK"
  BY <1>1, <1>2 DEF ChunkLength
<1>3. CASE Chunk(o, k) = "END"
  <2>1. ChunkLength(o, k) = ChunkSize(o, k) - Excess(o, k) /\ Excess(o, k) \in 0 .. PAGE_SIZE - 1
    BY <1>1, <1>3, ChunkNumbers DEF ChunkLength
  <2>2. CASE k = 0
    <3>1. ChunkBuffer(o, k) = 0
      BY <2>2 DEF ChunkBuffer
    <3>2. ChunkLength(o, k) = o.len
      BY <1>1, <1>3, <2>1, <3>1, ChunkEnd
    <3> QED
      BY <1>1, <2>1, <3>2 DEF operation
  <2>3. CASE k # 0
    <3>1. ChunkSize(o, k) = PAGE_SIZE
      BY <2>3 DEF ChunkSize
    <3> QED
      BY <1>1, <2>1, <3>1
  <2> QED
    BY <2>2, <2>3
<1> QED
  BY <1>2, <1>3, ChunkNumbers

LEMMA PageOf ==
  ASSUME NEW c \in Nat, NEW x \in 0 .. PAGE_SIZE - 1
  PROVE  (c * PAGE_SIZE + x) \div PAGE_SIZE = c
  BY EepromAssumption DEF EepromAssumption

LEMMA StartOf ==
  ASSUME NEW o \in operation
  PROVE  /\ o.start \div PAGE_SIZE \in Nat
         /\ o.start = (o.start \div PAGE_SIZE) * PAGE_SIZE + Offset(o)
  BY EepromAssumption DEF EepromAssumption, operation, Offset

LEMMA Distributes ==
  \A c, k \in Nat : (c + k) * PAGE_SIZE = c * PAGE_SIZE + k * PAGE_SIZE
  BY EepromAssumption DEF EepromAssumption

LEMMA ChunkInPage ==
  ASSUME NEW o \in operation, o.len > 0, NEW k \in Nat, Chunk(o, k) # "ERROR"
  PROVE  \E page \in Nat : \A x \in 0 .. ChunkLength(o, k) - 1 :
           (ChunkStart(o, k) + x) \div PAGE_SIZE = page
<1> DEFINE q == o.start \div PAGE_SIZE
<1>1. /\ q \in Nat /\ o.start = q * PAGE_SIZE + Offset(o) /\ Offset(o) \in 0 .. PAGE_SIZE - 1
      /\ ChunkLength(o, k) \in 1 .. PAGE_SIZE /\ ChunkLength(o, k) <= ChunkSize(o, k)
      /\ PAGE_SIZE \in Nat \ {0}
  BY StartOf, OffsetInPage, ChunkNotEmpty, EepromAssumption DEF EepromAssumption
<1> HIDE DEF q
<1>2. CASE k = 0
  <2>1. ChunkStart(o, k) = q * PAGE_SIZE + Offset(o) /\ ChunkSize(o, k) = PAGE_SIZE - Offset(o)
    BY <1>1, <1>2 DEF ChunkStart, ChunkSize
  <2> SUFFICES ASSUME NEW x \in 0 .. ChunkLength(o, k) - 1
      PROVE  (ChunkStart(o, k) + x) \div PAGE_SIZE = q
    BY <1>1
  <2> DEFINE y == Offset(o) + x
  <2>2. y \in 0 .. PAGE_SIZE - 1
    BY <1>1, <2>1
  <2>3. q * PAGE_SIZE \in Nat
    BY <1>1, Pages
  <2>4. ChunkStart(o, k) + x = q * PAGE_SIZE + y
    BY <1>1, <2>1, <2>3
  <2> QED
    BY <1>1, <2>2, <2>4, PageOf
<1>3. CASE k # 0
  <2>1. ChunkStart(o, k) = (q + k) * PAGE_SIZE
    <3>1. q * PAGE_SIZE \in Nat /\ k * PAGE_SIZE \in Nat
      BY <1>1, Pages
    <3>2. ChunkStart(o, k) = k * PAGE_SIZE + (o.start - Offset(o))
      BY <1>3 DEF ChunkStart
    <3>3. o.start - Offset(o) = q * PAGE_SIZE
      BY <1>1, <3>1
    <3> QED
      BY <1>1, <3>1, <3>2, <3>3, Distributes
  <2> SUFFICES ASSUME NEW x \in 0 .. ChunkLength(o, k) - 1
      PROVE  (ChunkStart(o, k) + x) \div PAGE_SIZE = q + k
    BY <1>1
  <2>2. x \in 0 .. PAGE_SIZE - 1 /\ q + k \in Nat
    BY <1>1
  <2> QED
    BY <2>1, <2>2, PageOf
<1> QED
  BY <1>2, <1>3

-----------------------------------------------------------------------------
\* Where no interrupt preempts the main loop.  What an instance s has done of
\* its operation: the parts before the one it is at, and that one if it was sent.
Done(s) ==
  IF s.state = "WRITE"
  THEN ChunkBuffer(s.op, s.n) + (IF s.datasent = 1 THEN ChunkLength(s.op, s.n) ELSE 0)
  ELSE IF s.datasent = 1 THEN s.op.len ELSE 0

Works(s) ==
  /\ s.state \in {"IDLE", "WRITE", "READ"} /\ s.n \in Nat /\ s.datasent \in {0, 1}
  /\ s.state = "IDLE" => s.datasent = 0
  /\ s.state # "IDLE" => s.op \in Operation /\ s.moved = Span(s.op.start, 0, Done(s))
  /\ s.state = "WRITE" => s.op.rw = 0 /\ Chunk(s.op, s.n) # "ERROR"
  /\ s.state = "READ" => s.op.rw = 1

Rest(s) ==
  IF s.state = "IDLE" THEN {}
  ELSE {b \in s.op.start .. End(s.op) - 1 : <<b, b - s.op.start>> \notin s.moved}

LEMMA SpanMembers ==
  ASSUME NEW from \in Int, NEW to \in Int, NEW length \in Int, NEW b \in Int, NEW c \in Int
  PROVE  <<b, c>> \in Span(from, to, length) <=> b - from = c - to /\ b - from \in 0 .. length - 1
<1>1. ASSUME <<b, c>> \in Span(from, to, length)
      PROVE  b - from = c - to /\ b - from \in 0 .. length - 1
  <2>1. PICK i \in 0 .. length - 1 : <<b, c>> = <<from + i, to + i>>
    BY <1>1 DEF Span
  <2>2. b = from + i /\ c = to + i
    BY <2>1
  <2> QED
    BY <2>2
<1>2. ASSUME b - from = c - to, b - from \in 0 .. length - 1
      PROVE  <<b, c>> \in Span(from, to, length)
  <2> DEFINE i == b - from
  <2>1. b = from + i /\ c = to + i /\ i \in 0 .. length - 1
    BY <1>2
  <2> HIDE DEF i
  <2> QED
    BY <2>1 DEF Span
<1> QED
  BY <1>1, <1>2

\* Two transfers of which one goes on where the other ended are one.
LEMMA SpanJoined ==
  ASSUME NEW from \in Nat, NEW d \in Nat, NEW length \in Nat
  PROVE  Span(from, 0, d) \cup Span(from + d, d, length) = Span(from, 0, d + length)
<1>1. ASSUME NEW i \in 0 .. d - 1
      PROVE  <<from + i, 0 + i>> \in Span(from, 0, d + length)
  BY <1>1 DEF Span
<1>2. ASSUME NEW i \in 0 .. length - 1
      PROVE  <<(from + d) + i, d + i>> \in Span(from, 0, d + length)
  BY SpanMembers
<1>3. ASSUME NEW i \in 0 .. d + length - 1
      PROVE  <<from + i, 0 + i>> \in Span(from, 0, d) \cup Span(from + d, d, length)
  <2>1. CASE i < d
    BY <2>1, SpanMembers
  <2>2. CASE i >= d
    BY <2>2, SpanMembers
  <2> QED
    BY <2>1, <2>2
<1>4. Span(from, 0, d) \subseteq Span(from, 0, d + length)
  BY <1>1 DEF Span
<1>5. Span(from + d, d, length) \subseteq Span(from, 0, d + length)
  BY <1>2 DEF Span
<1>6. Span(from, 0, d + length) \subseteq Span(from, 0, d) \cup Span(from + d, d, length)
  <2> SUFFICES ASSUME NEW m \in Span(from, 0, d + length)
      PROVE  m \in Span(from, 0, d) \cup Span(from + d, d, length)
    OBVIOUS
  <2>1. PICK i \in 0 .. d + length - 1 : m = <<from + i, 0 + i>>
    BY DEF Span
  <2> QED
    BY <1>3, <2>1
<1> QED
  BY <1>4, <1>5, <1>6

\* What an instance has still to do are the bytes from Done on.
LEMMA RestIs ==
  ASSUME NEW s, Works(s), s.state # "IDLE"
  PROVE  /\ s.op \in operation /\ s.op.len > 0 /\ Done(s) \in 0 .. s.op.len
         /\ Rest(s) = s.op.start + Done(s) .. s.op.start + s.op.len - 1
<1>1. s.op \in operation /\ s.op.len \in Nat \ {0} /\ s.op.start \in Nat
  BY OperationTyped, EepromAssumption DEF Works, operation, EepromAssumption
<1>2. Done(s) \in 0 .. s.op.len
  BY <1>1, ChunkInside DEF Done, Works
<1>3. \A b \in Int : <<b, b - s.op.start>> \in s.moved <=> b - s.op.start \in 0 .. Done(s) - 1
  BY <1>1, <1>2, SpanMembers DEF Works
<1>4. Rest(s) = {b \in s.op.start .. s.op.start + s.op.len - 1 : b - s.op.start \notin 0 .. Done(s) - 1}
  BY <1>1, <1>3 DEF Rest, End
<1> QED
  BY <1>1, <1>2, <1>4

\* A call of rw_exe changes nothing of what is to be done, ends an operation of
\* which nothing is left, or transfers some bytes, of a write within a page.
Same(i, s) == s.state = i.state /\ Rest(s) = Rest(i)
Ends(i, s) == s.state = "IDLE" /\ i.state # "IDLE" /\ Rest(i) = {}
Transfers(i, s) ==
  /\ s.state = i.state /\ i.state # "IDLE"
  /\ Rest(s) \subseteq Rest(i) /\ Rest(s) # Rest(i)
  /\ i.op.rw = 0 => \A b1, b2 \in Rest(i) \ Rest(s) : b1 \div PAGE_SIZE = b2 \div PAGE_SIZE

LEMMA RwWorks ==
  ASSUME NEW i, Works(i), NEW taken \in BOOLEAN,
         i = [state |-> i.state, op |-> i.op, n |-> i.n, datasent |-> i.datasent,
              moved |-> i.moved]
  PROVE  /\ Works(rw_exe(i, taken)) /\ rw_exe(i, taken).op = i.op
         /\ \/ Same(i, rw_exe(i, taken)) \/ Ends(i, rw_exe(i, taken))
            \/ Transfers(i, rw_exe(i, taken))
<1> DEFINE s == rw_exe(i, taken)
<1> SUFFICES Works(s) /\ s.op = i.op /\ (Same(i, s) \/ Ends(i, s) \/ Transfers(i, s))
  OBVIOUS
<1>1. CASE i.state = "WRITE" /\ Chunk(i.op, i.n) = "OK" /\ i.datasent = 1
  <2>1. s = [i EXCEPT !.n = @ + 1, !.datasent = 0]
    BY <1>1 DEF rw_exe
  <2> HIDE DEF s
  <2>2. /\ s.state = "WRITE" /\ s.op = i.op /\ s.n = i.n + 1 /\ s.datasent = 0 /\ s.moved = i.moved
    BY <1>1, <2>1
  <2>3. i.op \in operation /\ i.op.len > 0 /\ i.n \in Nat
    BY <1>1, RestIs DEF Works
  <2>4. Chunk(s.op, s.n) # "ERROR" /\ Done(s) = Done(i)
    <3>1. /\ Chunk(i.op, i.n + 1) # "ERROR"
          /\ ChunkBuffer(i.op, i.n + 1) = ChunkBuffer(i.op, i.n) + ChunkLength(i.op, i.n)
      BY <1>1, <2>3, ChunkNext
    <3>2. ChunkBuffer(i.op, i.n + 1) \in Int
      BY <2>3, ChunkNumbers
    <3> QED
      BY <1>1, <2>2, <3>1, <3>2 DEF Done
  <2>5. Works(s)
    BY <1>1, <2>2, <2>3, <2>4 DEF Works
  <2>6. Same(i, s)
    BY <1>1, <2>2 DEF Same, Rest
  <2> QED
    BY <2>2, <2>5, <2>6
<1>2. CASE i.state = "WRITE" /\ Chunk(i.op, i.n) = "END" /\ i.datasent = 1
  <2>1. s = Idle(i)
    BY <1>2 DEF rw_exe
  <2> HIDE DEF s
  <2>2. /\ s.state = "IDLE" /\ s.op = i.op /\ s.n = 0 /\ s.datasent = 0
    BY <2>1 DEF Idle
  <2>3. Done(i) = i.op.len
    BY <1>2, ChunkEnd, RestIs DEF Works, Done
  <2>4. Ends(i, s)
    BY <1>2, <2>2, <2>3, RestIs DEF Ends, operation
  <2> QED
    BY <2>2, <2>4 DEF Works
<1>3. CASE i.state = "READ" /\ i.datasent = 1
  <2>1. s = Idle(i)
    BY <1>3 DEF rw_exe
  <2> HIDE DEF s
  <2>2. /\ s.state = "IDLE" /\ s.op = i.op /\ s.n = 0 /\ s.datasent = 0
    BY <2>1 DEF Idle
  <2>3. Done(i) = i.op.len
    BY <1>3 DEF Done
  <2>4. Ends(i, s)
    BY <1>3, <2>2, <2>3, RestIs DEF Ends, operation
  <2> QED
    BY <2>2, <2>4 DEF Works
<1>4. CASE i.state = "WRITE" /\ Chunk(i.op, i.n) # "ERROR" /\ i.datasent = 0 /\ taken
  <2> DEFINE from == ChunkStart(i.op, i.n)
             d == ChunkBuffer(i.op, i.n)
             length == ChunkLength(i.op, i.n)
  <2>1. s = Sent(i, from, d, length)
    BY <1>4 DEF rw_exe
  <2> HIDE DEF s
  <2>2. /\ s.state = "WRITE" /\ s.op = i.op /\ s.n = i.n /\ s.datasent = 1
        /\ s.moved = i.moved \cup Span(from, d, length)
    BY <1>4, <2>1, SentFields
  <2>3. /\ i.op \in operation /\ i.op.len > 0 /\ i.n \in Nat
        /\ i.op.start \in Nat /\ i.op.len \in Nat
    BY <1>4, RestIs DEF Works, operation
  <2>4. /\ from \in Int /\ from = i.op.start + d /\ d \in Nat /\ length \in Nat \ {0}
        /\ d + length <= i.op.len
    <3>1. from \in Int
      BY <2>3, ChunkNumbers
    <3>2. from - i.op.start = d /\ d \in Nat /\ length \in Nat /\ d + length <= i.op.len
      BY <1>4, <2>3, ChunkInside
    <3>3. length > 0
      BY <1>4, <2>3, ChunkNotEmpty
    <3> QED
      BY <2>3, <3>1, <3>2, <3>3
  <2>5. Done(i) = d /\ Done(s) = d + length
    BY <1>4, <2>2, <2>4 DEF Done
  <2>6. \E page \in Nat : \A x \in 0 .. length - 1 : (from + x) \div PAGE_SIZE = page
    BY <1>4, <2>3, ChunkInPage
  <2> HIDE DEF from, d, length
  <2>7. s.moved = Span(s.op.start, 0, Done(s))
    BY <1>4, <2>2, <2>3, <2>4, <2>5, SpanJoined DEF Works
  <2>8. Works(s)
    BY <1>4, <2>2, <2>7 DEF Works
  <2>9. /\ Rest(i) = i.op.start + d .. i.op.start + i.op.len - 1
        /\ Rest(s) = i.op.start + (d + length) .. i.op.start + i.op.len - 1
    BY <1>4, <2>2, <2>5, <2>8, RestIs
  <2>10. Transfers(i, s)
    <3>1. i.op.start + d \in Rest(i) /\ i.op.start + d \notin Rest(s) /\ Rest(s) \subseteq Rest(i)
      BY <2>3, <2>4, <2>9
    <3>2. \A b \in Rest(i) \ Rest(s) : \E x \in 0 .. length - 1 : b = from + x
      <4> SUFFICES ASSUME NEW b \in Rest(i) \ Rest(s) PROVE \E x \in 0 .. length - 1 : b = from + x
        OBVIOUS
      <4> DEFINE st == i.op.start
      <4>1. st \in Nat /\ from = st + d
        BY <2>3, <2>4
      <4>2. b \in Int /\ b >= st + d /\ ~(b >= st + (d + length))
        BY <2>3, <2>4, <2>9
      <4> HIDE DEF st
      <4>3. b - from \in 0 .. length - 1 /\ b = from + (b - from)
        BY <2>4, <4>1, <4>2
      <4> QED
        BY <4>3
    <3> QED
      BY <1>4, <2>2, <2>6, <3>1, <3>2 DEF Transfers
  <2> QED
    BY <2>2, <2>8, <2>10
<1>5. CASE i.state = "READ" /\ i.datasent = 0 /\ taken
  <2>1. s = Sent(i, i.op.start, 0, i.op.len)
    BY <1>5 DEF rw_exe
  <2> HIDE DEF s
  <2>2. /\ s.state = "READ" /\ s.op = i.op /\ s.n = i.n /\ s.datasent = 1
        /\ s.moved = i.moved \cup Span(i.op.start, 0, i.op.len)
    BY <1>5, <2>1, SentFields
  <2>3. /\ i.op \in operation /\ i.op.len \in Nat \ {0} /\ i.op.start \in Nat /\ i.op.rw = 1
    BY <1>5, RestIs DEF Works, operation
  <2>4. Done(i) = 0 /\ Done(s) = i.op.len
    BY <1>5, <2>2 DEF Done
  <2>5. s.moved = Span(s.op.start, 0, Done(s))
    BY <1>5, <2>2, <2>3, <2>4, SpanJoined DEF Works
  <2>6. Works(s)
    BY <1>5, <2>2, <2>5 DEF Works
  <2>7. /\ Rest(i) = i.op.start .. i.op.start + i.op.len - 1
        /\ Rest(s) = i.op.start + i.op.len .. i.op.start + i.op.len - 1
    BY <1>5, <2>2, <2>3, <2>4, <2>6, RestIs
  <2>8. Transfers(i, s)
    BY <1>5, <2>2, <2>3, <2>7 DEF Transfers
  <2> QED
    BY <2>2, <2>6, <2>8
<1>6. CASE s = i
  BY <1>6 DEF Same
<1> QED
  <2>1. \/ s = i
        \/ i.state = "WRITE" /\ Chunk(i.op, i.n) = "OK" /\ i.datasent = 1
        \/ i.state = "WRITE" /\ Chunk(i.op, i.n) = "END" /\ i.datasent = 1
        \/ i.state = "READ" /\ i.datasent = 1
        \/ i.state = "WRITE" /\ Chunk(i.op, i.n) # "ERROR" /\ i.datasent = 0 /\ taken
        \/ i.state = "READ" /\ i.datasent = 0 /\ taken
    BY DEF rw_exe
  <2> QED
    BY <1>1, <1>2, <1>3, <1>4, <1>5, <1>6, <2>1

-----------------------------------------------------------------------------
\* The ring: where the writer is, what the main loop is about to do, and which
\* slots are filled.
Wrap(x) == IF x < MAX THEN x ELSE x - MAX
Number == count - Begun - Unfilled

Ring ==
  /\ count \in 0 .. MAX
  /\ IF pc[0] = "count" THEN count > 0 /\ reg[0] = count /\ write_ptr = Wrap(read_ptr + count - 1)
                        ELSE write_ptr = Wrap(read_ptr + count)
  /\ pc[0] = "claim" => reg[0] = write_ptr /\ count < MAX
  /\ pc[0] \in {"claim", "fill"} => arg[0] \in Operation
  /\ pc[0] \in {"advance", "fill"} => count > 0
  /\ \A i \in 1 .. Number : buff[Wrap(read_ptr + Passed + i)] \in Operation

QueueInv == TypedInv /\ Ring /\ Works(Instance)

LEMMA WrapIsMod == \A x \in 0 .. 2 * MAX - 1 : x % MAX = Wrap(x) /\ Wrap(x) \in Index
<1>1. MAX \in Nat \ {0}
  BY EepromAssumption DEF EepromAssumption
<1> HIDE DEF MAX
<1>2. \A x \in 0 .. MAX - 1 : x % MAX = x
  BY <1>1
<1>3. \A x \in MAX .. 2 * MAX - 1 : x % MAX = x - MAX
  BY <1>1
<1> QED
  BY <1>1, <1>2, <1>3 DEF Wrap, Index

LEMMA NumberIs ==
  ASSUME Level = {0}, Typed
  PROVE  /\ \A here : At(0, here) <=> pc[0] = here
         /\ Begun = IF pc[0] \in {"advance", "count"} THEN 1 ELSE 0
         /\ Passed = IF pc[0] = "advance" THEN 1 ELSE 0
         /\ Unfilled = IF pc[0] = "fill" THEN 1 ELSE 0
         /\ pc[0] \in {"idle", "claim", "fill", "advance", "count"}
  BY DEF At, Running, Begun, Passed, Unfilled, Typed

Numbers ==
  /\ Begun = IF pc[0] \in {"advance", "count"} THEN 1 ELSE 0
  /\ Passed = IF pc[0] = "advance" THEN 1 ELSE 0
  /\ Unfilled = IF pc[0] = "fill" THEN 1 ELSE 0

LEMMA NumbersHold == Level = {0} /\ Typed => Numbers
  BY NumberIs DEF Numbers

LEMMA NumbersNext == Level = {0} /\ Typed' => Numbers'
<1>1. (Level = {0} /\ Typed => Numbers)'
  BY NumbersHold, PTL
<1> QED
  BY <1>1

\* Taking from and adding to a sequence that is given as a function.
LEMMA Taken ==
  ASSUME NEW N \in Nat \ {0}, NEW f \in [1 .. N -> operation],
         NEW g \in [1 .. N - 1 -> operation], \A i \in 1 .. N - 1 : g[i] = f[i + 1]
  PROVE  f # <<>> /\ Head(f) = f[1] /\ Tail(f) = g
<1>1. f \in Seq(operation) /\ g \in Seq(operation)
  <2>1. N \in Nat /\ N - 1 \in Nat
    OBVIOUS
  <2> QED
    BY <2>1, SeqDef
<1>2. Len(f) = N /\ Len(g) = N - 1
  BY <1>1, LenProperties
<1>3. f # <<>>
  BY <1>1, <1>2, EmptySeq
<1>4. Tail(f) \in Seq(operation) /\ Len(Tail(f)) = N - 1 /\ \A i \in 1 .. N - 1 : Tail(f)[i] = f[i + 1]
  BY <1>1, <1>2, <1>3, HeadTailProperties
<1>5. Tail(f) = g
  BY <1>1, <1>2, <1>4, SeqEqual
<1> QED
  BY <1>1, <1>3, <1>5

LEMMA Added ==
  ASSUME NEW N \in Nat, NEW f \in [1 .. N -> operation], NEW e \in operation,
         NEW g \in [1 .. N + 1 -> operation], \A i \in 1 .. N : g[i] = f[i], g[N + 1] = e
  PROVE  Append(f, e) = g /\ Len(f) = N
<1>1. f \in Seq(operation) /\ g \in Seq(operation)
  BY SeqDef
<1>2. Len(f) = N /\ Len(g) = N + 1
  BY <1>1, LenProperties
<1>3. Append(f, e) \in Seq(operation) /\ Len(Append(f, e)) = N + 1
      /\ \A i \in 1 .. N + 1 : Append(f, e)[i] = IF i <= N THEN f[i] ELSE e
  BY <1>1, <1>2
<1> QED
  BY <1>1, <1>2, <1>3, SeqEqual

\* The queue as its users see it, in terms of the ring.
Seen ==
  /\ Number \in 0 .. MAX /\ Waiting \in [1 .. Number -> operation]
  /\ \A i \in 1 .. Number : Waiting[i] = buff[Wrap(read_ptr + Passed + i)] /\ Waiting[i] \in Operation

LEMMA SlotIs ==
  ASSUME Level = {0}, QueueInv, NEW i \in 1 .. Number
  PROVE  read_ptr + Passed + i \in 0 .. 2 * MAX - 1
BY NumberIs, EepromAssumption
   DEF QueueInv, TypedInv, Ring, Typed, Number, Index, EepromAssumption

LEMMA WaitingIs == Level = {0} /\ QueueInv => Seen
<1> SUFFICES ASSUME Level = {0}, QueueInv PROVE Seen
  OBVIOUS
<1>1. Number \in 0 .. MAX
  BY NumberIs, EepromAssumption DEF QueueInv, TypedInv, Ring, Number, EepromAssumption
<1>2. Waiting = [i \in 1 .. Number |-> buff[(read_ptr + Passed + i) % MAX]]
  BY DEF Waiting, Number, Slot
<1>3. ASSUME NEW i \in 1 .. Number
      PROVE  Waiting[i] = buff[Wrap(read_ptr + Passed + i)] /\ Waiting[i] \in Operation
  <2>1. (read_ptr + Passed + i) % MAX = Wrap(read_ptr + Passed + i)
    BY SlotIs, WrapIsMod
  <2> QED
    BY <1>2, <2>1 DEF QueueInv, Ring
<1>4. Waiting \in [1 .. Number -> operation]
  BY <1>2, <1>3, OperationTyped
<1> QED
  BY <1>1, <1>3, <1>4 DEF Seen

LEMMA SeenNext == Level = {0} /\ QueueInv' => Seen'
<1>1. (Level = {0} /\ QueueInv => Seen)'
  BY WaitingIs, PTL
<1> QED
  BY <1>1

\* What the abstract queue sees, and that it sees no change or a step of its own.
Performing == IF state = "IDLE" THEN [rw |-> 2, start |-> 0, len |-> 0] ELSE op
View == <<Waiting, Performing, Todo>>
Simulated == Fifo!Next \/ UNCHANGED View

LEMMA InstanceSame ==
  ASSUME UNCHANGED instance
  PROVE  Instance' = Instance /\ UNCHANGED <<Performing, Todo>> /\ (Works(Instance) => Works(Instance)')
<1>1. Instance' = Instance
  BY DEF instance, Instance
<1>2. UNCHANGED <<Performing, Todo>>
  BY DEF instance, Performing, Todo, End
<1> QED
  BY <1>1, <1>2

LEMMA Extensional ==
  ASSUME NEW D, NEW R, NEW f \in [D -> R], NEW g \in [D -> R], \A i \in D : f[i] = g[i]
  PROVE  f = g
  OBVIOUS

LEMMA WaitingSame ==
  ASSUME Level = {0}, QueueInv, QueueInv', Number' = Number,
         \A i \in 1 .. Number : buff'[Wrap(read_ptr' + Passed' + i)] = buff[Wrap(read_ptr + Passed + i)]
  PROVE  Waiting' = Waiting
<1>1. Seen /\ Seen'
  BY WaitingIs, SeenNext
<1>2. /\ Waiting \in [1 .. Number -> operation] /\ Waiting' \in [1 .. Number -> operation]
      /\ \A i \in 1 .. Number : Waiting[i] = buff[Wrap(read_ptr + Passed + i)]
      /\ \A i \in 1 .. Number : Waiting'[i] = buff'[Wrap(read_ptr' + Passed' + i)]
  BY <1>1 DEF Seen
<1>3. \A i \in 1 .. Number : Waiting'[i] = Waiting[i]
  BY <1>2
<1> DEFINE D == 1 .. Number
           w == Waiting
           v == Waiting'
<1>4. w \in [D -> operation] /\ v \in [D -> operation] /\ \A i \in D : w[i] = v[i]
  BY <1>2, <1>3
<1> HIDE DEF D, w, v
<1>5. w = v
  BY <1>4, Extensional
<1> QED
  BY <1>5 DEF w, v

LEMMA AdvanceSimulated ==
  ASSUME Level = {0}, QueueInv, Advance
  PROVE  QueueInv' /\ Simulated
<1>1. /\ pc[0] = "advance" /\ pc'[0] = "count" /\ reg'[0] = count
      /\ read_ptr' = Succ(read_ptr) /\ UNCHANGED <<buff, write_ptr, count, instance, arg>>
  BY NumberIs DEF Advance, QueueInv, TypedInv, Typed
<1>2. TypedInv'
  BY TypedQueue DEF QueueInv
<1>3. Number = count - 1 /\ Number' = count - 1 /\ Passed = 1 /\ Passed' = 0
  <2>1. Numbers /\ Numbers'
    BY <1>2, NumbersHold, NumbersNext DEF QueueInv, TypedInv
  <2> QED
    BY <1>1, <2>1 DEF Number, Numbers, QueueInv, Ring
<1>4. MAX \in Nat \ {0} /\ count \in 1 .. MAX /\ read_ptr \in 0 .. MAX - 1
  BY <1>1, EepromAssumption DEF QueueInv, TypedInv, Typed, Ring, Index, EepromAssumption
<1> HIDE DEF MAX
<1>5. \A i \in 0 .. count - 1 : Wrap(read_ptr' + i) = Wrap(read_ptr + 1 + i)
  BY <1>1, <1>4 DEF Succ, Wrap
<1>6. Ring'
  <2>1. write_ptr' = Wrap(read_ptr' + count' - 1)
    <3>1. write_ptr = Wrap(read_ptr + count)
      BY <1>1 DEF QueueInv, Ring
    <3>2. read_ptr' \in Int
      BY <1>1, <1>4 DEF Succ
    <3>3. Wrap(read_ptr' + (count - 1)) = Wrap(read_ptr + 1 + (count - 1))
      BY <1>4, <1>5
    <3>4. read_ptr' + (count - 1) = read_ptr' + count - 1 /\ read_ptr + 1 + (count - 1) = read_ptr + count
      BY <1>4, <3>2
    <3> QED
      BY <1>1, <3>1, <3>3, <3>4
  <2>2. \A i \in 1 .. Number' : buff'[Wrap(read_ptr' + Passed' + i)] \in Operation
    <3>1. read_ptr' \in Int
      BY <1>1, <1>4 DEF Succ
    <3>2. \A i \in 1 .. count - 1 : Wrap(read_ptr' + 0 + i) = Wrap(read_ptr + 1 + i)
      BY <1>4, <1>5, <3>1
    <3>3. \A i \in 1 .. count - 1 : buff[Wrap(read_ptr + 1 + i)] \in Operation
      BY <1>3 DEF QueueInv, Ring
    <3> QED
      BY <1>1, <1>3, <3>2, <3>3
  <2> QED
    BY <1>1, <1>4, <2>1, <2>2 DEF QueueInv, Ring
<1>7. QueueInv'
  BY <1>1, <1>2, <1>6, InstanceSame DEF QueueInv
<1>8. Waiting' = Waiting
  <2>1. read_ptr' \in Int
    BY <1>1, <1>4 DEF Succ
  <2>2. \A i \in 1 .. Number :
          buff'[Wrap(read_ptr' + Passed' + i)] = buff[Wrap(read_ptr + Passed + i)]
    BY <1>1, <1>3, <1>4, <1>5, <2>1
  <2> QED
    BY <1>3, <1>7, <2>2, WaitingSame
<1> QED
  BY <1>1, <1>7, <1>8, InstanceSame DEF Simulated, View

LEMMA CountDownSimulated ==
  ASSUME Level = {0}, QueueInv, CountDown
  PROVE  QueueInv' /\ Simulated
<1>1. /\ pc[0] = "count" /\ pc'[0] = "idle" /\ count' = reg[0] - 1
      /\ UNCHANGED <<buff, read_ptr, write_ptr, instance, arg, reg>>
  BY NumberIs DEF CountDown, QueueInv, TypedInv, Typed
<1>2. TypedInv'
  BY TypedQueue DEF QueueInv
<1>3. MAX \in Nat \ {0} /\ count \in 1 .. MAX /\ read_ptr \in Nat /\ reg[0] = count
  BY <1>1, EepromAssumption DEF QueueInv, TypedInv, Typed, Ring, Index, EepromAssumption
<1>4. Number = count - 1 /\ Number' = count - 1 /\ Passed = 0 /\ Passed' = 0
  <2>1. Numbers /\ Numbers'
    BY <1>2, NumbersHold, NumbersNext DEF QueueInv, TypedInv
  <2> QED
    BY <1>1, <1>3, <2>1 DEF Number, Numbers
<1> HIDE DEF MAX
<1>5. Ring'
  <2>1. write_ptr = Wrap(read_ptr + count - 1) /\ read_ptr + count - 1 = read_ptr + (count - 1)
    BY <1>1, <1>3 DEF QueueInv, Ring
  <2>2. \A i \in 1 .. Number' : buff'[Wrap(read_ptr' + Passed' + i)] \in Operation
    BY <1>1, <1>4 DEF QueueInv, Ring
  <2> QED
    BY <1>1, <1>3, <2>1, <2>2 DEF Ring
<1>6. QueueInv'
  BY <1>1, <1>2, <1>5, InstanceSame DEF QueueInv
<1>7. Waiting' = Waiting
  BY <1>1, <1>4, <1>6, WaitingSame
<1> QED
  BY <1>1, <1>6, <1>7, InstanceSame DEF Simulated, View

LEMMA ClaimSimulated ==
  ASSUME Level = {0}, QueueInv, Claim(0)
  PROVE  QueueInv' /\ Simulated
<1>1. /\ pc[0] = "idle" /\ pc'[0] = "claim" /\ count < MAX /\ reg'[0] = write_ptr
      /\ arg'[0] \in Operation /\ UNCHANGED <<buff, read_ptr, write_ptr, count, instance>>
  BY NumberIs DEF Claim, QueueInv, TypedInv, Typed, ring
<1>2. TypedInv'
  BY TypedQueue DEF QueueInv
<1>3. Number' = Number /\ Passed' = Passed
  <2>1. Numbers /\ Numbers'
    BY <1>2, NumbersHold, NumbersNext DEF QueueInv, TypedInv
  <2> QED
    BY <1>1, <2>1 DEF Number, Numbers
<1> HIDE DEF MAX
<1>4. Ring'
  BY <1>1, <1>3 DEF QueueInv, Ring
<1>5. QueueInv'
  BY <1>1, <1>2, <1>4, InstanceSame DEF QueueInv
<1>6. Waiting' = Waiting
  BY <1>1, <1>3, <1>5, WaitingSame
<1> QED
  BY <1>1, <1>5, <1>6, InstanceSame DEF Simulated, View

LEMMA ClaimedSimulated ==
  ASSUME Level = {0}, QueueInv, Claimed(0)
  PROVE  QueueInv' /\ Simulated
<1>1. /\ pc[0] = "claim" /\ pc'[0] = "fill" /\ count' = count + 1 /\ write_ptr' = Succ(reg[0])
      /\ UNCHANGED <<buff, read_ptr, instance, arg, reg>>
  BY NumberIs DEF Claimed, QueueInv, TypedInv, Typed
<1>2. TypedInv'
  BY TypedQueue DEF QueueInv
<1>3. /\ MAX \in Nat \ {0} /\ count \in 0 .. MAX - 1 /\ read_ptr \in 0 .. MAX - 1
      /\ reg[0] = Wrap(read_ptr + count) /\ arg[0] \in Operation
  BY <1>1, EepromAssumption DEF QueueInv, TypedInv, Typed, Ring, Index, EepromAssumption
<1>4. Number = count /\ Number' = count /\ Passed = 0 /\ Passed' = 0
  <2>1. Numbers /\ Numbers'
    BY <1>2, NumbersHold, NumbersNext DEF QueueInv, TypedInv
  <2> QED
    BY <1>1, <1>3, <2>1 DEF Number, Numbers
<1> HIDE DEF MAX
<1>5. Ring'
  <2>1. Succ(Wrap(read_ptr + count)) = Wrap(read_ptr + (count + 1))
    BY <1>3 DEF Succ, Wrap
  <2>2. \A i \in 1 .. Number' : buff'[Wrap(read_ptr' + Passed' + i)] \in Operation
    BY <1>1, <1>4 DEF QueueInv, Ring
  <2>3. count' \in 1 .. MAX
    BY <1>1, <1>3
  <2> QED
    BY <1>1, <1>3, <2>1, <2>2, <2>3 DEF Ring
<1>6. QueueInv'
  BY <1>1, <1>2, <1>5, InstanceSame DEF QueueInv
<1>7. Waiting' = Waiting
  BY <1>1, <1>4, <1>6, WaitingSame
<1> QED
  BY <1>1, <1>6, <1>7, InstanceSame DEF Simulated, View

\* The operation is in the queue as soon as its slot is filled.
LEMMA FillSimulated ==
  ASSUME Level = {0}, QueueInv, Fill(0)
  PROVE  QueueInv' /\ Simulated
<1> DEFINE o == arg[0]
<1>1. /\ pc[0] = "fill" /\ pc'[0] = "idle" /\ buff' = [buff EXCEPT ![write_ptr] = o]
      /\ UNCHANGED <<read_ptr, write_ptr, count, instance, arg, reg>>
  BY NumberIs DEF Fill, QueueInv, TypedInv, Typed
<1>2. TypedInv'
  BY TypedQueue DEF QueueInv
<1>3. /\ MAX \in Nat \ {0} /\ count \in 1 .. MAX /\ read_ptr \in 0 .. MAX - 1
      /\ write_ptr = Wrap(read_ptr + count) /\ o \in Operation /\ write_ptr \in Index
      /\ buff \in [Index -> operation] /\ o \in operation
  BY <1>1, EepromAssumption, OperationTyped
     DEF QueueInv, TypedInv, Typed, Ring, Index, EepromAssumption
<1>4. Number = count - 1 /\ Number' = count /\ Passed = 0 /\ Passed' = 0
  <2>1. Numbers /\ Numbers'
    BY <1>2, NumbersHold, NumbersNext DEF QueueInv, TypedInv
  <2> QED
    BY <1>1, <1>3, <2>1 DEF Number, Numbers
<1> HIDE DEF MAX, o
<1>5. buff'[Wrap(read_ptr + count)] = o
  BY <1>1, <1>3
<1>6. \A i \in 1 .. count - 1 : buff'[Wrap(read_ptr + i)] = buff[Wrap(read_ptr + i)]
  <2>1. \A i \in 1 .. count - 1 : Wrap(read_ptr + i) # Wrap(read_ptr + count)
    BY <1>3 DEF Wrap
  <2>2. \A i \in 1 .. count - 1 : Wrap(read_ptr + i) \in Index
    BY <1>3 DEF Wrap, Index
  <2> QED
    BY <1>1, <1>3, <2>1, <2>2
<1>7. Ring'
  <2>1. \A i \in 1 .. count - 1 : buff[Wrap(read_ptr + i)] \in Operation
    <3>1. \A i \in 1 .. count - 1 : buff[Wrap(read_ptr + 0 + i)] \in Operation
      BY <1>4 DEF QueueInv, Ring
    <3> QED
      BY <1>3, <3>1
  <2>2. \A i \in 1 .. count : buff'[Wrap(read_ptr + i)] \in Operation
    <3> SUFFICES ASSUME NEW i \in 1 .. count PROVE buff'[Wrap(read_ptr + i)] \in Operation
      OBVIOUS
    <3>1. CASE i = count
      BY <1>3, <1>5, <3>1
    <3>2. CASE i # count
      BY <1>3, <1>6, <2>1, <3>2
    <3> QED
      BY <3>1, <3>2
  <2>3. \A i \in 1 .. Number' : buff'[Wrap(read_ptr' + Passed' + i)] \in Operation
    <3>1. \A i \in 1 .. count : read_ptr + 0 + i = read_ptr + i
      BY <1>3
    <3> QED
      BY <1>1, <1>4, <2>2, <3>1
  <2> QED
    BY <1>1, <1>3, <2>3 DEF Ring
<1>8. QueueInv'
  BY <1>1, <1>2, <1>7, InstanceSame DEF QueueInv
<1>9. Append(Waiting, o) = Waiting' /\ Len(Waiting) = count - 1
  <2>1. Seen /\ Seen'
    BY <1>8, WaitingIs, SeenNext
  <2>2. /\ Waiting \in [1 .. count - 1 -> operation] /\ Waiting' \in [1 .. count -> operation]
        /\ \A i \in 1 .. count - 1 : Waiting[i] = buff[Wrap(read_ptr + 0 + i)]
        /\ \A i \in 1 .. count : Waiting'[i] = buff'[Wrap(read_ptr + 0 + i)]
    BY <1>1, <1>4, <2>1 DEF Seen
  <2>3. \A i \in 1 .. count : read_ptr + 0 + i = read_ptr + i
    BY <1>3
  <2>4. /\ \A i \in 1 .. count - 1 : Waiting'[i] = Waiting[i]
        /\ Waiting'[count] = o
    <3>1. \A i \in 1 .. count - 1 : i \in 1 .. count
      BY <1>3
    <3>2. \A i \in 1 .. count - 1 : /\ Waiting[i] = buff[Wrap(read_ptr + i)]
                                   /\ Waiting'[i] = buff'[Wrap(read_ptr + i)]
      BY <2>2, <2>3, <3>1
    <3>3. count \in 1 .. count
      BY <1>3
    <3>4. Waiting'[count] = buff'[Wrap(read_ptr + count)]
      BY <2>2, <2>3, <3>3
    <3> QED
      BY <1>5, <1>6, <3>2, <3>4
  <2> DEFINE w == Waiting
             v == Waiting'
             N == count - 1
  <2>5. /\ N \in Nat /\ w \in [1 .. N -> operation] /\ v \in [1 .. N + 1 -> operation]
        /\ (\A i \in 1 .. N : v[i] = w[i]) /\ v[N + 1] = o
    BY <1>3, <2>2, <2>4
  <2> HIDE DEF w, v, N
  <2>6. Append(w, o) = v /\ Len(w) = N
    BY <1>3, <2>5, Added
  <2> QED
    BY <2>6 DEF w, v, N
<1>10. Fifo!Schedule(o)
  <2>1. Len(Waiting) < MAX
    BY <1>3, <1>9
  <2>2. UNCHANGED <<Performing, Todo>>
    BY <1>1, InstanceSame
  <2> QED
    BY <1>9, <2>1, <2>2 DEF Fifo!Schedule, Performing
<1> QED
  BY <1>3, <1>8, <1>10 DEF Simulated, Fifo!Next

\* An operation that begins has all of its bytes to transfer.
LEMMA StartWorks ==
  ASSUME NEW s, Works(s), s.state = "IDLE", NEW o \in Operation,
         s = [state |-> s.state, op |-> s.op, n |-> s.n, datasent |-> s.datasent,
              moved |-> s.moved]
  PROVE  /\ Works(Started(s, o)) /\ Started(s, o).op = o /\ Started(s, o).state # "IDLE"
         /\ Rest(Started(s, o)) = o.start .. o.start + o.len - 1
<1> DEFINE t == Started(s, o)
<1>1. /\ t.state = IF o.rw = 1 THEN "READ" ELSE "WRITE"
      /\ t.op = o /\ t.n = 0 /\ t.datasent = s.datasent /\ t.moved = {}
  BY DEF Started
<1> HIDE DEF t
<1>2. o \in operation /\ o.len > 0 /\ o.rw \in {0, 1} /\ o.start \in Nat /\ o.len \in Nat
  BY OperationTyped, EepromAssumption DEF operation, EepromAssumption
<1>3. Chunk(o, 0) # "ERROR" /\ ChunkBuffer(o, 0) = 0 /\ s.datasent = 0
  BY <1>2, ChunkFirst DEF Works
<1>4. Done(t) = 0
  BY <1>1, <1>2, <1>3 DEF Done
<1>5. Span(o.start, 0, 0) = {}
  BY DEF Span
<1>6. Works(t)
  BY <1>1, <1>2, <1>3, <1>4, <1>5 DEF Works
<1>7. t.state # "IDLE"
  BY <1>1
<1>8. Rest(t) = o.start .. o.start + o.len - 1
  BY <1>1, <1>2, <1>4, <1>6, <1>7, RestIs
<1> QED
  BY <1>1, <1>6, <1>7, <1>8 DEF t

LEMMA HandlerSimulated ==
  ASSUME Level = {0}, QueueInv, NEW taken \in BOOLEAN, at24cxx_dynamic_handler(taken)
  PROVE  QueueInv' /\ Simulated
<1> DEFINE i == Instance
           s == rw_exe(i, taken)
           starts == count # 0 /\ s.state = "IDLE"
           o == buff[Succ(read_ptr)]
           t == Started(s, o)
<1>1. /\ pc[0] = "idle" /\ UNCHANGED <<buff, read_ptr, write_ptr, count, arg, reg>>
      /\ Becomes(IF starts THEN t ELSE s)
      /\ pc' = IF starts THEN [pc EXCEPT ![0] = "advance"] ELSE pc
  BY NumberIs DEF at24cxx_dynamic_handler, ring, QueueInv, TypedInv
<1>2. i = [state |-> i.state, op |-> i.op, n |-> i.n, datasent |-> i.datasent, moved |-> i.moved]
      /\ i.state = state /\ i.op = op /\ i.moved = moved
  BY DEF Instance
<1>3. Works(s) /\ s.op = i.op /\ (Same(i, s) \/ Ends(i, s) \/ Transfers(i, s))
  BY <1>2, RwWorks DEF QueueInv
<1>4. s = [state |-> s.state, op |-> s.op, n |-> s.n, datasent |-> s.datasent, moved |-> s.moved]
  BY <1>2, RwRecord
<1>5. TypedInv'
  BY TypedHandler DEF QueueInv
<1>6. Rest(i) = Todo
  BY <1>2 DEF Rest, Todo
<1>7. Instance' = [state |-> state', op |-> op', n |-> n', datasent |-> datasent', moved |-> moved']
      /\ Todo' = IF state' = "IDLE" THEN {}
                 ELSE {b \in op'.start .. End(op') - 1 : <<b, b - op'.start>> \notin moved'}
  BY DEF Instance, Todo
<1>8. /\ MAX \in Nat \ {0} /\ count \in 0 .. MAX /\ read_ptr \in 0 .. MAX - 1
      /\ Number = count /\ Passed = 0
  <2>1. Numbers
    BY NumbersHold DEF QueueInv, TypedInv
  <2> QED
    BY <1>1, <2>1, EepromAssumption
       DEF Numbers, Number, QueueInv, TypedInv, Typed, Ring, Index, EepromAssumption
<1>9. Performing # [rw |-> 2, start |-> 0, len |-> 0] <=> i.state # "IDLE"
  <2>1. ASSUME i.state # "IDLE" PROVE op.rw \in {0, 1}
    BY <1>2, <2>1, EepromAssumption DEF QueueInv, Works, EepromAssumption
  <2>2. [rw |-> 2, start |-> 0, len |-> 0].rw = 2
    OBVIOUS
  <2> QED
    BY <1>2, <2>1, <2>2 DEF Performing
<1> HIDE DEF s, MAX
<1>10. CASE ~starts
  <2>1. Instance' = s /\ state' = s.state /\ op' = s.op /\ moved' = s.moved /\ pc' = pc
    BY <1>1, <1>4, <1>7, <1>10 DEF Becomes
  <2>2. Number' = Number /\ Passed' = Passed
    <3>1. Numbers /\ Numbers'
      BY <1>5, NumbersHold, NumbersNext DEF QueueInv, TypedInv
    <3> QED
      BY <1>1, <2>1, <3>1 DEF Number, Numbers
  <2>3. Ring'
    BY <1>1, <2>1, <2>2 DEF QueueInv, Ring
  <2>4. QueueInv'
    BY <1>3, <1>5, <2>1, <2>3 DEF QueueInv
  <2>5. Waiting' = Waiting
    BY <1>1, <2>2, <2>4, WaitingSame
  <2>6. Todo' = Rest(s) /\ Performing' = IF s.state = "IDLE"
                                         THEN [rw |-> 2, start |-> 0, len |-> 0] ELSE s.op
    BY <1>7, <2>1 DEF Rest, Performing
  <2>7. CASE Same(i, s)
    <3>1. Todo' = Todo
      BY <1>6, <2>6, <2>7 DEF Same
    <3>2. Performing' = Performing
      BY <1>2, <1>3, <2>6, <2>7 DEF Same, Performing
    <3> QED
      BY <2>4, <2>5, <3>1, <3>2 DEF Simulated, View
  <2>8. CASE Ends(i, s)
    <3>1. Todo = {} /\ Todo' = {}
      BY <1>6, <2>6, <2>8 DEF Ends, Rest
    <3>2. Performing' = [rw |-> 2, start |-> 0, len |-> 0] /\ i.state # "IDLE"
      BY <2>6, <2>8 DEF Ends
    <3>3. Fifo!Finish
      BY <1>9, <2>5, <3>1, <3>2 DEF Fifo!Finish, Fifo!None, Performing
    <3> QED
      BY <2>4, <3>3 DEF Simulated, Fifo!Next
  <2>9. CASE Transfers(i, s)
    <3>1. Performing' = Performing /\ Performing = i.op
      BY <1>2, <1>3, <2>6, <2>9 DEF Transfers, Performing
    <3>2. /\ Todo' \subseteq Todo /\ Todo' # Todo
          /\ i.op.rw = 0 => \A b1, b2 \in Todo \ Todo' : b1 \div PAGE_SIZE = b2 \div PAGE_SIZE
      BY <1>6, <2>6, <2>9 DEF Transfers
    <3>3. Fifo!Transfer
      BY <2>5, <3>1, <3>2 DEF Fifo!Transfer, Fifo!Page, Performing
    <3> QED
      BY <2>4, <3>3 DEF Simulated, Fifo!Next
  <2> QED
    BY <1>3, <2>7, <2>8, <2>9
<1>11. CASE starts
  <2>1. o \in Operation /\ o = buff[Wrap(read_ptr + Passed + 1)] /\ count > 0
    <3>1. Succ(read_ptr) = Wrap(read_ptr + Passed + 1) /\ 1 \in 1 .. Number /\ count > 0
      BY <1>8, <1>11 DEF Succ, Wrap
    <3> QED
      BY <3>1 DEF QueueInv, Ring
  <2>2. Works(t) /\ t.op = o /\ t.state # "IDLE" /\ Rest(t) = o.start .. o.start + o.len - 1
    BY <1>3, <1>4, <1>11, <2>1, StartWorks
  <2> HIDE DEF t, o
  <2>3. /\ state' = t.state /\ op' = t.op /\ n' = t.n /\ datasent' = t.datasent
        /\ moved' = t.moved
    BY <1>1, <1>11 DEF Becomes
  <2>4. Works(Instance') /\ pc'[0] = "advance"
    <3>1. pc'[0] = "advance"
      BY <1>1, <1>11 DEF QueueInv, TypedInv, Typed
    <3>2. /\ Instance'.state = t.state /\ Instance'.op = t.op /\ Instance'.n = t.n
          /\ Instance'.datasent = t.datasent /\ Instance'.moved = t.moved
      BY <1>7, <2>3
    <3> QED
      BY <2>2, <3>1, <3>2 DEF Works, Done
  <2>5. Number' = count - 1 /\ Passed' = 1
    <3>1. Numbers'
      BY <1>5, NumbersNext DEF TypedInv
    <3> QED
      BY <1>1, <1>8, <2>4, <3>1 DEF Number, Numbers
  <2>6. \A k \in 1 .. count - 1 : k + 1 \in 1 .. count
                                /\ read_ptr + Passed' + k = read_ptr + Passed + (k + 1)
    BY <1>8, <2>5
  <2>7. Ring'
    <3>1. \A k \in 1 .. Number' : buff'[Wrap(read_ptr' + Passed' + k)] \in Operation
      BY <1>1, <1>8, <2>5, <2>6 DEF QueueInv, Ring
    <3> QED
      BY <1>1, <1>8, <2>1, <2>4, <3>1 DEF QueueInv, Ring
  <2>8. QueueInv'
    BY <1>5, <2>4, <2>7 DEF QueueInv
  <2>9. Waiting # <<>> /\ Head(Waiting) = o /\ Tail(Waiting) = Waiting'
    <3>1. Seen /\ Seen'
      BY <2>8, WaitingIs, SeenNext DEF QueueInv
    <3>2. /\ Waiting \in [1 .. count -> operation] /\ Waiting' \in [1 .. count - 1 -> operation]
          /\ \A k \in 1 .. count : Waiting[k] = buff[Wrap(read_ptr + Passed + k)]
          /\ \A k \in 1 .. count - 1 : Waiting'[k] = buff[Wrap(read_ptr + Passed' + k)]
      BY <1>1, <1>8, <2>5, <3>1 DEF Seen
    <3>3. \A k \in 1 .. count - 1 : Waiting'[k] = Waiting[k + 1]
      BY <2>6, <3>2
    <3>4. Waiting[1] = o
      <4>1. 1 \in 1 .. count
        BY <1>8, <2>1
      <4> QED
        BY <2>1, <3>2, <4>1
    <3> DEFINE w == Waiting
               v == Waiting'
    <3>5. /\ count \in Nat \ {0} /\ w \in [1 .. count -> operation] /\ w[1] = o
          /\ v \in [1 .. count - 1 -> operation] /\ \A k \in 1 .. count - 1 : v[k] = w[k + 1]
      BY <1>8, <2>1, <3>2, <3>3, <3>4
    <3> HIDE DEF w, v
    <3>6. w # <<>> /\ Head(w) = w[1] /\ Tail(w) = v
      BY <3>5, Taken
    <3> QED
      BY <3>5, <3>6 DEF w, v
  <2>10. Performing' = o /\ Todo' = Fifo!Bytes(o)
    BY <1>7, <2>2, <2>3 DEF Performing, Rest, Fifo!Bytes
  <2>11. CASE i.state = "IDLE"
    <3>1. Fifo!Begin
      BY <1>9, <2>9, <2>10, <2>11 DEF Fifo!Begin, Fifo!None, Performing
    <3> QED
      BY <2>8, <3>1 DEF Simulated, Fifo!Next
  <2>12. CASE i.state # "IDLE"
    <3>1. Todo = {}
      BY <1>3, <1>6, <1>11, <2>12 DEF Same, Ends, Transfers
    <3>2. Fifo!FinishAndBegin
      BY <1>9, <2>9, <2>10, <2>12, <3>1 DEF Fifo!FinishAndBegin, Fifo!None, Performing
    <3> QED
      BY <2>8, <3>2 DEF Simulated, Fifo!Next
  <2> QED
    BY <2>11, <2>12
<1> QED
  BY <1>10, <1>11

LEMMA QueueInit == Level = {0} /\ Init => QueueInv /\ Waiting = <<>> /\ Todo = {}
<1> SUFFICES ASSUME Level = {0}, Init PROVE QueueInv /\ Waiting = <<>> /\ Todo = {}
  OBVIOUS
<1>1. TypedInv
  BY TypedInit
<1>2. pc[0] = "idle" /\ count = 0 /\ write_ptr = 0 /\ read_ptr = 0 /\ MAX \in Nat \ {0}
  BY EepromAssumption DEF Init, EepromAssumption
<1>3. Number = 0
  <2>1. Numbers
    BY <1>1, NumbersHold DEF TypedInv
  <2>2. Begun = 0 /\ Unfilled = 0
    BY <1>2, <2>1 DEF Numbers
  <2> QED
    BY <1>2, <2>2 DEF Number
<1> HIDE DEF MAX
<1>4. Ring
  BY <1>2, <1>3 DEF Ring, Wrap
<1>5. Works(Instance) /\ Todo = {}
  BY DEF Init, Works, Instance, Todo
<1>6. Waiting = <<>>
  <2>1. Waiting = [i \in 1 .. Number |-> buff[Slot(i)]]
    BY DEF Waiting, Number
  <2>2. 1 .. Number = {}
    BY <1>3
  <2> QED
    BY <2>1, <2>2
<1> QED
  BY <1>1, <1>4, <1>5, <1>6 DEF QueueInv

\* Where nothing preempts the main loop the queue implements the abstract one:
\* operations are performed in the order in which they were scheduled, each as a
\* whole, and no part of a write crosses a page.
THEOREM FifoImplemented == ASSUME Level = {0} PROVE Spec => Refines
<1>1. Init => Fifo!Init /\ QueueInv
  BY QueueInit DEF Init, Fifo!Init, Fifo!None
<1>2. QueueInv /\ [Next]_vars => QueueInv' /\ [Fifo!Next]_View
  <2> SUFFICES ASSUME QueueInv, [Next]_vars PROVE QueueInv' /\ [Fifo!Next]_View
    OBVIOUS
  <2>1. CASE Next
    <3>1. QueueInv' /\ Simulated
      BY <2>1, HandlerSimulated, AdvanceSimulated, CountDownSimulated, ClaimSimulated,
         ClaimedSimulated, FillSimulated DEF Next
    <3> QED
      BY <3>1 DEF Simulated
  <2>2. CASE UNCHANGED vars
    <3>1. UNCHANGED <<buff, read_ptr, write_ptr, count, instance, pc, arg, reg>>
      BY <2>2 DEF vars, ring, local
    <3>2. TypedInv'
      BY <2>2, TypedStutter DEF QueueInv
    <3>3. Number' = Number /\ Passed' = Passed
      BY <3>1 DEF Number, Begun, Unfilled, Passed
    <3>4. QueueInv'
      BY <3>1, <3>2, <3>3, InstanceSame DEF QueueInv, Ring
    <3>5. Waiting' = Waiting
      BY <3>1, <3>3, <3>4, WaitingSame
    <3> QED
      BY <3>1, <3>4, <3>5, InstanceSame DEF View
  <2> QED
    BY <2>1, <2>2
<1>3. [Fifo!Next]_View <=> [Fifo!Next]_<<Waiting, Performing, Todo>>
  BY DEF View
<1> QED
  BY <1>1, <1>2, <1>3, PTL DEF Spec, Refines, Fifo!Spec, Performing
=============================================================================
