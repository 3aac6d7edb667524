--------------------------- MODULE KeyboardProofs ---------------------------
(***************************************************************************)
(* Theorems about Keyboard, for every size of the ring and every set of    *)
(* keys.                                                                   *)
(***************************************************************************)
EXTENDS Keyboard, SequenceTheorems, TLAPS

LEMMA PlaceFacts ==
    /\ 0 \in Places
    /\ \A i \in Places : /\ i \in Int /\ 0 <= i /\ i < BufferSize
                         /\ Advance(i) \in Places
                         /\ Advance(i) = IF i + 1 = BufferSize THEN 0 ELSE i + 1
<1>1. 0 \in Places
  BY BufferAssumption DEF Places
<1>2. ASSUME NEW i \in Places
      PROVE  /\ i \in Int /\ 0 <= i /\ i < BufferSize
             /\ Advance(i) \in Places
             /\ Advance(i) = IF i + 1 = BufferSize THEN 0 ELSE i + 1
  <2>1. i \in Int /\ 0 <= i /\ i < BufferSize
    BY BufferAssumption DEF Places
  <2>2. CASE i + 1 = BufferSize
    BY <2>1, <2>2, BufferAssumption DEF Advance, Places
  <2>3. CASE i + 1 < BufferSize
    BY <2>1, <2>3, BufferAssumption DEF Advance, Places
  <2> QED
    BY <2>1, <2>2, <2>3, BufferAssumption
<1> QED
  BY <1>1, <1>2

(***************************************************************************)
(* The inductive invariant: the unread places hold characters, and the     *)
(* reader that passed the test still finds the character it was promised,  *)
(* for the handler only ever writes outside of the unread places.          *)
(***************************************************************************)
RingInv ==
    /\ TypeOK
    /\ \A i \in 1 .. Count : Pending[i] \in Chars
    /\ pc \in {"read", "advance"} => buf_read # buf_write
    /\ pc = "advance" => c = buf[buf_read]
    /\ pc \in {"test", "halt", "hlt", "read"} => c = NoChar

LEMMA CountRange == TypeOK => Count \in Nat /\ Count < BufferSize
BY PlaceFacts, BufferAssumption DEF TypeOK, Count

LEMMA PendingIsSeq ==
    ASSUME TypeOK, \A i \in 1 .. Count : Pending[i] \in Chars
    PROVE  /\ Count \in Nat /\ Count < BufferSize
           /\ Pending \in Seq(Chars)
           /\ Len(Pending) = Count
<1>1. Count \in Nat /\ Count < BufferSize
  BY CountRange
<1>2. Pending \in [1 .. Count -> Chars]
  <2>1. Pending = [i \in 1 .. Count |-> Pending[i]]
    BY DEF Pending
  <2> QED
    BY <2>1
<1>3. Pending \in Seq(Chars)
  <2>1. Pending \in UNION {[1 .. n -> Chars] : n \in Nat}
    BY <1>1, <1>2, Zenon
  <2> QED
    BY <2>1, SeqDef, Zenon
<1>4. Len(Pending) = Count
  <2>1. /\ Len(Pending) \in Nat
        /\ DOMAIN Pending = 1 .. Len(Pending)
    BY <1>3, LenProperties
  <2>2. DOMAIN Pending = 1 .. Count
    BY DEF Pending
  <2>3. \A n \in Nat : 1 .. n = 1 .. Count => n = Count
    BY <1>1
  <2> QED
    BY <2>1, <2>2, <2>3
<1> QED
  BY <1>1, <1>3, <1>4

(* Storing a character appends it to the pending ones.                     *)
LEMMA StoreAppends ==
    ASSUME RingInv, NEW ch \in Chars, ~ Full,
           buf' = [buf EXCEPT ![buf_write] = ch],
           buf_write' = Advance(buf_write), buf_read' = buf_read
    PROVE  /\ Len(Pending) < BufferSize - 1
           /\ Count' = Count + 1
           /\ Pending' = Append(Pending, ch)
           /\ \A i \in 1 .. Count' : Pending'[i] \in Chars
           /\ buf_read # buf_write => buf'[buf_read] = buf[buf_read]
<1>1. /\ buf_read \in Places /\ buf_write \in Places
      /\ buf \in [Places -> Chars \cup {NoChar}]
  BY DEF RingInv, TypeOK
<1>2. Advance(buf_write) # buf_read
  BY DEF Full
<1>3. Count' = Count + 1 /\ Count < BufferSize - 1 /\ Count \in Nat
  <2>1. Advance(buf_write) = IF buf_write + 1 = BufferSize THEN 0 ELSE buf_write + 1
    BY <1>1, PlaceFacts
  <2>2. /\ buf_read \in Int /\ 0 <= buf_read /\ buf_read < BufferSize
        /\ buf_write \in Int /\ 0 <= buf_write /\ buf_write < BufferSize
    BY <1>1, PlaceFacts
  <2>3. Count' = IF buf_read <= Advance(buf_write)
                 THEN Advance(buf_write) - buf_read
                 ELSE Advance(buf_write) + BufferSize - buf_read
    BY DEF Count
  <2> QED
    BY <1>2, <2>1, <2>2, <2>3, BufferAssumption DEF Count
<1>4. Pending \in Seq(Chars) /\ Len(Pending) = Count
  BY PendingIsSeq DEF RingInv
<1>5. \A i \in 1 .. Count : Pending'[i] = Pending[i]
  <2> SUFFICES ASSUME NEW i \in 1 .. Count
               PROVE  Pending'[i] = Pending[i]
    OBVIOUS
  <2> DEFINE at == IF buf_read + i - 1 < BufferSize
                   THEN buf_read + i - 1 ELSE buf_read + i - 1 - BufferSize
  <2>1. at \in Places /\ at # buf_write
    BY <1>1, <1>3, PlaceFacts, BufferAssumption DEF Count, Places
  <2>2. i \in 1 .. Count'
    BY <1>3
  <2>3. Pending'[i] = buf'[at] /\ Pending[i] = buf[at]
    BY <2>2 DEF Pending
  <2> QED
    BY <2>1, <2>3, <1>1
<1>6. Pending'[Count + 1] = ch
  <2> DEFINE at == IF buf_read + (Count + 1) - 1 < BufferSize
                   THEN buf_read + (Count + 1) - 1
                   ELSE buf_read + (Count + 1) - 1 - BufferSize
  <2>1. at = buf_write
    BY <1>1, <1>3, PlaceFacts, BufferAssumption DEF Count
  <2>2. Count + 1 \in 1 .. Count'
    BY <1>3
  <2>3. Pending'[Count + 1] = buf'[at]
    BY <2>2 DEF Pending
  <2> QED
    BY <2>1, <2>3, <1>1
<1>7. Pending' = Append(Pending, ch)
  <2>1. Pending' = [i \in 1 .. Count + 1 |-> Pending'[i]]
    BY <1>3 DEF Pending
  <2>2. \A i \in 1 .. Count + 1 :
            Pending'[i] = IF i = Count + 1 THEN ch ELSE Pending[i]
    BY <1>3, <1>5, <1>6
  <2> DEFINE app == Append(Pending, ch)
  <2>3. /\ app \in Seq(Chars) /\ Len(app) = Count + 1
        /\ \A i \in 1 .. Count : app[i] = Pending[i]
        /\ app[Count + 1] = ch
    BY <1>4, AppendProperties
  <2>4. app = [i \in 1 .. Count + 1 |-> app[i]]
    BY <2>3, LenProperties
  <2>5. \A i \in 1 .. Count + 1 : app[i] = Pending'[i]
    BY <1>3, <2>2, <2>3
  <2> HIDE DEF app
  <2>6. Pending' = app
    BY <2>1, <2>4, <2>5
  <2> QED
    BY <2>6 DEF app
<1>8. \A i \in 1 .. Count' : Pending'[i] \in Chars
  BY <1>3, <1>5, <1>6 DEF RingInv
<1> QED
  BY <1>1, <1>3, <1>4, <1>7, <1>8

(* Advancing the read index takes the first pending character.             *)
LEMMA AdvanceTakes ==
    ASSUME RingInv, buf_read # buf_write,
           buf' = buf, buf_write' = buf_write, buf_read' = Advance(buf_read)
    PROVE  /\ Pending # <<>> /\ Head(Pending) = buf[buf_read]
           /\ Pending' = Tail(Pending)
           /\ \A i \in 1 .. Count' : Pending'[i] \in Chars
<1>1. /\ buf_read \in Places /\ buf_write \in Places
      /\ buf \in [Places -> Chars \cup {NoChar}]
  BY DEF RingInv, TypeOK
<1>2. Count' = Count - 1 /\ Count \in Nat /\ Count >= 1
  BY <1>1, PlaceFacts, BufferAssumption DEF Count
<1>3. Pending \in Seq(Chars) /\ Len(Pending) = Count
  BY PendingIsSeq DEF RingInv
<1>4. Pending[1] = buf[buf_read]
  <2>1. 1 \in 1 .. Count /\ buf_read + 1 - 1 = buf_read /\ buf_read < BufferSize
    BY <1>1, <1>2, PlaceFacts
  <2> QED
    BY <2>1 DEF Pending
<1>5. \A i \in 1 .. Count - 1 : Pending'[i] = Pending[i + 1]
  <2> SUFFICES ASSUME NEW i \in 1 .. Count - 1
               PROVE  Pending'[i] = Pending[i + 1]
    OBVIOUS
  <2> DEFINE at(r, k) == IF r + k - 1 < BufferSize
                         THEN r + k - 1 ELSE r + k - 1 - BufferSize
  <2>1. at(buf_read', i) = at(buf_read, i + 1)
    BY <1>1, <1>2, PlaceFacts, BufferAssumption DEF Count
  <2>2. i \in 1 .. Count' /\ i + 1 \in 1 .. Count
    BY <1>2
  <2>3. Pending'[i] = buf[at(buf_read', i)] /\ Pending[i + 1] = buf[at(buf_read, i + 1)]
    BY <2>2 DEF Pending
  <2> QED
    BY <2>1, <2>3
<1>6. Pending' = Tail(Pending)
  <2>1. Pending' = [i \in 1 .. Count - 1 |-> Pending'[i]]
    BY <1>2 DEF Pending
  <2> DEFINE tail == Tail(Pending)
  <2>2. Pending # <<>>
    BY <1>2, <1>3
  <2>3. /\ tail \in Seq(Chars) /\ Len(tail) = Count - 1
        /\ \A i \in 1 .. Count - 1 : tail[i] = Pending[i + 1]
    BY <1>2, <1>3, <2>2, HeadTailProperties
  <2>4. tail = [i \in 1 .. Count - 1 |-> tail[i]]
    BY <2>3, LenProperties
  <2> HIDE DEF tail
  <2>5. Pending' = tail
    BY <2>1, <2>3, <2>4, <1>5
  <2> QED
    BY <2>5 DEF tail
<1>7. \A i \in 1 .. Count' : Pending'[i] \in Chars
  BY <1>2, <1>5 DEF RingInv
<1> QED
  BY <1>2, <1>3, <1>4, <1>6, <1>7

(* A step that leaves the ring alone leaves the pending characters alone.  *)
LEMMA RingUntouched ==
    ASSUME bufferVars' = bufferVars
    PROVE  Count' = Count /\ Pending' = Pending
BY DEF bufferVars, Count, Pending

LEMMA InitRing == Init => RingInv
<1> SUFFICES ASSUME Init PROVE RingInv
  OBVIOUS
<1>1. TypeOK
  BY PlaceFacts, WireAssumption DEF Init, TypeOK
<1>2. Count = 0
  BY DEF Init, Count
<1> QED
  BY <1>1, <1>2 DEF Init, RingInv

(* What the steps do to the queue; the invariant is preserved on the way.  *)
LEMMA StepRing ==
    ASSUME RingInv, [Next]_vars
    PROVE  RingInv' /\ [Queue!FifoNext]_Queue!fifoVars
<1> DEFINE queueSame == Count' = Count /\ Pending' = Pending
<1> USE PlaceFacts
<1>0. TypeOK /\ (\A i \in 1 .. Count : Pending[i] \in Chars)
  BY DEF RingInv
<1>1. ASSUME bufferVars' = bufferVars, TypeOK',
             pc' = pc \/ (pc = "hlt" /\ pc' = "test"), c' = c
      PROVE  RingInv' /\ [Queue!FifoNext]_Queue!fifoVars
  <2>1. queueSame
    BY <1>1, RingUntouched
  <2>2. RingInv'
    BY <1>1, <2>1 DEF RingInv, bufferVars
  <2>3. (pc' = "busy") <=> (pc = "busy")
    BY <1>1
  <2> QED
    BY <1>1, <2>1, <2>2, <2>3 DEF Queue!fifoVars
<1>2. CASE User
  <2>1. PICK k \in Keys : Press(k) \/ Release(k)
    BY <1>2 DEF User
  <2>2. /\ bufferVars' = bufferVars /\ pc' = pc /\ c' = c
        /\ shift_held' = shift_held
    BY <2>1 DEF Press, Release
  <2>3. wire' \in Seq([key : Keys, up : BOOLEAN]) /\ Len(wire') <= WireSize
    <3>1. /\ wire \in Seq([key : Keys, up : BOOLEAN]) /\ Len(wire) < WireSize
      BY <2>1 DEF Press, Release, RingInv, TypeOK
    <3>2. PICK code \in [key : Keys, up : BOOLEAN] : wire' = Append(wire, code)
      BY <2>1 DEF Press, Release
    <3>3. /\ Append(wire, code) \in Seq([key : Keys, up : BOOLEAN])
          /\ Len(Append(wire, code)) = Len(wire) + 1 /\ Len(wire) \in Nat
      BY <3>1, AppendProperties, LenProperties
    <3> QED
      BY <3>1, <3>2, <3>3, WireAssumption
  <2>4. held' \subseteq Keys
    BY <2>1 DEF Press, Release, RingInv, TypeOK
  <2>5. TypeOK'
    BY <2>2, <2>3, <2>4 DEF RingInv, TypeOK, bufferVars
  <2> QED
    BY <1>1, <2>2, <2>5
<1>3. ASSUME wire # <<>>, wire' = Tail(wire), held' = held, WakeReader
      PROVE  /\ wire' \in Seq([key : Keys, up : BOOLEAN])
             /\ Len(wire') <= WireSize
             /\ held' \subseteq Keys
             /\ pc' = pc \/ (pc = "hlt" /\ pc' = "test")
  <2>1. pc' = pc \/ (pc = "hlt" /\ pc' = "test")
    BY <1>3 DEF WakeReader
  <2>2. /\ wire' \in Seq([key : Keys, up : BOOLEAN])
        /\ Len(wire') <= WireSize
    <3>1. /\ wire \in Seq([key : Keys, up : BOOLEAN]) /\ Len(wire) <= WireSize
      BY DEF RingInv, TypeOK
    <3>2. /\ Tail(wire) \in Seq([key : Keys, up : BOOLEAN])
          /\ Len(Tail(wire)) = Len(wire) - 1 /\ Len(wire) \in Nat
      BY <1>3, <3>1, HeadTailProperties, LenProperties
    <3> QED
      BY <1>3, <3>1, <3>2, WireAssumption
  <2> QED
    BY <1>3, <2>1, <2>2 DEF RingInv, TypeOK
<1>4. CASE KeyUp \/ ShiftDown \/ OtherDown \/ CharDropped
  <2>1. /\ wire # <<>> /\ wire' = Tail(wire) /\ held' = held /\ WakeReader
        /\ bufferVars' = bufferVars /\ c' = c
        /\ shift_held' \in {TRUE, FALSE, shift_held}
    BY <1>4 DEF KeyUp, ShiftDown, OtherDown, CharDropped, Scan
  <2>2. TypeOK'
    BY <1>3, <2>1 DEF RingInv, TypeOK, bufferVars
  <2> QED
    BY <1>1, <1>3, <2>1, <2>2
<1>5. CASE CharStored
  <2>1. PICK k \in CharKeys :
          /\ wire # <<>> /\ wire' = Tail(wire) /\ ~ Full /\ WakeReader
          /\ buf' = [buf EXCEPT ![buf_write] = [key |-> k, shifted |-> shift_held]]
          /\ buf_write' = Advance(buf_write) /\ buf_read' = buf_read
          /\ held' = held /\ c' = c /\ shift_held' = shift_held
    BY <1>5 DEF CharStored, Scan
  <2> DEFINE ch == [key |-> k, shifted |-> shift_held]
  <2>2. ch \in Chars
    BY DEF RingInv, TypeOK, Chars
  <2> HIDE DEF ch
  <2>3. /\ Len(Pending) < BufferSize - 1 /\ Pending' = Append(Pending, ch)
        /\ \A i \in 1 .. Count' : Pending'[i] \in Chars
        /\ buf_read # buf_write => buf'[buf_read] = buf[buf_read]
    BY <2>1, <2>2, StoreAppends DEF ch
  <2>4. TypeOK'
    BY <1>3, <2>1, <2>2 DEF RingInv, TypeOK, ch
  <2>5. RingInv'
    <3>1. pc' = pc \/ (pc = "hlt" /\ pc' = "test")
      BY <1>3, <2>1
    <3>2. ASSUME pc' \in {"read", "advance"}
          PROVE  buf_read' # buf_write' /\ (pc' = "advance" => c' = buf'[buf_read'])
      <4>1. pc = pc' /\ buf_read # buf_write
        BY <3>1, <3>2 DEF RingInv
      <4>2. buf_read' # buf_write'
        BY <2>1 DEF Full
      <4> QED
        BY <2>1, <2>3, <4>1, <4>2 DEF RingInv
    <3>3. pc' \in {"test", "halt", "hlt", "read"} => c' = NoChar
      BY <2>1, <3>1 DEF RingInv
    <3> QED
      BY <2>3, <2>4, <3>2, <3>3 DEF RingInv
  <2>6. Queue!Put
    <3>1. (IF pc' = "busy" THEN c' ELSE NoChar) = (IF pc = "busy" THEN c ELSE NoChar)
      BY <1>3, <2>1
    <3> QED
      BY <2>2, <2>3, <3>1 DEF Queue!Put
  <2> QED
    BY <2>5, <2>6 DEF Queue!FifoNext
<1>6. CASE TimerIrq
  <2>1. /\ bufferVars' = bufferVars /\ pc = "hlt" /\ pc' = "test" /\ c' = c
        /\ TypeOK'
    BY <1>6 DEF TimerIrq, deviceVars, bufferVars, RingInv, TypeOK
  <2> QED
    BY <1>1, <2>1
<1>7. CASE Call
  <2>1. /\ bufferVars' = bufferVars /\ pc = "busy" /\ pc' = "test" /\ c' = NoChar
        /\ TypeOK'
    BY <1>7 DEF Call, deviceVars, bufferVars, RingInv, TypeOK
  <2>2. queueSame
    BY <2>1, RingUntouched
  <2>3. RingInv'
    BY <2>1, <2>2 DEF RingInv
  <2>4. Queue!Forget
    BY <2>1, <2>2 DEF Queue!Forget
  <2> QED
    BY <2>3, <2>4 DEF Queue!FifoNext
<1>8. CASE Test \/ Halt
  <2>1. /\ bufferVars' = bufferVars /\ c' = c /\ TypeOK'
        /\ pc \in {"test", "halt"} /\ pc' \in {"read", "halt", "hlt"}
        /\ pc' = "read" => buf_read # buf_write
    BY <1>8 DEF Test, Halt, HasChar, deviceVars, bufferVars, RingInv, TypeOK
  <2>2. queueSame
    BY <2>1, RingUntouched
  <2>3. RingInv'
    BY <2>1, <2>2 DEF RingInv, bufferVars
  <2>4. UNCHANGED Queue!fifoVars
    BY <2>1, <2>2 DEF Queue!fifoVars
  <2> QED
    BY <2>3, <2>4
<1>9. CASE Read
  <2>1. /\ bufferVars' = bufferVars /\ c' = buf[buf_read]
        /\ pc = "read" /\ pc' = "advance"
    BY <1>9 DEF Read
  <2>2. TypeOK'
    BY <1>9, <2>1 DEF Read, deviceVars, bufferVars, RingInv, TypeOK
  <2>3. queueSame
    BY <2>1, RingUntouched
  <2>4. RingInv'
    BY <2>1, <2>2, <2>3 DEF RingInv, bufferVars
  <2>5. UNCHANGED Queue!fifoVars
    BY <2>1, <2>3 DEF Queue!fifoVars
  <2> QED
    BY <2>4, <2>5
<1>10. CASE AdvanceRead
  <2>1. /\ buf' = buf /\ buf_write' = buf_write /\ buf_read' = Advance(buf_read)
        /\ pc = "advance" /\ pc' = "busy" /\ c' = c
        /\ held' = held /\ wire' = wire /\ shift_held' = shift_held
    BY <1>10 DEF AdvanceRead, deviceVars
  <2>2. buf_read # buf_write /\ c = buf[buf_read]
    BY <2>1 DEF RingInv
  <2>3. /\ Pending # <<>> /\ Head(Pending) = buf[buf_read]
        /\ Pending' = Tail(Pending)
        /\ \A i \in 1 .. Count' : Pending'[i] \in Chars
    BY <2>1, <2>2, AdvanceTakes
  <2>4. TypeOK'
    BY <2>1 DEF RingInv, TypeOK
  <2>5. RingInv'
    BY <2>1, <2>3, <2>4 DEF RingInv
  <2>6. Queue!Take
    BY <2>1, <2>2, <2>3 DEF Queue!Take
  <2> QED
    BY <2>5, <2>6 DEF Queue!FifoNext
<1>11. CASE UNCHANGED vars
  <2>1. bufferVars' = bufferVars /\ TypeOK' /\ pc' = pc /\ c' = c
    BY <1>11 DEF vars, bufferVars, RingInv, TypeOK
  <2> QED
    BY <1>1, <2>1
<1> QED
  BY <1>2, <1>4, <1>5, <1>6, <1>7, <1>8, <1>9, <1>10, <1>11
  DEF Next, KeyIrq, Reader

(***************************************************************************)
(* Type correctness, for every ring size.                                  *)
(***************************************************************************)
THEOREM KeyboardTypes == Spec => []TypeOK
<1>1. Init => RingInv
  BY InitRing
<1>2. RingInv /\ [Next]_vars => RingInv'
  BY StepRing
<1>3. RingInv => TypeOK
  BY DEF RingInv
<1> QED
  BY <1>1, <1>2, <1>3, PTL DEF Spec

(***************************************************************************)
(* The ring buffer and its two users implement a bounded queue, for every  *)
(* ring size and every interleaving of the handler with keyboard_getchar.  *)
(***************************************************************************)
THEOREM KeyboardIsQueue == Spec => IsQueue
<1>1. Init => RingInv /\ Queue!FifoInit
  <2> SUFFICES ASSUME Init PROVE RingInv /\ Queue!FifoInit
    OBVIOUS
  <2>1. RingInv
    BY InitRing
  <2>2. Count = 0
    BY DEF Init, Count
  <2>3. Pending = <<>>
    BY <2>2 DEF Pending
  <2> QED
    BY <2>1, <2>3 DEF Init, Queue!FifoInit
<1>2. RingInv /\ [Next]_vars => RingInv' /\ [Queue!FifoNext]_Queue!fifoVars
  BY StepRing
<1> QED
  BY <1>1, <1>2, PTL DEF Spec, IsQueue, Queue!FifoSpec

(***************************************************************************)
(* The flag follows the Shift keys.  While scan codes are on their way,    *)
(* what decides is the last code of a Shift key among them: it tells where *)
(* that key is now, and the flag once the handler has read them all.       *)
(***************************************************************************)
OfShift(w, j) == w[j].key \in ShiftKeys
LastOfShift(w, j) ==
    OfShift(w, j) /\ \A i \in 1 .. Len(w) : i > j => ~ OfShift(w, i)

FlagFollows ==
    /\ shift_held => held \cap ShiftKeys # {}
    /\ ShiftKeys \subseteq held => shift_held

ShiftInv ==
    /\ (\A j \in 1 .. Len(wire) : ~ OfShift(wire, j)) => FlagFollows
    /\ \A j \in 1 .. Len(wire) :
          LastOfShift(wire, j) => (wire[j].up <=> wire[j].key \notin held)

(* A scan code of a key that has just gone down or up.                     *)
LEMMA CodeSent ==
    ASSUME TypeOK, ShiftInv, NEW k \in Keys, NEW up \in BOOLEAN,
           held' = IF up THEN held \ {k} ELSE held \cup {k},
           wire' = Append(wire, [key |-> k, up |-> up]),
           shift_held' = shift_held
    PROVE  ShiftInv'
<1> DEFINE n == Len(wire)
           code == [key |-> k, up |-> up]
<1>1. /\ wire \in Seq([key : Keys, up : BOOLEAN]) /\ n \in Nat
      /\ code \in [key : Keys, up : BOOLEAN]
  BY LenProperties DEF TypeOK
<1>2. /\ Len(wire') = n + 1
      /\ \A j \in 1 .. n : wire'[j] = wire[j]
      /\ wire'[n + 1] = code
  BY <1>1, AppendProperties
<1>3. \A j \in 1 .. n + 1 : j \in 1 .. n \/ j = n + 1
  BY <1>1
<1>4. n + 1 \in 1 .. n + 1 /\ (\A j \in 1 .. n : j \in 1 .. n + 1 /\ n + 1 > j)
  BY <1>1
<1> HIDE DEF n, code
<1>5. CASE k \in ShiftKeys
  <2>1. OfShift(wire', n + 1) /\ wire'[n + 1].up = up /\ wire'[n + 1].key = k
    BY <1>2, <1>5 DEF OfShift, code
  <2>2. \A j \in 1 .. n : ~ LastOfShift(wire', j)
    BY <1>2, <1>4, <2>1 DEF LastOfShift
  <2>3. up <=> k \notin held'
    OBVIOUS
  <2> QED
    BY <1>2, <1>3, <1>4, <2>1, <2>2, <2>3 DEF ShiftInv
<1>6. CASE k \notin ShiftKeys
  <2>1. ~ OfShift(wire', n + 1) /\ (\A j \in 1 .. n : OfShift(wire', j) <=> OfShift(wire, j))
    <3>1. wire'[n + 1].key = k
      BY <1>2 DEF code
    <3>2. ~ OfShift(wire', n + 1)
      BY <1>6, <3>1 DEF OfShift
    <3>3. \A j \in 1 .. n : OfShift(wire', j) <=> OfShift(wire, j)
      BY <1>2, Zenon DEF OfShift
    <3> QED
      BY <3>2, <3>3
  <2>2. \A q \in ShiftKeys : q \in held' <=> q \in held
    BY <1>6
  <2>3. FlagFollows' <=> FlagFollows
    BY <2>2 DEF FlagFollows
  <2>4. \A j \in 1 .. n : LastOfShift(wire', j) <=> LastOfShift(wire, j)
    BY <1>2, <1>3, <1>4, <2>1 DEF LastOfShift, n
  <2>5. (\A j \in 1 .. Len(wire') : ~ OfShift(wire', j)) => FlagFollows'
    BY <1>2, <1>4, <2>1, <2>3 DEF ShiftInv, n
  <2>6. ASSUME NEW j \in 1 .. Len(wire'), LastOfShift(wire', j)
        PROVE  wire'[j].up <=> wire'[j].key \notin held'
    <3>1. j \in 1 .. n /\ LastOfShift(wire, j) /\ wire'[j] = wire[j]
      BY <1>2, <1>3, <2>1, <2>4, <2>6 DEF LastOfShift
    <3>2. wire[j].key \in ShiftKeys
      BY <3>1 DEF LastOfShift, OfShift
    <3> QED
      BY <2>2, <3>1, <3>2 DEF ShiftInv, n
  <2> QED
    BY <2>5, <2>6 DEF ShiftInv
<1> QED
  BY <1>5, <1>6

(* The handler takes a scan code from the wire.                            *)
LEMMA CodeTaken ==
    ASSUME TypeOK, ShiftInv, wire # <<>>, wire' = Tail(wire), held' = held,
           shift_held' = IF Head(wire).key \in ShiftKeys
                         THEN ~ Head(wire).up ELSE shift_held
    PROVE  ShiftInv'
<1> DEFINE n == Len(wire')
<1>1. /\ n \in Nat /\ Len(wire) = n + 1
      /\ Head(wire) = wire[1]
      /\ \A j \in 1 .. n : wire'[j] = wire[j + 1]
  <2>1. wire \in Seq([key : Keys, up : BOOLEAN])
    BY DEF TypeOK
  <2>2. /\ Head(wire) = wire[1]
        /\ Tail(wire) \in Seq([key : Keys, up : BOOLEAN])
        /\ Len(Tail(wire)) = Len(wire) - 1
        /\ \A i \in 1 .. Len(Tail(wire)) : Tail(wire)[i] = wire[i + 1]
    BY <2>1, HeadTailProperties
  <2> QED
    BY <2>1, <2>2, LenProperties
<1> HIDE DEF n
<1>2. wire[1] \in [key : Keys, up : BOOLEAN]
  <2>1. wire \in Seq([key : Keys, up : BOOLEAN]) /\ 1 \in 1 .. Len(wire)
    BY <1>1 DEF TypeOK
  <2> QED
    BY <2>1, ElementOfSeq
<1>3. \A j \in 1 .. n : j + 1 \in 1 .. n + 1 /\ j + 1 > 1
  BY <1>1
<1>4. \A i \in 1 .. n + 1 : i = 1 \/ (i - 1 \in 1 .. n /\ (i - 1) + 1 = i)
  BY <1>1
<1>5. \A j \in 1 .. n : OfShift(wire', j) <=> OfShift(wire, j + 1)
  BY <1>1 DEF OfShift
<1>6. ASSUME NEW j \in 1 .. n, LastOfShift(wire', j) PROVE LastOfShift(wire, j + 1)
  <2>1. OfShift(wire, j + 1)
    BY <1>5, <1>6 DEF LastOfShift
  <2>2. ASSUME NEW i \in 1 .. n + 1, i > j + 1 PROVE ~ OfShift(wire, i)
    <3>1. i - 1 \in 1 .. n /\ i - 1 > j /\ (i - 1) + 1 = i
      BY <1>1, <2>2
    <3>2. ~ OfShift(wire', i - 1)
      BY <1>6, <3>1 DEF LastOfShift, n
    <3> QED
      BY <1>5, <3>1, <3>2
  <2> QED
    BY <1>1, <2>1, <2>2 DEF LastOfShift
<1>7. ASSUME NEW j \in 1 .. n, LastOfShift(wire', j)
      PROVE  wire'[j].up <=> wire'[j].key \notin held'
  BY <1>1, <1>3, <1>6, <1>7 DEF ShiftInv
<1>8. ASSUME \A j \in 1 .. n : ~ OfShift(wire', j) PROVE FlagFollows'
  <2>1. \A i \in 1 .. n + 1 : i > 1 => ~ OfShift(wire, i)
    BY <1>4, <1>5, <1>8
  <2>2. 1 \in 1 .. n + 1
    BY <1>1
  <2>3. CASE OfShift(wire, 1)
    <3>1. LastOfShift(wire, 1)
      BY <1>1, <2>1, <2>3 DEF LastOfShift
    <3>2. /\ wire[1].up <=> wire[1].key \notin held
          /\ wire[1].key \in ShiftKeys /\ wire[1].up \in BOOLEAN
      BY <1>1, <1>2, <2>2, <2>3, <3>1 DEF ShiftInv, OfShift
    <3>3. shift_held' = ~ wire[1].up
      BY <1>1, <3>2
    <3> QED
      BY <3>2, <3>3 DEF FlagFollows
  <2>4. CASE ~ OfShift(wire, 1)
    <3>1. shift_held' = shift_held
      BY <1>1, <2>4 DEF OfShift
    <3>2. \A j \in 1 .. Len(wire) : ~ OfShift(wire, j)
      BY <1>1, <1>4, <2>1, <2>4
    <3>3. FlagFollows
      BY <3>2 DEF ShiftInv
    <3> QED
      BY <3>1, <3>3 DEF FlagFollows
  <2> QED
    BY <2>3, <2>4
<1> QED
  BY <1>7, <1>8 DEF ShiftInv, n

LEMMA ShiftStep ==
    ASSUME TypeOK, ShiftInv, [Next]_vars PROVE ShiftInv'
<1>1. CASE User
  <2>1. PICK k \in Keys : Press(k) \/ Release(k)
    BY <1>1 DEF User
  <2>2. CASE Press(k)
    BY <2>2, CodeSent DEF Press
  <2>3. CASE Release(k)
    BY <2>3, CodeSent DEF Release
  <2> QED
    BY <2>1, <2>2, <2>3
<1>2. CASE KeyIrq
  <2>1. /\ wire # <<>> /\ wire' = Tail(wire) /\ held' = held
        /\ shift_held' = IF Head(wire).key \in ShiftKeys
                         THEN ~ Head(wire).up ELSE shift_held
    <3>1. CASE KeyUp
      <4>1. PICK k \in Keys :
              /\ Scan(k, TRUE) /\ wire' = Tail(wire) /\ held' = held
              /\ shift_held' = IF k \in ShiftKeys THEN FALSE ELSE shift_held
        BY <3>1 DEF KeyUp
      <4>2. wire # <<>> /\ Head(wire).key = k /\ Head(wire).up = TRUE
        BY <4>1 DEF Scan
      <4> QED
        BY <4>1, <4>2
    <3>2. CASE ShiftDown
      <4>1. PICK k \in ShiftKeys :
              /\ Scan(k, FALSE) /\ wire' = Tail(wire) /\ held' = held
              /\ shift_held' = TRUE
        BY <3>2 DEF ShiftDown
      <4>2. wire # <<>> /\ Head(wire).key = k /\ Head(wire).up = FALSE
        BY <4>1 DEF Scan
      <4> QED
        BY <4>1, <4>2
    <3>3. CASE OtherDown \/ CharStored \/ CharDropped
      <4>1. PICK k \in CharKeys \cup OtherKeys :
              /\ Scan(k, FALSE) /\ wire' = Tail(wire) /\ held' = held
              /\ shift_held' = shift_held
        BY <3>3 DEF OtherDown, CharStored, CharDropped
      <4>2. wire # <<>> /\ Head(wire).key = k /\ k \notin ShiftKeys
        BY <4>1, KeysAssumption DEF Scan
      <4> QED
        BY <4>1, <4>2
    <3> QED
      BY <1>2, <3>1, <3>2, <3>3 DEF KeyIrq
  <2> QED
    BY <2>1, CodeTaken
<1>3. CASE TimerIrq \/ Reader \/ UNCHANGED vars
  <2>1. wire' = wire /\ held' = held /\ shift_held' = shift_held
    BY <1>3 DEF TimerIrq, Reader, Call, Test, Halt, Read, AdvanceRead,
       deviceVars, vars
  <2> QED
    BY <2>1 DEF ShiftInv, FlagFollows, LastOfShift, OfShift
<1> QED
  BY <1>1, <1>2, <1>3 DEF Next

(***************************************************************************)
(* keyboard_callback's shift_held never says Shift when neither key is     *)
(* down, and always when both are, as soon as it has read every scan code  *)
(* the keyboard sent: for every length of the queue of scan codes.         *)
(***************************************************************************)
THEOREM ShiftIsTracked == Spec => []ShiftFollowsKeys
<1>1. Init => ShiftInv
  <2> SUFFICES ASSUME Init PROVE ShiftInv
    OBVIOUS
  <2>1. FlagFollows
    BY KeysAssumption DEF Init, FlagFollows
  <2>2. 1 .. Len(wire) = {}
    BY DEF Init
  <2> QED
    BY <2>1, <2>2 DEF ShiftInv
<1>2. TypeOK /\ ShiftInv /\ [Next]_vars => ShiftInv'
  BY ShiftStep
<1>3. ShiftInv => ShiftFollowsKeys
  <2> SUFFICES ASSUME ShiftInv, wire = <<>> PROVE FlagFollows
    BY DEF ShiftFollowsKeys, FlagFollows
  <2>1. 1 .. Len(wire) = {}
    OBVIOUS
  <2> QED
    BY <2>1 DEF ShiftInv
<1> QED
  BY <1>1, <1>2, <1>3, KeyboardTypes, PTL DEF Spec
=============================================================================
