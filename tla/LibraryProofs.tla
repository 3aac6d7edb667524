--------------------------- MODULE LibraryProofs ---------------------------
(***************************************************************************)
(* Theorems about the parts of the kernel that have nothing to wait for:   *)
(* the string library, the clock, the descriptor tables, drawing and       *)
(* kprintf, each on its own, for every value of its constants.             *)
(***************************************************************************)
EXTENDS Strings, Kprintf, Clock, Descriptors, Drawing,
        SequenceTheorems, FiniteSetTheorems, WellFoundedInduction, TLAPS

----------------------------------------------------------------------------
(* kernel/string.c.  The inductive invariant is one loop invariant per     *)
(* loop, and that the call was legal when it was made.                     *)

Loops == {"idle", "fill", "forward", "backward", "same", "compare", "measure",
          "match", "copy", "copyn", "pad", "return"}

Typed ==
    /\ bytes \in [Addr -> Bytes] /\ before \in [Addr -> Bytes]
    /\ call \in Calls \cup {NoCall}
    /\ d \in Int /\ s \in Int /\ n \in Int
    /\ loop \in Loops

WasLegal == loop # "idle" => call \in Calls /\ Legal(before, call)

(* The rounds that a counting loop has done.                               *)
Done == call.n - n
Counted == n \in 0 .. call.n
Paired(k) == d = call.dest + k /\ s = call.src + k
Passed == \A j \in call.src .. s - 1 : before[j] # 0

Filling == loop = "fill" =>
    /\ call.fn = "memset" /\ Counted /\ d = call.dest + Done
    /\ \A a \in Addr : bytes[a] =
          IF call.dest <= a /\ a < d THEN call.val ELSE before[a]

Forwarding == loop = "forward" =>
    /\ call.fn = "memcpy" \/ (call.fn = "memmove" /\ call.dest < call.src)
    /\ Counted /\ Paired(Done)
    /\ \A a \in Addr : bytes[a] = Moved(a, Done)

Backwarding == loop = "backward" =>
    /\ call.fn = "memmove" /\ call.dest > call.src
    /\ Counted /\ Paired(n)
    /\ \A a \in Addr : bytes[a] =
          IF d <= a /\ a < call.dest + call.n
          THEN before[a - call.dest + call.src] ELSE before[a]

Staying == loop = "same" =>
    call.fn = "memmove" /\ call.dest = call.src /\ bytes = before

Comparing == loop = "compare" =>
    /\ call.fn = "memcmp" /\ Counted /\ Paired(Done) /\ Same(Done)
    /\ bytes = before

Measuring == loop = "measure" =>
    /\ call.fn = "strlen" /\ s = call.src /\ n >= 0 /\ bytes = before
    /\ \A j \in s .. s + n - 1 : before[j] # 0

Matching == loop = "match" =>
    /\ call.fn \in {"strcmp", "strncmp"} /\ bytes = before
    /\ d >= call.dest /\ Paired(d - call.dest)
    /\ NoEnd(d - call.dest) /\ Same(d - call.dest)
    /\ call.fn = "strncmp" => Counted /\ d - call.dest = Done

Copying == loop = "copy" =>
    /\ call.fn = "strcpy" /\ s >= call.src /\ Paired(s - call.src) /\ Passed
    /\ \A a \in Addr : bytes[a] = Moved(a, s - call.src)

CopyingN == loop = "copyn" =>
    /\ call.fn = "strncpy" /\ Counted /\ Paired(Done) /\ Passed
    /\ \A a \in Addr : bytes[a] = Moved(a, Done)

Padding == loop = "pad" =>
    /\ call.fn = "strncpy" /\ Counted /\ d = call.dest + Done
    /\ s >= call.src /\ s - call.src <= Done /\ Passed
    /\ s - call.src = call.n \/ Ends(before, call.src, s)
    /\ \A a \in Addr : bytes[a] =
          IF call.dest + (s - call.src) <= a /\ a < d
          THEN 0 ELSE Moved(a, s - call.src)

Rounds ==
    /\ Filling /\ Forwarding /\ Backwarding /\ Staying /\ Comparing
    /\ Measuring /\ Matching /\ Copying /\ CopyingN /\ Padding

StringsInv == Typed /\ WasLegal /\ Rounds /\ StringsKeepTheirPromise

----------------------------------------------------------------------------
(* Entering and leaving.                                                   *)

LEMMA InitInv == StrInit => StringsInv
<1> SUFFICES ASSUME StrInit PROVE StringsInv
    OBVIOUS
<1>1. loop = "idle"
    BY DEF StrInit
<1>2. Typed
    BY DEF StrInit, Typed, Loops
<1>3. WasLegal /\ Rounds /\ StringsKeepTheirPromise
    BY <1>1 DEF WasLegal, Rounds, Filling, Forwarding, Backwarding, Staying,
       Comparing, Measuring, Matching, Copying, CopyingN, Padding,
       StringsKeepTheirPromise
<1> QED
    BY <1>2, <1>3 DEF StringsInv

(* The first loop of each function, its invariant established.             *)
LEMMA EnterInv == ASSUME StringsInv, Enter PROVE StringsInv'
<1> USE MemSizeAssumption, ByteMaxAssumption
<1>1. PICK c \in Calls :
        /\ Legal(bytes, c) /\ call' = c /\ loop' = FirstLoop(c)
        /\ d' = IF FirstLoop(c) = "backward" THEN c.dest + c.n ELSE c.dest
        /\ s' = IF FirstLoop(c) = "backward" THEN c.src + c.n ELSE c.src
        /\ n' = c.n
    BY DEF Enter
<1>2. before' = bytes /\ bytes' = bytes
    BY DEF Enter
<1>3. /\ c.fn \in Writers \cup Comparers /\ c.dest \in Nat /\ c.src \in Nat
      /\ c.n \in Nat
    BY DEF Calls
<1>4. /\ c.fn = "memset"  => loop' = "fill"
      /\ c.fn = "memcpy"  => loop' = "forward"
      /\ c.fn = "memmove" => loop' = Direction(c)
      /\ c.fn = "memcmp"  => loop' = "compare"
      /\ c.fn = "strlen"  => loop' = "measure"
      /\ c.fn \in {"strcmp", "strncmp"} => loop' = "match"
      /\ c.fn = "strcpy"  => loop' = "copy"
      /\ c.fn = "strncpy" => loop' = "copyn"
    BY <1>1 DEF FirstLoop
<1>5. Direction(c) \in {"forward", "backward", "same"}
    BY DEF Direction
<1>6. Typed'
    BY <1>1, <1>2, <1>3, <1>4, <1>5
       DEF StringsInv, Typed, Loops, Writers, Comparers
<1>7. WasLegal'
  <2>1. Legal(before', call')
      BY <1>1, <1>2
  <2> QED
      BY <1>1, <2>1 DEF WasLegal, Legal, Ends, IsString, Exists, Apart
<1>8. loop' # "pad" /\ loop' # "return"
    BY <1>3, <1>4, <1>5 DEF Writers, Comparers
<1>9. /\ loop' = "fill" => c.fn = "memset"
      /\ loop' = "forward" => c.fn = "memcpy" \/ (c.fn = "memmove" /\ c.dest < c.src)
      /\ loop' = "backward" => c.fn = "memmove" /\ c.dest > c.src
      /\ loop' = "same" => c.fn = "memmove" /\ c.dest = c.src
      /\ loop' = "compare" => c.fn = "memcmp"
      /\ loop' = "measure" => c.fn = "strlen"
      /\ loop' = "match" => c.fn \in {"strcmp", "strncmp"}
      /\ loop' = "copy" => c.fn = "strcpy"
      /\ loop' = "copyn" => c.fn = "strncpy"
    BY <1>3, <1>4 DEF Direction, Writers, Comparers
<1>10. /\ loop' # "backward" => d' = c.dest /\ s' = c.src
       /\ loop' = "backward" => d' = c.dest + c.n /\ s' = c.src + c.n
    BY <1>1
<1>11. call' = c /\ n' = c.n /\ Counted'
    BY <1>1, <1>3 DEF Counted
<1>12. Done' = 0
    BY <1>11, <1>3 DEF Done
<1>13. ASSUME NEW a \in Addr PROVE Moved(a, 0)' = before'[a]
    BY <1>11, <1>3 DEF Moved, Addr
<1>14. Filling' /\ Staying'
    BY <1>2, <1>3, <1>9, <1>10, <1>11, <1>12 DEF Filling, Staying, Addr
<1>15. Forwarding'
  <2> SUFFICES ASSUME loop' = "forward" PROVE Forwarding'
      BY DEF Forwarding
  <2>1. Paired(0)' /\ Paired(Done)'
      BY <1>3, <1>10, <1>11, <1>12 DEF Paired
  <2> QED
      BY <2>1, <1>2, <1>9, <1>11, <1>12, <1>13 DEF Forwarding
<1>16. Backwarding'
    BY <1>2, <1>3, <1>9, <1>10, <1>11 DEF Backwarding, Paired, Addr
<1>17. Comparing'
    BY <1>2, <1>3, <1>9, <1>10, <1>11, <1>12 DEF Comparing, Paired, Same
<1>18. Measuring'
  <2>1. c.fn = "strlen" => c.n = 0
      BY <1>1 DEF Legal
  <2> QED
      BY <2>1, <1>2, <1>3, <1>9, <1>10, <1>11 DEF Measuring
<1>19. Matching'
    BY <1>2, <1>3, <1>9, <1>10, <1>11, <1>12
       DEF Matching, Paired, Same, NoEnd
<1>20. Copying'
    BY <1>2, <1>3, <1>9, <1>10, <1>11, <1>13
       DEF Copying, Paired, Passed
<1>21. CopyingN'
    BY <1>2, <1>3, <1>9, <1>10, <1>11, <1>12, <1>13
       DEF CopyingN, Paired, Passed
<1> QED
    BY <1>6, <1>7, <1>8, <1>14, <1>15, <1>16, <1>17, <1>18, <1>19, <1>20, <1>21
       DEF StringsInv, Rounds, Padding, StringsKeepTheirPromise

LEMMA LeaveInv == ASSUME StringsInv, Leave PROVE StringsInv'
<1>1. loop' = "idle"
    BY DEF Leave
<1>2. Typed'
    BY DEF StringsInv, Typed, Leave, Loops
<1> QED
    BY <1>1, <1>2 DEF StringsInv, WasLegal, Rounds, Filling, Forwarding, Backwarding,
       Staying, Comparing, Measuring, Matching, Copying, CopyingN, Padding,
       StringsKeepTheirPromise

----------------------------------------------------------------------------
(* The rounds.  A round stays in its loop and leaves the call alone, so    *)
(* only that loop's invariant is to be shown.                              *)

LEMMA FillInv == ASSUME StringsInv, Fill PROVE StringsInv'
<1> USE MemSizeAssumption, ByteMaxAssumption
<1>1. /\ loop = "fill" /\ n > 0 /\ d' = d + 1 /\ n' = n - 1 /\ s' = s
      /\ bytes' = [bytes EXCEPT ![d] = call.val]
      /\ UNCHANGED <<before, call, ret, loop>>
    BY DEF Fill, Store, Going
<1>2. call \in Calls /\ call.fn = "memset" /\ Legal(before, call)
    BY <1>1 DEF StringsInv, WasLegal, Rounds, Filling
<1>3. Typed'
  <2>1. bytes' \in [Addr -> Bytes]
      BY <1>1, <1>2 DEF StringsInv, Typed, Calls
  <2> QED
      BY <1>1, <2>1 DEF StringsInv, Typed
<1>4. Filling'
    BY <1>1, <1>2 DEF StringsInv, Typed, Rounds, Filling, Counted, Done, Calls, Addr
<1> QED
    BY <1>1, <1>2, <1>3, <1>4
       DEF StringsInv, WasLegal, Rounds, Forwarding, Backwarding,
       Staying, Comparing, Measuring, Matching, Copying, CopyingN, Padding,
       StringsKeepTheirPromise

LEMMA ForwardInv == ASSUME StringsInv, Forward PROVE StringsInv'
<1> USE MemSizeAssumption, ByteMaxAssumption
<1>1. /\ loop = "forward" /\ n > 0 /\ d' = d + 1 /\ s' = s + 1 /\ n' = n - 1
      /\ bytes' = [bytes EXCEPT ![d] = bytes[s]]
      /\ UNCHANGED <<before, call, ret, loop>>
    BY DEF Forward, Store, Advance, Going
<1>2. /\ call \in Calls /\ Legal(before, call)
      /\ call.fn = "memcpy" \/ (call.fn = "memmove" /\ call.dest < call.src)
      /\ Counted /\ Paired(Done) /\ \A a \in Addr : bytes[a] = Moved(a, Done)
    BY <1>1 DEF StringsInv, WasLegal, Rounds, Forwarding
<1>3. /\ call.dest \in Nat /\ call.src \in Nat /\ call.n \in Nat
      /\ n \in Nat /\ n <= call.n /\ Done \in Nat
      /\ d = call.dest + Done /\ s = call.src + Done /\ Done < call.n
    BY <1>1, <1>2 DEF Calls, Counted, Done, Paired
<1>4. /\ call.dest + call.n <= MemSize /\ call.src + call.n <= MemSize
      /\ call.dest < call.src \/ call.src + call.n <= call.dest
  <2>1. CASE call.fn = "memcpy"
      BY <2>1, <1>2, <1>3 DEF Legal, Exists, Apart
  <2>2. CASE call.fn = "memmove" /\ call.dest < call.src
      BY <2>2, <1>2 DEF Legal, Exists
  <2> QED
      BY <2>1, <2>2, <1>2
<1>5. d \in Addr /\ s \in Addr
    BY <1>3, <1>4 DEF Addr
<1>6. bytes[s] = before[s]
    BY <1>2, <1>3, <1>4, <1>5 DEF Moved
<1>7. Typed'
    BY <1>1, <1>5 DEF StringsInv, Typed
<1>8. Done' = Done + 1 /\ Counted'
    BY <1>1, <1>2, <1>3 DEF Done, Counted
<1>9. Paired(Done)'
    BY <1>1, <1>3, <1>8 DEF Paired
<1>10. ASSUME NEW a \in Addr PROVE bytes'[a] = Moved(a, Done)'
  <2>1. CASE a = d
      BY <2>1, <1>1, <1>3, <1>5, <1>6, <1>8 DEF Moved, StringsInv, Typed
  <2>2. CASE a # d
    <3>1. bytes'[a] = Moved(a, Done)
        BY <2>2, <1>1, <1>2 DEF StringsInv, Typed
    <3> QED
        BY <3>1, <2>2, <1>1, <1>3, <1>8 DEF Moved, Addr
  <2> QED
      BY <2>1, <2>2
<1>11. Forwarding'
    BY <1>1, <1>2, <1>8, <1>9, <1>10 DEF Forwarding
<1> QED
    BY <1>1, <1>2, <1>7, <1>11
       DEF StringsInv, WasLegal, Rounds, Filling, Backwarding,
       Staying, Comparing, Measuring, Matching, Copying, CopyingN, Padding,
       StringsKeepTheirPromise

LEMMA BackwardInv == ASSUME StringsInv, Backward PROVE StringsInv'
<1> USE MemSizeAssumption, ByteMaxAssumption
<1>1. /\ loop = "backward" /\ n > 0 /\ d' = d - 1 /\ s' = s - 1 /\ n' = n - 1
      /\ bytes' = [bytes EXCEPT ![d - 1] = bytes[s - 1]]
      /\ UNCHANGED <<before, call, ret, loop>>
    BY DEF Backward, Store, Advance, Going, StringsInv, Typed
<1>2. /\ call \in Calls /\ Legal(before, call)
      /\ call.fn = "memmove" /\ call.dest > call.src
      /\ Counted /\ Paired(n)
      /\ \A a \in Addr : bytes[a] =
            IF d <= a /\ a < call.dest + call.n
            THEN before[a - call.dest + call.src] ELSE before[a]
    BY <1>1 DEF StringsInv, WasLegal, Rounds, Backwarding
<1>3. /\ call.dest \in Nat /\ call.src \in Nat /\ call.n \in Nat
      /\ n \in Nat /\ n <= call.n /\ d = call.dest + n /\ s = call.src + n
    BY <1>1, <1>2 DEF Calls, Counted, Paired
<1>4. call.dest + call.n <= MemSize /\ call.src + call.n <= MemSize
    BY <1>2 DEF Legal, Exists
<1>5. d - 1 \in Addr /\ s - 1 \in Addr
    BY <1>1, <1>3, <1>4 DEF Addr
<1>6. bytes[s - 1] = before[s - 1]
    BY <1>2, <1>3, <1>5
<1>7. Typed'
    BY <1>1, <1>5 DEF StringsInv, Typed
<1>8. Counted' /\ Paired(n)'
    BY <1>1, <1>3 DEF Counted, Paired
<1>9. ASSUME NEW a \in Addr
      PROVE bytes'[a] =
              IF d' <= a /\ a < call.dest + call.n
              THEN before[a - call.dest + call.src] ELSE before[a]
  <2>1. CASE a = d - 1
      BY <2>1, <1>1, <1>3, <1>5, <1>6 DEF StringsInv, Typed
  <2>2. CASE a # d - 1
    <3>1. bytes'[a] = bytes[a]
        BY <2>2, <1>1 DEF StringsInv, Typed
    <3> QED
        BY <3>1, <2>2, <1>1, <1>2, <1>3 DEF Addr
  <2> QED
      BY <2>1, <2>2
<1>10. Backwarding'
    BY <1>1, <1>2, <1>8, <1>9 DEF Backwarding
<1> QED
    BY <1>1, <1>2, <1>7, <1>10
       DEF StringsInv, WasLegal, Rounds, Filling, Forwarding,
       Staying, Comparing, Measuring, Matching, Copying, CopyingN, Padding,
       StringsKeepTheirPromise

(* The loops that only read.                                               *)
LEMMA CompareInv == ASSUME StringsInv, Compare PROVE StringsInv'
<1>1. /\ loop = "compare" /\ n > 0 /\ d' = d + 1 /\ s' = s + 1 /\ n' = n - 1
      /\ bytes[d] = bytes[s]
      /\ UNCHANGED <<bytes, before, call, ret, loop>>
    BY DEF Compare, Advance, Going
<1>2. /\ call \in Calls /\ call.fn = "memcmp" /\ Counted /\ Paired(Done)
      /\ Same(Done) /\ bytes = before
    BY <1>1 DEF StringsInv, WasLegal, Rounds, Comparing
<1>3. /\ call.n \in Nat /\ call.dest \in Nat /\ call.src \in Nat
      /\ n \in Nat /\ n <= call.n /\ Done \in Nat
    BY <1>2, MemSizeAssumption DEF Calls, Counted, Done
<1>4. Done' = Done + 1 /\ Counted'
    BY <1>1, <1>3 DEF Done, Counted
<1>5. Paired(Done)'
    BY <1>1, <1>2, <1>3, <1>4 DEF Paired
<1>6. before[call.dest + Done] = before[call.src + Done]
    BY <1>1, <1>2 DEF Paired
<1>7. Same(Done)'
    BY <1>1, <1>2, <1>3, <1>4, <1>6 DEF Same
<1>8. Typed'
    BY <1>1 DEF StringsInv, Typed
<1> QED
    BY <1>1, <1>2, <1>4, <1>5, <1>7, <1>8
       DEF StringsInv, WasLegal, Rounds, Filling, Forwarding, Backwarding,
       Staying, Comparing, Measuring, Matching, Copying, CopyingN, Padding,
       StringsKeepTheirPromise

LEMMA MeasureInv == ASSUME StringsInv, Measure PROVE StringsInv'
<1>1. /\ loop = "measure" /\ n' = n + 1 /\ bytes[s + n] # 0
      /\ UNCHANGED <<bytes, before, call, d, s, ret, loop>>
    BY DEF Measure, Going
<1>2. Typed'
    BY <1>1 DEF StringsInv, Typed
<1>3. Measuring'
    BY <1>1 DEF StringsInv, Typed, Rounds, Measuring
<1> QED
    BY <1>1, <1>2, <1>3
       DEF StringsInv, WasLegal, Rounds, Filling, Forwarding, Backwarding,
       Staying, Comparing, Matching, Copying, CopyingN, Padding,
       StringsKeepTheirPromise

LEMMA MatchInv == ASSUME StringsInv, Match PROVE StringsInv'
<1>1. /\ loop = "match" /\ (Counting => n > 0) /\ Alike
      /\ d' = d + 1 /\ s' = s + 1 /\ n' = IF Counting THEN n - 1 ELSE n
      /\ UNCHANGED <<bytes, before, call, ret, loop>>
    BY DEF Match, Advance, Going
<1>2. /\ call \in Calls /\ call.fn \in {"strcmp", "strncmp"} /\ bytes = before
      /\ d >= call.dest /\ Paired(d - call.dest)
      /\ NoEnd(d - call.dest) /\ Same(d - call.dest)
      /\ call.fn = "strncmp" => Counted /\ d - call.dest = Done
    BY <1>1 DEF StringsInv, WasLegal, Rounds, Matching
<1>3. /\ call.n \in Nat /\ call.dest \in Nat /\ call.src \in Nat
      /\ n \in Int /\ d \in Int /\ s \in Int
    BY <1>2, MemSizeAssumption DEF Calls, StringsInv, Typed
<1>4. PICK k \in Nat : k = d - call.dest
    BY <1>2, <1>3
<1>5. d' - call.dest = k + 1 /\ d = call.dest + k /\ s = call.src + k
    BY <1>1, <1>2, <1>3, <1>4 DEF Paired
<1>6. before[call.dest + k] # 0 /\ before[call.dest + k] = before[call.src + k]
    BY <1>1, <1>2, <1>5 DEF Alike
<1>7. NoEnd(k + 1)' /\ Same(k + 1)'
    BY <1>1, <1>2, <1>4, <1>6 DEF NoEnd, Same
<1>8. Paired(k + 1)'
    BY <1>1, <1>3, <1>5 DEF Paired
<1>9. call.fn = "strncmp" => Counted' /\ k + 1 = Done'
    BY <1>1, <1>2, <1>3, <1>4 DEF Counting, Counted, Done
<1>10. Typed'
    BY <1>1 DEF StringsInv, Typed
<1>11. Matching'
    BY <1>1, <1>2, <1>3, <1>4, <1>5, <1>7, <1>8, <1>9 DEF Matching
<1> QED
    BY <1>1, <1>2, <1>10, <1>11
       DEF StringsInv, WasLegal, Rounds, Filling, Forwarding, Backwarding,
       Staying, Comparing, Measuring, Copying, CopyingN, Padding,
       StringsKeepTheirPromise

----------------------------------------------------------------------------
(* The loops that end with the source.                                     *)

(* The source of strcpy and strncpy, up to its end or to the count, is in  *)
(* memory, and what is written so far is apart from it.                    *)
LEMMA CopySource ==
    ASSUME Typed, WasLegal, loop = "copy", Copying
    PROVE  /\ d \in Addr /\ s \in Addr /\ bytes[s] = before[s]
           /\ call.dest \in Nat /\ call.src \in Nat
<1> USE MemSizeAssumption, ByteMaxAssumption
<1>1. /\ call \in Calls /\ Legal(before, call) /\ call.fn = "strcpy"
      /\ s >= call.src /\ Paired(s - call.src) /\ Passed
      /\ \A a \in Addr : bytes[a] = Moved(a, s - call.src)
    BY DEF WasLegal, Copying
<1>2. PICK z \in Addr :
        /\ Ends(before, call.src, z)
        /\ Exists(call.dest, z - call.src + 1)
        /\ Apart(call.dest, z - call.src + 1, call.src, z - call.src + 1)
    BY <1>1 DEF Legal
<1>3. call.dest \in Nat /\ call.src \in Nat /\ s \in Nat /\ z \in Nat /\ z < MemSize
    BY <1>1 DEF Calls, Addr, Typed
<1>4. s <= z
    BY <1>1, <1>2, <1>3 DEF Passed, Ends
<1>5. d = call.dest + (s - call.src) /\ d \in Addr /\ s \in Addr
    BY <1>1, <1>2, <1>3, <1>4 DEF Paired, Exists, Addr
<1>6. ~ (call.dest <= s /\ s < call.dest + (s - call.src))
    BY <1>1, <1>2, <1>3, <1>4 DEF Apart
<1> QED
    BY <1>1, <1>3, <1>5, <1>6 DEF Moved

LEMMA CopyInv == ASSUME StringsInv, Copy PROVE StringsInv'
<1> USE MemSizeAssumption, ByteMaxAssumption
<1>1. /\ loop = "copy" /\ d' = d + 1 /\ s' = s + 1
      /\ bytes' = [bytes EXCEPT ![d] = bytes[s]]
      /\ UNCHANGED <<before, call, n>>
      /\ IF bytes[s] = 0 THEN loop' = "return" /\ ret' = call.dest
                         ELSE UNCHANGED <<loop, ret>>
    BY DEF Copy, Store, Advance
<1>2. /\ call \in Calls /\ Legal(before, call) /\ call.fn = "strcpy"
      /\ s >= call.src /\ Paired(s - call.src) /\ Passed
      /\ \A a \in Addr : bytes[a] = Moved(a, s - call.src)
    BY <1>1 DEF StringsInv, WasLegal, Rounds, Copying
<1>3. /\ d \in Addr /\ s \in Addr /\ bytes[s] = before[s]
      /\ call.dest \in Nat /\ call.src \in Nat
    BY <1>1, CopySource DEF StringsInv, Rounds
<1>4. Typed'
    BY <1>1, <1>3 DEF StringsInv, Typed, Loops
<1>5. s \in Nat /\ d = call.dest + (s - call.src)
    BY <1>2, <1>3 DEF Addr, Paired
<1>6. ASSUME NEW a \in Addr PROVE bytes'[a] = Moved(a, s - call.src + 1)
  <2>1. CASE a = d
      BY <2>1, <1>1, <1>2, <1>3, <1>5 DEF Moved, StringsInv, Typed
  <2>2. CASE a # d
    <3>1. bytes'[a] = Moved(a, s - call.src)
        BY <2>2, <1>1, <1>2 DEF StringsInv, Typed
    <3> QED
        BY <3>1, <2>2, <1>2, <1>3, <1>5 DEF Moved, Addr
  <2> QED
      BY <2>1, <2>2
<1>7. CASE bytes[s] # 0
  <2>1. Passed'
      BY <1>1, <1>2, <1>3, <1>5, <1>7 DEF Passed
  <2>2. s' - call.src = s - call.src + 1
      BY <1>1, <1>3, <1>5
  <2>3. Paired(s - call.src)'
      BY <1>1, <1>3, <1>5 DEF Paired
  <2>4. \A a \in Addr : bytes'[a] = Moved(a, s - call.src)'
      BY <1>1, <1>6, <2>2 DEF Moved
  <2>5. Copying'
      BY <1>1, <1>2, <1>3, <1>5, <2>1, <2>3, <2>4 DEF Copying
  <2> QED
      BY <1>1, <1>2, <1>4, <1>7, <2>5
         DEF StringsInv, WasLegal, Rounds, Filling, Forwarding, Backwarding,
         Staying, Comparing, Measuring, Matching, CopyingN, Padding,
         StringsKeepTheirPromise
<1>8. CASE bytes[s] = 0
  <2>1. ASSUME NEW z \in Addr, Ends(before, call.src, z) PROVE z = s
    <3>1. /\ z \in Nat /\ call.src <= z /\ before[z] = 0 /\ before[s] = 0
          /\ \A k \in call.src .. z - 1 : before[k] # 0
        BY <2>1, <1>3, <1>8 DEF Ends, Addr
    <3>2. ~ (z < s)
        BY <3>1, <1>2, <1>3, <1>5 DEF Passed
    <3>3. ~ (s < z)
        BY <3>1, <1>2, <1>3, <1>5
    <3> QED
        BY <3>1, <3>2, <3>3, <1>5
  <2>2. \A z \in Addr : Ends(before, call.src, z) =>
           \A a \in Addr : bytes'[a] = Moved(a, z - call.src + 1)
      BY <2>1, <1>6
  <2>3. Written'
      BY <2>2, <1>1, <1>2 DEF Written, Moved
  <2>4. Answer'
      BY <1>1, <1>2, <1>8 DEF Answer
  <2> QED
      BY <1>1, <1>2, <1>4, <1>8, <2>3, <2>4
         DEF StringsInv, WasLegal, Rounds, Filling, Forwarding, Backwarding,
         Staying, Comparing, Measuring, Matching, Copying, CopyingN, Padding,
         StringsKeepTheirPromise
<1> QED
    BY <1>7, <1>8

LEMMA CopyNSource ==
    ASSUME Typed, WasLegal, loop = "copyn", n > 0, CopyingN
    PROVE  /\ d \in Addr /\ s \in Addr /\ bytes[s] = before[s]
           /\ call.dest \in Nat /\ call.src \in Nat
<1> USE MemSizeAssumption, ByteMaxAssumption
<1>1. /\ call \in Calls /\ Legal(before, call) /\ call.fn = "strncpy"
      /\ Counted /\ Paired(Done) /\ Passed
      /\ \A a \in Addr : bytes[a] = Moved(a, Done)
    BY DEF WasLegal, CopyingN
<1>2. /\ call.dest \in Nat /\ call.src \in Nat /\ call.n \in Nat
      /\ n \in Nat /\ n <= call.n /\ Done \in Nat /\ Done < call.n
      /\ d = call.dest + Done /\ s = call.src + Done
    BY <1>1 DEF Calls, Counted, Done, Paired
<1>3. Exists(call.dest, call.n)
    BY <1>1 DEF Legal
<1>4. s \in Addr /\ ~ (call.dest <= s /\ s < call.dest + Done)
  <2>1. CASE Exists(call.src, call.n) /\ Apart(call.dest, call.n, call.src, call.n)
      BY <2>1, <1>2 DEF Exists, Apart, Addr
  <2>2. CASE \E z \in Addr :
               /\ Ends(before, call.src, z)
               /\ Apart(call.dest, call.n, call.src, z - call.src + 1)
    <3>1. PICK z \in Addr :
             /\ Ends(before, call.src, z)
             /\ Apart(call.dest, call.n, call.src, z - call.src + 1)
        BY <2>2
    <3>2. s <= z
        BY <3>1, <1>1, <1>2 DEF Passed, Ends, Addr
    <3> QED
        BY <3>1, <3>2, <1>2 DEF Apart, Addr
  <2> QED
      BY <2>1, <2>2, <1>1 DEF Legal
<1>5. d \in Addr
    BY <1>2, <1>3 DEF Exists, Addr
<1> QED
    BY <1>1, <1>2, <1>4, <1>5 DEF Moved

LEMMA CopyNInv == ASSUME StringsInv, CopyN PROVE StringsInv'
<1> USE MemSizeAssumption, ByteMaxAssumption
<1>1. /\ loop = "copyn" /\ n > 0 /\ bytes[s] # 0
      /\ d' = d + 1 /\ s' = s + 1 /\ n' = n - 1
      /\ bytes' = [bytes EXCEPT ![d] = bytes[s]]
      /\ UNCHANGED <<before, call, ret, loop>>
    BY DEF CopyN, Store, Advance, Going
<1>2. /\ call \in Calls /\ Legal(before, call) /\ call.fn = "strncpy"
      /\ Counted /\ Paired(Done) /\ Passed
      /\ \A a \in Addr : bytes[a] = Moved(a, Done)
    BY <1>1 DEF StringsInv, WasLegal, Rounds, CopyingN
<1>3. /\ d \in Addr /\ s \in Addr /\ bytes[s] = before[s]
      /\ call.dest \in Nat /\ call.src \in Nat
    BY <1>1, CopyNSource DEF StringsInv, Rounds
<1>4. /\ call.n \in Nat /\ n \in Nat /\ n <= call.n /\ Done \in Nat /\ Done < call.n
      /\ d = call.dest + Done /\ s = call.src + Done
    BY <1>1, <1>2 DEF Calls, Counted, Done, Paired
<1>5. Typed'
    BY <1>1, <1>3 DEF StringsInv, Typed, Loops
<1>6. Counted' /\ Done' = Done + 1
    BY <1>1, <1>4 DEF Counted, Done
<1>7. Paired(Done)'
    BY <1>1, <1>3, <1>4, <1>6 DEF Paired
<1>8. Passed'
    BY <1>1, <1>2, <1>3, <1>4 DEF Passed
<1>9. ASSUME NEW a \in Addr PROVE bytes'[a] = Moved(a, Done)'
  <2>1. CASE a = d
      BY <2>1, <1>1, <1>3, <1>4, <1>6 DEF Moved, StringsInv, Typed
  <2>2. CASE a # d
    <3>1. bytes'[a] = Moved(a, Done)
        BY <2>2, <1>1, <1>2 DEF StringsInv, Typed
    <3> QED
        BY <3>1, <2>2, <1>1, <1>3, <1>4, <1>6 DEF Moved, Addr
  <2> QED
      BY <2>1, <2>2
<1>10. CopyingN'
    BY <1>1, <1>2, <1>6, <1>7, <1>8, <1>9 DEF CopyingN
<1> QED
    BY <1>1, <1>2, <1>5, <1>10
       DEF StringsInv, WasLegal, Rounds, Filling, Forwarding, Backwarding,
       Staying, Comparing, Measuring, Matching, Copying, Padding,
       StringsKeepTheirPromise

LEMMA CopiedNInv == ASSUME StringsInv, CopiedN PROVE StringsInv'
<1> USE MemSizeAssumption, ByteMaxAssumption
<1>1. /\ loop = "copyn" /\ ~ (n > 0 /\ bytes[s] # 0) /\ loop' = "pad"
      /\ UNCHANGED <<bytes, before, call, d, s, n, ret>>
    BY DEF CopiedN
<1>2. /\ call \in Calls /\ call.fn = "strncpy"
      /\ Counted /\ Paired(Done) /\ Passed
      /\ \A a \in Addr : bytes[a] = Moved(a, Done)
    BY <1>1 DEF StringsInv, WasLegal, Rounds, CopyingN
<1>3. /\ call.dest \in Nat /\ call.src \in Nat /\ call.n \in Nat
      /\ n \in Nat /\ n <= call.n /\ Done \in Nat
      /\ d = call.dest + Done /\ s = call.src + Done /\ s - call.src = Done
    BY <1>2 DEF Calls, Counted, Done, Paired
<1>4. s - call.src = call.n \/ Ends(before, call.src, s)
  <2>1. CASE n = 0
      BY <2>1, <1>3 DEF Done
  <2>2. CASE n # 0
    <3>1. n > 0 /\ bytes[s] = 0
        BY <2>2, <1>1, <1>3
    <3>2. s \in Addr /\ bytes[s] = before[s]
        BY <3>1, <1>1, CopyNSource DEF StringsInv, Rounds
    <3> QED
        BY <3>1, <3>2, <1>2, <1>3 DEF Ends, Passed
  <2> QED
      BY <2>1, <2>2
<1>5. Typed'
    BY <1>1 DEF StringsInv, Typed, Loops
<1>6. ASSUME NEW a \in Addr
      PROVE bytes[a] = IF call.dest + (s - call.src) <= a /\ a < d
                       THEN 0 ELSE Moved(a, s - call.src)
    BY <1>2, <1>3 DEF Addr
<1>7. Padding'
  <2>1. Counted' /\ Done' = Done /\ Passed'
      BY <1>1, <1>2 DEF Counted, Done, Passed
  <2>2. s' - call'.src = call'.n \/ Ends(before', call'.src, s')
      BY <1>1, <1>4
  <2>3. \A a \in Addr : bytes'[a] =
          IF call'.dest + (s' - call'.src) <= a /\ a < d'
          THEN 0 ELSE Moved(a, s - call.src)'
      BY <1>1, <1>6 DEF Moved
  <2> QED
      BY <2>1, <2>2, <2>3, <1>1, <1>2, <1>3 DEF Padding
<1> QED
    BY <1>1, <1>2, <1>5, <1>7
       DEF StringsInv, WasLegal, Rounds, Filling, Forwarding, Backwarding,
       Staying, Comparing, Measuring, Matching, Copying, CopyingN,
       StringsKeepTheirPromise

LEMMA PadInv == ASSUME StringsInv, Pad PROVE StringsInv'
<1> USE MemSizeAssumption, ByteMaxAssumption
<1>1. /\ loop = "pad" /\ n > 0 /\ d' = d + 1 /\ n' = n - 1 /\ s' = s
      /\ bytes' = [bytes EXCEPT ![d] = 0]
      /\ UNCHANGED <<before, call, ret, loop>>
    BY DEF Pad, Store, Going
<1>2. /\ call \in Calls /\ Legal(before, call) /\ call.fn = "strncpy"
      /\ Counted /\ d = call.dest + Done
      /\ s >= call.src /\ s - call.src <= Done /\ Passed
      /\ s - call.src = call.n \/ Ends(before, call.src, s)
      /\ \A a \in Addr : bytes[a] =
            IF call.dest + (s - call.src) <= a /\ a < d
            THEN 0 ELSE Moved(a, s - call.src)
    BY <1>1 DEF StringsInv, WasLegal, Rounds, Padding
<1>3. /\ call.dest \in Nat /\ call.src \in Nat /\ call.n \in Nat /\ s \in Int
      /\ n \in Nat /\ n <= call.n /\ Done \in Nat /\ Done < call.n
    BY <1>1, <1>2 DEF Calls, Counted, Done, StringsInv, Typed
<1>4. call.dest + call.n <= MemSize
    BY <1>2 DEF Legal, Exists
<1>5. d \in Addr
    BY <1>2, <1>3, <1>4 DEF Addr
<1>6. 0 \in Bytes
    BY DEF Bytes
<1>7. Typed'
    BY <1>1, <1>5, <1>6 DEF StringsInv, Typed
<1>8. Counted' /\ Done' = Done + 1
    BY <1>1, <1>3 DEF Counted, Done
<1>9. ASSUME NEW a \in Addr
      PROVE bytes'[a] = IF call.dest + (s - call.src) <= a /\ a < d'
                        THEN 0 ELSE Moved(a, s - call.src)
  <2>1. CASE a = d
      BY <2>1, <1>1, <1>2, <1>3, <1>5 DEF StringsInv, Typed
  <2>2. CASE a # d
    <3>1. bytes'[a] = bytes[a]
        BY <2>2, <1>1 DEF StringsInv, Typed
    <3>2. a < d' <=> a < d
        BY <2>2, <1>1, <1>5 DEF Addr
    <3> QED
        BY <3>1, <3>2, <1>2
  <2> QED
      BY <2>1, <2>2
<1>10. Padding'
  <2>1. Passed' /\ (s' - call'.src = call'.n \/ Ends(before', call'.src, s'))
      BY <1>1, <1>2 DEF Passed
  <2>2. \A a \in Addr : bytes'[a] =
          IF call'.dest + (s' - call'.src) <= a /\ a < d'
          THEN 0 ELSE Moved(a, s - call.src)'
      BY <1>1, <1>9 DEF Moved
  <2>3. d' = call'.dest + Done' /\ s' >= call'.src /\ s' - call'.src <= Done'
      BY <1>1, <1>2, <1>3, <1>8
  <2> QED
      BY <2>1, <2>2, <2>3, <1>1, <1>2, <1>8 DEF Padding
<1> QED
    BY <1>1, <1>2, <1>7, <1>10
       DEF StringsInv, WasLegal, Rounds, Filling, Forwarding, Backwarding,
       Staying, Comparing, Measuring, Matching, Copying, CopyingN,
       StringsKeepTheirPromise

----------------------------------------------------------------------------
(* The ends of the loops: the promise.                                     *)

(* A step that only returns keeps everything but ret and loop.             *)
LEMMA ReturnInv ==
    ASSUME StringsInv, loop # "idle", NEW value, Return(value), Written', Answer'
    PROVE  StringsInv'
<1>1. /\ loop' = "return"
      /\ UNCHANGED <<bytes, before, call, d, s, n>>
    BY DEF Return
<1>2. Typed'
    BY <1>1 DEF StringsInv, Typed, Loops
<1> QED
    BY <1>1, <1>2
       DEF StringsInv, WasLegal, Rounds, Filling, Forwarding, Backwarding,
       Staying, Comparing, Measuring, Matching, Copying, CopyingN, Padding,
       StringsKeepTheirPromise

LEMMA CopiedInv == ASSUME StringsInv, Copied PROVE StringsInv'
<1> USE MemSizeAssumption, ByteMaxAssumption
<1>1. /\ Return(call.dest) /\ ret' = call.dest /\ UNCHANGED <<bytes, before, call>>
      /\ loop = "same" \/ (loop \in {"fill", "forward", "backward"} /\ n = 0)
    BY DEF Copied, Return
<1>2. /\ call \in Calls /\ Legal(before, call)
      /\ call.dest \in Nat /\ call.src \in Nat /\ call.n \in Nat
    BY <1>1 DEF StringsInv, WasLegal, Calls
<1>3. Written'
  <2>1. CASE loop = "fill" /\ n = 0
    <3>1. call.fn = "memset" /\ d = call.dest + call.n
        BY <2>1, <1>2 DEF StringsInv, Rounds, Filling, Done
    <3>2. \A a \in Addr : bytes[a] =
             IF call.dest <= a /\ a < call.dest + call.n THEN call.val ELSE before[a]
        BY <2>1, <3>1 DEF StringsInv, Rounds, Filling
    <3> QED
        BY <3>1, <3>2, <1>1 DEF Written
  <2>2. CASE loop = "forward" /\ n = 0
    <3>1. call.fn \in {"memcpy", "memmove"} /\ Done = call.n
        BY <2>2, <1>2 DEF StringsInv, Rounds, Forwarding, Done
    <3>2. \A a \in Addr : bytes[a] = Moved(a, call.n)
        BY <2>2, <3>1 DEF StringsInv, Rounds, Forwarding
    <3> QED
        BY <3>1, <3>2, <1>1 DEF Written, Moved
  <2>3. CASE loop = "backward" /\ n = 0
    <3>1. call.fn = "memmove" /\ d = call.dest
        BY <2>3, <1>2 DEF StringsInv, Rounds, Backwarding, Paired
    <3>2. \A a \in Addr : bytes[a] = Moved(a, call.n)
        BY <2>3, <3>1 DEF StringsInv, Rounds, Backwarding, Moved
    <3> QED
        BY <3>1, <3>2, <1>1 DEF Written, Moved
  <2>4. CASE loop = "same"
    <3>1. call.fn = "memmove" /\ call.dest = call.src /\ bytes = before
        BY <2>4 DEF StringsInv, Rounds, Staying
    <3>2. \A a \in Addr : bytes[a] = Moved(a, call.n)
        BY <3>1, <1>2 DEF Moved, Addr
    <3> QED
        BY <3>1, <3>2, <1>1 DEF Written, Moved
  <2> QED
      BY <1>1, <2>1, <2>2, <2>3, <2>4
<1>4. Answer'
  <2>1. call.fn \in {"memset", "memcpy", "memmove"}
      BY <1>1 DEF StringsInv, Rounds, Filling, Forwarding, Backwarding, Staying
  <2> QED
      BY <2>1, <1>1 DEF Answer
<1> QED
    BY <1>1, <1>3, <1>4, ReturnInv

LEMMA ComparedInv == ASSUME StringsInv, Compared PROVE StringsInv'
<1> USE MemSizeAssumption, ByteMaxAssumption
<1>1. /\ loop = "compare"
      /\ \/ n = 0 /\ Return(0)
         \/ n > 0 /\ bytes[d] # bytes[s] /\ Return(bytes[d] - bytes[s])
    BY DEF Compared
<1>2. UNCHANGED <<bytes, before, call>>
    BY <1>1 DEF Return
<1>3. /\ call \in Calls /\ Legal(before, call) /\ call.fn = "memcmp"
      /\ Counted /\ Paired(Done) /\ Same(Done) /\ bytes = before
    BY <1>1 DEF StringsInv, WasLegal, Rounds, Comparing
<1>4. /\ call.dest \in Nat /\ call.src \in Nat /\ call.n \in Nat
      /\ n \in Nat /\ n <= call.n /\ Done \in Nat
      /\ d = call.dest + Done /\ s = call.src + Done
    BY <1>3 DEF Calls, Counted, Done, Paired
<1>5. Written'
    BY <1>2, <1>3 DEF Written
<1>6. CASE n = 0 /\ Return(0)
  <2>1. ret' = 0 /\ Done = call.n
      BY <1>6, <1>4 DEF Return, Done
  <2>2. Answer'
      BY <2>1, <1>2, <1>3 DEF Answer, Same
  <2> QED
      BY <1>1, <1>5, <1>6, <2>2, ReturnInv
<1>7. CASE n > 0 /\ bytes[d] # bytes[s] /\ Return(bytes[d] - bytes[s])
  <2>1. Done \in 0 .. call.n - 1
      BY <1>4, <1>7 DEF Done
  <2>2. call.dest + call.n <= MemSize /\ call.src + call.n <= MemSize
      BY <1>3 DEF Legal, Exists
  <2>3. d \in Addr /\ s \in Addr
      BY <1>4, <2>1, <2>2 DEF Addr
  <2>4. bytes[d] \in Int /\ bytes[s] \in Int
      BY <2>3 DEF StringsInv, Typed, Bytes
  <2>5. ret' = Difference(Done) /\ ret' # 0
    <3>1. ret' = bytes[d] - bytes[s]
        BY <1>7 DEF Return
    <3>2. bytes[d] - bytes[s] # 0
        BY <1>7, <2>4
    <3> QED
        BY <3>1, <3>2, <1>3, <1>4 DEF Difference
  <2>6. \E k \in 0 .. call.n - 1 : Same(k) /\ ret' = Difference(k) /\ ret' # 0
      BY <2>1, <2>5, <1>3
  <2>7. Answer'
      BY <2>6, <1>2, <1>3 DEF Answer, Same, Difference
  <2> QED
      BY <1>1, <1>5, <1>7, <2>7, ReturnInv
<1> QED
    BY <1>1, <1>6, <1>7

LEMMA MeasuredInv == ASSUME StringsInv, Measured PROVE StringsInv'
<1> USE MemSizeAssumption, ByteMaxAssumption
<1>1. loop = "measure" /\ bytes[s + n] = 0 /\ Return(n)
    BY DEF Measured
<1>2. UNCHANGED <<bytes, before, call>> /\ ret' = n
    BY <1>1 DEF Return
<1>3. /\ call \in Calls /\ Legal(before, call) /\ call.fn = "strlen"
      /\ s = call.src /\ n >= 0 /\ bytes = before
      /\ \A j \in s .. s + n - 1 : before[j] # 0
    BY <1>1 DEF StringsInv, WasLegal, Rounds, Measuring
<1>4. call.src \in Nat /\ n \in Nat
    BY <1>3 DEF Calls, StringsInv, Typed
<1>5. PICK z \in Addr : Ends(before, call.src, z)
    BY <1>3 DEF Legal, IsString
<1>6. z \in Nat /\ z < MemSize /\ before[z] = 0 /\ call.src <= z
    BY <1>5 DEF Addr, Ends
<1>7. call.src + n <= z
    BY <1>3, <1>4, <1>6
<1>8. Ends(before, call.src, call.src + n)
    BY <1>1, <1>3, <1>4, <1>6, <1>7 DEF Ends, Addr
<1>9. Written' /\ Answer'
    BY <1>2, <1>3, <1>8 DEF Written, Answer, Ends
<1> QED
    BY <1>1, <1>9, ReturnInv

(* The characters at which strcmp and strncmp stop are in memory.          *)
LEMMA MatchedAt ==
    ASSUME Typed, WasLegal, loop = "match", Matching, Counting => n > 0
    PROVE  d \in Addr /\ s \in Addr
<1> USE MemSizeAssumption, ByteMaxAssumption
<1>1. /\ call \in Calls /\ Legal(before, call) /\ call.fn \in {"strcmp", "strncmp"}
      /\ d >= call.dest /\ Paired(d - call.dest)
      /\ NoEnd(d - call.dest) /\ Same(d - call.dest)
      /\ call.fn = "strncmp" => Counted /\ d - call.dest = Done
    BY DEF WasLegal, Matching
<1>2. call.dest \in Nat /\ call.src \in Nat /\ call.n \in Nat /\ n \in Int /\ d \in Int
    BY <1>1 DEF Calls, Typed
<1>3. PICK k \in Nat : k = d - call.dest
    BY <1>1, <1>2
<1>4. /\ d = call.dest + k /\ s = call.src + k /\ NoEnd(k) /\ Same(k)
      /\ call.fn = "strncmp" => k < call.n
    BY <1>1, <1>2, <1>3 DEF Paired, Counting, Done
<1>5. \A j \in 0 .. k - 1 :
        before[call.dest + j] # 0 /\ before[call.src + j] # 0
    BY <1>4 DEF NoEnd, Same
<1>6. IsString(before, call.dest) => d \in Addr
  <2> SUFFICES ASSUME NEW z \in Addr, Ends(before, call.dest, z)
               PROVE  d \in Addr
      BY DEF IsString
  <2>1. z \in Nat /\ z < MemSize /\ before[z] = 0 /\ call.dest <= z
      BY DEF Addr, Ends
  <2>2. ~ (z - call.dest \in 0 .. k - 1)
      BY <2>1, <1>2, <1>5
  <2> QED
      BY <2>1, <2>2, <1>2, <1>3, <1>4 DEF Addr
<1>7. IsString(before, call.src) => s \in Addr
  <2> SUFFICES ASSUME NEW z \in Addr, Ends(before, call.src, z)
               PROVE  s \in Addr
      BY DEF IsString
  <2>1. z \in Nat /\ z < MemSize /\ before[z] = 0 /\ call.src <= z
      BY DEF Addr, Ends
  <2>2. ~ (z - call.src \in 0 .. k - 1)
      BY <2>1, <1>2, <1>5
  <2> QED
      BY <2>1, <2>2, <1>2, <1>3, <1>4 DEF Addr
<1>8. CASE call.fn = "strcmp"
    BY <1>1, <1>6, <1>7, <1>8 DEF Legal
<1>9. CASE call.fn = "strncmp"
  <2>1. /\ Exists(call.dest, call.n) \/ IsString(before, call.dest)
        /\ Exists(call.src, call.n) \/ IsString(before, call.src)
      BY <1>1, <1>9 DEF Legal
  <2>2. Exists(call.dest, call.n) => d \in Addr
      BY <1>2, <1>3, <1>4, <1>9 DEF Exists, Addr
  <2>3. Exists(call.src, call.n) => s \in Addr
      BY <1>2, <1>3, <1>4, <1>9 DEF Exists, Addr
  <2> QED
      BY <2>1, <2>2, <2>3, <1>6, <1>7
<1> QED
    BY <1>1, <1>8, <1>9

LEMMA MatchedInv == ASSUME StringsInv, Matched PROVE StringsInv'
<1> USE MemSizeAssumption, ByteMaxAssumption
<1>1. /\ loop = "match"
      /\ \/ Counting /\ n = 0 /\ Return(0)
         \/ (Counting => n > 0) /\ ~ Alike /\ Return(bytes[d] - bytes[s])
    BY DEF Matched
<1>2. UNCHANGED <<bytes, before, call>>
    BY <1>1 DEF Return
<1>3. /\ call \in Calls /\ call.fn \in {"strcmp", "strncmp"} /\ bytes = before
      /\ d >= call.dest /\ Paired(d - call.dest)
      /\ NoEnd(d - call.dest) /\ Same(d - call.dest)
      /\ call.fn = "strncmp" => Counted /\ d - call.dest = Done
    BY <1>1 DEF StringsInv, WasLegal, Rounds, Matching
<1>4. call.dest \in Nat /\ call.src \in Nat /\ call.n \in Nat /\ n \in Int /\ d \in Int
    BY <1>3 DEF Calls, StringsInv, Typed
<1>5. PICK k \in Nat : k = d - call.dest
    BY <1>3, <1>4
<1>6. d = call.dest + k /\ s = call.src + k /\ NoEnd(k) /\ Same(k)
    BY <1>3, <1>4, <1>5 DEF Paired
<1>7. Written'
    BY <1>2, <1>3 DEF Written
<1>8. CASE Counting /\ n = 0 /\ Return(0)
  <2>1. call.fn = "strncmp" /\ k = call.n /\ ret' = 0
      BY <1>3, <1>4, <1>5, <1>8 DEF Counting, Done, Return
  <2>2. Answer'
      BY <2>1, <1>2, <1>6 DEF Answer, Same, NoEnd
  <2> QED
      BY <1>1, <1>7, <1>8, <2>2, ReturnInv
<1>9. CASE (Counting => n > 0) /\ ~ Alike /\ Return(bytes[d] - bytes[s])
  <2>1. d \in Addr /\ s \in Addr
      BY <1>1, <1>9, MatchedAt DEF StringsInv, Rounds
  <2>2. bytes[d] \in Int /\ bytes[s] \in Int
      BY <2>1 DEF StringsInv, Typed, Bytes
  <2>3. ret' = bytes[d] - bytes[s]
      BY <1>9 DEF Return
  <2>4. bytes[d] = 0 \/ bytes[d] - bytes[s] # 0
      BY <1>9, <2>2 DEF Alike
  <2>5. ret' = Difference(k) /\ (ret' # 0 \/ before[call.dest + k] = 0)
      BY <2>3, <2>4, <1>3, <1>6 DEF Difference
  <2>6. ASSUME call.fn = "strcmp" PROVE Answer'
    <3>1. k \in 0 .. MemSize - 1
        BY <2>1, <1>4, <1>6 DEF Addr
    <3>2. \E i \in 0 .. MemSize - 1 :
             /\ NoEnd(i) /\ Same(i) /\ ret' = Difference(i)
             /\ ret' # 0 \/ before[call.dest + i] = 0
        BY <3>1, <2>5, <1>6
    <3> QED
        BY <3>2, <2>6, <1>2 DEF Answer, NoEnd, Same, Difference
  <2>7. ASSUME call.fn = "strncmp" PROVE Answer'
    <3>1. k \in 0 .. call.n - 1
        BY <2>7, <1>3, <1>4, <1>5, <1>9 DEF Counting, Done
    <3>2. \E i \in 0 .. call.n - 1 :
             /\ NoEnd(i) /\ Same(i) /\ ret' = Difference(i)
             /\ ret' # 0 \/ before[call.dest + i] = 0
        BY <3>1, <2>5, <1>6
    <3> QED
        BY <3>2, <2>7, <1>2 DEF Answer, NoEnd, Same, Difference
  <2>8. Answer'
      BY <2>6, <2>7, <1>3
  <2> QED
      BY <1>1, <1>7, <1>9, <2>8, ReturnInv
<1> QED
    BY <1>1, <1>8, <1>9

LEMMA PaddedInv == ASSUME StringsInv, Padded PROVE StringsInv'
<1> USE MemSizeAssumption, ByteMaxAssumption
<1>1. /\ loop = "pad" /\ n = 0 /\ Return(call.dest)
      /\ ret' = call.dest /\ UNCHANGED <<bytes, before, call>>
    BY DEF Padded, Return
<1>2. /\ call \in Calls /\ Legal(before, call) /\ call.fn = "strncpy"
      /\ Counted /\ d = call.dest + Done
      /\ s >= call.src /\ s - call.src <= Done /\ Passed
      /\ s - call.src = call.n \/ Ends(before, call.src, s)
      /\ \A a \in Addr : bytes[a] =
            IF call.dest + (s - call.src) <= a /\ a < d
            THEN 0 ELSE Moved(a, s - call.src)
    BY <1>1 DEF StringsInv, WasLegal, Rounds, Padding
<1>3. /\ call.dest \in Nat /\ call.src \in Nat /\ call.n \in Nat /\ s \in Int
      /\ Done = call.n /\ d = call.dest + call.n
    BY <1>1, <1>2 DEF Calls, Done, StringsInv, Typed
<1>4. Written'
  <2>1. CASE s - call.src = call.n
    <3>1. \A k \in call.src .. call.src + call.n - 1 : before[k] # 0
        BY <1>2, <1>3, <2>1 DEF Passed
    <3>2. \A a \in Addr : bytes[a] = Moved(a, call.n)
        BY <1>2, <1>3, <2>1 DEF Addr
    <3> QED
        BY <3>1, <3>2, <1>1, <1>2 DEF Written, Moved
  <2>2. CASE s - call.src # call.n
    <3>1. s \in Addr /\ Ends(before, call.src, s) /\ s < call.src + call.n
        BY <1>2, <1>3, <2>2 DEF Ends
    <3>2. \A a \in Addr : bytes[a] =
             IF call.dest + (s - call.src) <= a /\ a < call.dest + call.n
             THEN 0 ELSE Moved(a, s - call.src)
        BY <1>2, <1>3
    <3>3. \E z \in Addr :
             /\ Ends(before, call.src, z) /\ z < call.src + call.n
             /\ \A a \in Addr : bytes[a] =
                  IF call.dest + (z - call.src) <= a /\ a < call.dest + call.n
                  THEN 0 ELSE Moved(a, z - call.src)
        BY <3>1, <3>2
    <3> QED
        BY <3>3, <1>1, <1>2 DEF Written, Moved, Ends
  <2> QED
      BY <2>1, <2>2
<1>5. Answer'
    BY <1>1, <1>2 DEF Answer
<1> QED
    BY <1>1, <1>4, <1>5, ReturnInv

----------------------------------------------------------------------------

LEMMA NextInv == StringsInv /\ [StrNext]_strVars => StringsInv'
<1> SUFFICES ASSUME StringsInv, [StrNext]_strVars PROVE StringsInv'
    OBVIOUS
<1>1. CASE Enter
    BY <1>1, EnterInv
<1>2. CASE Fill \/ Forward \/ Backward \/ Copied
    BY <1>2, FillInv, ForwardInv, BackwardInv, CopiedInv
<1>3. CASE Compare \/ Compared \/ Measure \/ Measured \/ Match \/ Matched
    BY <1>3, CompareInv, ComparedInv, MeasureInv, MeasuredInv, MatchInv, MatchedInv
<1>4. CASE Copy \/ CopyN \/ CopiedN \/ Pad \/ Padded
    BY <1>4, CopyInv, CopyNInv, CopiedNInv, PadInv, PaddedInv
<1>5. CASE Leave
    BY <1>5, LeaveInv
<1>6. CASE UNCHANGED strVars
    BY <1>6 DEF strVars, StringsInv, Typed, WasLegal, Done, Counted, Paired, Passed,
       Rounds, Filling, Forwarding, Backwarding, Staying, Comparing, Measuring,
       Matching, Copying, CopyingN, Padding, Moved, Same, NoEnd,
       StringsKeepTheirPromise, Written, Answer, Difference
<1> QED
    BY <1>1, <1>2, <1>3, <1>4, <1>5, <1>6 DEF StrNext, StrStep

(* When one of the functions of string.c returns, its destination holds    *)
(* what the C standard says, no other byte has changed, and the value it   *)
(* returns is right: for every legal call, every content of memory, every  *)
(* size of it and every largest byte.                                      *)
THEOREM StringsAreCorrect == StrSpec => []StringsKeepTheirPromise
<1>1. StringsInv => StringsKeepTheirPromise
    BY DEF StringsInv
<1> QED
    BY InitInv, NextInv, <1>1, PTL DEF StrSpec

----------------------------------------------------------------------------
(* kernel/timer.c and its readers.  The inductive invariant: the counter   *)
(* is the number of ticks modulo its width, and a reader's seconds are     *)
(* those of its first read.                                                *)

LEMMA Division ==
    ASSUME NEW a \in Nat, NEW b \in Nat \ {0}
    PROVE  /\ a \div b \in Nat /\ a % b \in 0 .. b - 1
           /\ a = (a \div b) * b + (a % b)
  OBVIOUS

(* Quotient and remainder are what multiplies back to the number.          *)
LEMMA Quotient ==
    ASSUME NEW q \in Nat, NEW b \in Nat \ {0}, NEW r \in 0 .. b - 1
    PROVE  (q * b + r) \div b = q /\ (q * b + r) % b = r
  OBVIOUS

LEMMA Below ==
    ASSUME NEW a \in Nat, NEW b \in Nat \ {0}, NEW c \in Nat, a < b * c
    PROVE  a \div b < c
  OBVIOUS

LEMMA TimesOrder ==
    ASSUME NEW a \in Nat, NEW b \in Nat, NEW c \in Nat, a <= b
    PROVE  a * c <= b * c /\ a * c \in Nat
  OBVIOUS

(* One tick more, of a counter that wraps.                                 *)
LEMMA TickOn ==
    ASSUME NEW a \in Nat, NEW b \in Nat \ {0}
    PROVE  ((a % b) + 1) % b = (a + 1) % b
  <1>1. PICK q \in Nat, r \in 0 .. b - 1 : a = q * b + r /\ a % b = r
    BY Division
  <1>2. CASE r + 1 < b
    <2>1. a + 1 = q * b + (r + 1) /\ r + 1 \in 0 .. b - 1
      BY <1>1, <1>2
    <2>2. (a + 1) % b = r + 1
      <3>1. (q * b + (r + 1)) % b = r + 1
        BY <2>1, Quotient
      <3> QED  BY <2>1, <3>1, Zenon
    <2>3. (r + 1) % b = r + 1
      BY <2>1
    <2> QED  BY <1>1, <2>2, <2>3
  <1>3. CASE r + 1 = b
    <2>1. a + 1 = (q + 1) * b + 0 /\ 0 \in 0 .. b - 1 /\ q + 1 \in Nat
      BY <1>1, <1>3
    <2>2. (a + 1) % b = 0
      <3>1. ((q + 1) * b + 0) % b = 0
        BY <2>1, Quotient
      <3> QED  BY <2>1, <3>1, Zenon
    <2>3. b % b = 0
      BY Quotient
    <2> QED  BY <1>1, <1>3, <2>2, <2>3
  <1> QED  BY <1>1, <1>2, <1>3

(* A number of seconds below a hundred hours, in the figures of a clock.   *)
LEMMA TimeOfDay ==
    ASSUME NEW total \in Nat
    PROVE  LET m == total \div Sixty
               h == m \div Sixty
           IN  /\ h \in Nat /\ m % Sixty \in 0 .. Sixty - 1
               /\ total % Sixty \in 0 .. Sixty - 1
               /\ IsTime(h, m % Sixty, total % Sixty, total)
               /\ IsTime(h % (Ten * Ten), m % Sixty, total % Sixty,
                         total % (Ten * Ten * Sixty * Sixty))
  <1> DEFINE m == total \div Sixty
             h == m \div Sixty
             sec == total % Sixty
             min == m % Sixty
             big == Ten * Ten
             k == h \div big
             hh == h % big
             day == big * Sixty * Sixty
             part == (hh * Sixty + min) * Sixty + sec
  <1>1. Sixty \in Nat \ {0} /\ Ten \in Nat \ {0} /\ big \in Nat \ {0}
    BY ClockAssumption
  <1>2. m \in Nat /\ sec \in 0 .. Sixty - 1 /\ total = m * Sixty + sec
    BY <1>1, Division
  <1>3. h \in Nat /\ min \in 0 .. Sixty - 1 /\ m = h * Sixty + min
    BY <1>1, <1>2, Division
  <1>4. k \in Nat /\ hh \in 0 .. big - 1 /\ h = k * big + hh
    BY <1>1, <1>3, Division
  <1> HIDE DEF m, h, sec, min, big, k, hh
  <1>5. day \in Nat \ {0}
    BY <1>1
  <1>6. part \in 0 .. day - 1
    <2>1. hh \in Nat /\ hh + 1 <= big /\ Sixty \in Nat
      BY <1>1, <1>4
    <2>2. hh * Sixty + Sixty <= big * Sixty /\ hh * Sixty \in Nat /\ big * Sixty \in Nat
      <3>1. (hh + 1) * Sixty <= big * Sixty /\ (hh + 1) * Sixty = hh * Sixty + Sixty
        BY <1>1, <2>1, TimesOrder
      <3> QED  BY <1>1, <2>1, <3>1
    <2>3. hh * Sixty + min + 1 <= big * Sixty /\ hh * Sixty + min \in Nat
      BY <1>1, <1>3, <2>2
    <2>4. (hh * Sixty + min) * Sixty + Sixty <= (big * Sixty) * Sixty
          /\ (hh * Sixty + min) * Sixty \in Nat
      <3> DEFINE x == hh * Sixty + min
                 y == big * Sixty
      <3>1. x \in Nat /\ y \in Nat /\ x + 1 <= y
        BY <2>2, <2>3
      <3> HIDE DEF x, y
      <3>2. (x + 1) * Sixty <= y * Sixty /\ (x + 1) * Sixty = x * Sixty + Sixty
        BY <1>1, <3>1, TimesOrder
      <3>3. x * Sixty \in Nat /\ y * Sixty \in Nat
        BY <1>1, <3>1
      <3>4. x * Sixty + Sixty <= y * Sixty
        BY <1>1, <3>2, <3>3
      <3> QED  BY <3>3, <3>4 DEF x, y
    <2> QED  BY <1>1, <1>2, <2>4
  <1>7. total = k * day + part
    <2>1. h * Sixty = k * (big * Sixty) + hh * Sixty
      BY <1>1, <1>4
    <2>2. m = k * (big * Sixty) + (hh * Sixty + min)
      BY <1>1, <1>3, <1>4, <2>1
    <2>3. m * Sixty = k * day + (hh * Sixty + min) * Sixty
      <3> DEFINE y == big * Sixty
                 x == hh * Sixty + min
      <3>1. x \in Nat /\ y \in Nat
        BY <1>1, <1>3, <1>4
      <3>2. m = k * y + x
        BY <2>2
      <3> HIDE DEF x, y
      <3>3. m * Sixty = k * (y * Sixty) + x * Sixty
        BY <1>1, <1>4, <3>1, <3>2
      <3> QED  BY <3>3 DEF x, y
    <2> QED  BY <1>1, <1>2, <1>3, <1>4, <2>3
  <1>8. total % day = part
    BY <1>4, <1>5, <1>6, <1>7, Quotient
  <1>9. IsTime(h, min, sec, total)
    BY <1>1, <1>2, <1>3 DEF IsTime
  <1>10. IsTime(hh, min, sec, total % day)
    BY <1>1, <1>2, <1>3, <1>8 DEF IsTime
  <1> QED  BY <1>2, <1>3, <1>9, <1>10 DEF m, h, sec, min, hh, big

(* Two digits tell a number below a hundred.                               *)
LEMMA TwoDigits ==
    ASSUME NEW v \in Nat
    PROVE  LET ds == <<(v \div Ten) % Ten, v % Ten>>
           IN  AreDigits(ds) /\ Shown(ds) = v % (Ten * Ten)
  <1> DEFINE t == v \div Ten
             q == t \div Ten
  <1>1. Ten \in Nat \ {0} /\ Ten * Ten \in Nat \ {0}
    BY ClockAssumption
  <1>2. t \in Nat /\ v % Ten \in 0 .. Ten - 1 /\ v = t * Ten + (v % Ten)
    BY <1>1, Division
  <1>3. q \in Nat /\ t % Ten \in 0 .. Ten - 1 /\ t = q * Ten + (t % Ten)
    BY <1>1, <1>2, Division
  <1> DEFINE a == t % Ten
             b == v % Ten
  <1>4. a \in 0 .. Ten - 1 /\ b \in 0 .. Ten - 1
    BY <1>2, <1>3
  <1> HIDE DEF t, q, a, b
  <1>5. a * Ten + b \in 0 .. Ten * Ten - 1
    <2>1. a \in Nat /\ a + 1 <= Ten /\ (a + 1) * Ten = a * Ten + Ten
      BY <1>1, <1>4
    <2>2. (a + 1) * Ten <= Ten * Ten
      BY <1>1, <2>1, TimesOrder
    <2>3. a * Ten \in Nat
      BY <1>1, <2>1
    <2> QED  BY <1>1, <1>4, <2>1, <2>2, <2>3
  <1>6. v = q * (Ten * Ten) + (a * Ten + b)
    <2>1. v = (q * Ten + a) * Ten + b
      BY <1>2, <1>3 DEF a, b
    <2> QED  BY <1>1, <1>3, <1>4, <2>1
  <1>7. v % (Ten * Ten) = a * Ten + b
    BY <1>1, <1>3, <1>5, <1>6, Quotient
  <1> QED  BY <1>4, <1>7 DEF AreDigits, Shown, a, b, t

LEMMA DigitsOfSixty ==
    ASSUME NEW v \in 0 .. Sixty - 1
    PROVE  AreDigits(Digits(v)) /\ Shown(Digits(v)) = v
  <1>1. Ten \in Nat \ {0} /\ Sixty \in Nat /\ v \in Nat /\ v < Ten * Ten /\ Sixty <= Ten * Ten
    BY ClockAssumption
  <1>2. v \div Ten \in Nat /\ v \div Ten < Ten
    BY <1>1, Division, Below
  <1>3. (v \div Ten) % Ten = v \div Ten /\ v % (Ten * Ten) = v
    <2>1. \A x \in Nat, y \in Nat \ {0} : x < y => x % y = x
      OBVIOUS
    <2> QED  BY <1>1, <1>2, <2>1
  <1> QED  BY <1>1, <1>3, TwoDigits DEF Digits

(* The PIT's divisor gets there in two bytes.                              *)
LEMMA DivisorIsRight ==
    LET divisor == Divisor[1] + Byte * Divisor[2]
    IN  /\ divisor * TIMER_HZ <= PIT_BASE_FREQ
        /\ PIT_BASE_FREQ < (divisor + 1) * TIMER_HZ
  <1> DEFINE dv == PIT_BASE_FREQ \div TIMER_HZ
  <1>1. /\ PIT_BASE_FREQ \in Nat /\ TIMER_HZ \in Nat \ {0} /\ Byte \in Nat \ {0}
        /\ dv < Byte * Byte
    BY ClockAssumption
  <1>2. /\ dv \in Nat /\ PIT_BASE_FREQ % TIMER_HZ \in 0 .. TIMER_HZ - 1
        /\ PIT_BASE_FREQ = dv * TIMER_HZ + (PIT_BASE_FREQ % TIMER_HZ)
    BY <1>1, Division
  <1>3. Divisor = <<dv % Byte, (dv \div Byte) % Byte>>
    BY DEF Divisor
  <1> HIDE DEF dv
  <1>4. dv \div Byte \in Nat /\ dv \div Byte < Byte
    BY <1>1, <1>2, Division, Below
  <1>5. (dv \div Byte) % Byte = dv \div Byte
    BY <1>1, <1>4
  <1>6. dv = (dv % Byte) + Byte * (dv \div Byte)
    BY <1>1, <1>2, Division
  <1>7. dv = Divisor[1] + Byte * Divisor[2]
    BY <1>3, <1>5, <1>6
  <1>8. dv * TIMER_HZ <= PIT_BASE_FREQ /\ PIT_BASE_FREQ < (dv + 1) * TIMER_HZ
    BY <1>1, <1>2
  <1> QED  BY <1>7, <1>8

(* What a reader has shown, whatever has ticked since.                     *)
ShownRight ==
    \/ /\ Len(shown) = 5
       /\ IsTime(shown[1], shown[2], shown[3], seconds) /\ shown[4] = seconds
       /\ \E e \in since .. elapsed : shown[5] = e % TickWrap
    \/ /\ Len(shown) = 3 /\ \A k \in 1 .. 3 : AreDigits(shown[k])
       /\ IsTime(Shown(shown[1]), Shown(shown[2]), Shown(shown[3]),
                 seconds % (Ten * Ten * Sixty * Sixty))

ClockInv ==
    /\ Rate
    /\ elapsed \in Nat /\ since \in 0 .. elapsed
    /\ tick_count = elapsed % TickWrap
    /\ reading \notin {"boot", "nobody"} =>
          seconds = (since % TickWrap) \div TIMER_HZ
    /\ reading = "done" => ShownRight

LEMMA SecondsAreNat ==
    ASSUME ClockInv, reading \notin {"boot", "nobody"} PROVE seconds \in Nat
  <1>1. TickWrap \in Nat \ {0} /\ TIMER_HZ \in Nat \ {0} /\ since \in Nat
    BY ClockAssumption DEF ClockInv
  <1>2. since % TickWrap \in Nat
    BY <1>1, Division
  <1> QED  BY <1>1, <1>2, Division DEF ClockInv

LEMMA ClockStep == ASSUME ClockInv, [ClkNext]_clkVars PROVE ClockInv'
  <1>0. /\ elapsed \in Nat /\ since \in 0 .. elapsed /\ since \in Nat
        /\ TickWrap \in Nat \ {0}
    BY ClockAssumption DEF ClockInv
  <1>1. CASE timer_init
    <2>1. /\ reading = "boot" /\ reading' = "nobody" /\ pit' = Divisor
          /\ UNCHANGED <<tick_count, elapsed, since>>
      BY <1>1 DEF timer_init
    <2>2. Rate'
      BY <2>1, DivisorIsRight DEF Rate
    <2> QED  BY <2>1, <2>2 DEF ClockInv
  <1>2. CASE timer_callback
    <2>1. /\ tick_count' = (tick_count + 1) % TickWrap /\ elapsed' = elapsed + 1
          /\ UNCHANGED <<pit, reading, since, seconds, shown>>
      BY <1>2 DEF timer_callback
    <2>2. tick_count' = elapsed' % TickWrap
      BY <1>0, <2>1, TickOn DEF ClockInv
    <2>3. elapsed' \in Nat /\ since' \in 0 .. elapsed' /\ since .. elapsed \subseteq since' .. elapsed'
      BY <1>0, <2>1
    <2>4. reading' = "done" => ShownRight'
      BY <2>1, <2>3 DEF ClockInv, ShownRight
    <2>5. Rate'
      BY <2>1 DEF ClockInv, Rate
    <2> QED  BY <2>1, <2>2, <2>3, <2>4, <2>5 DEF ClockInv
  <1>3. CASE ReadUptime
    <2>1. /\ reading = "nobody" /\ reading' \in {"cmd_uptime", "sysinfo_task"}
          /\ seconds' = tick_count \div TIMER_HZ /\ since' = elapsed
          /\ UNCHANGED <<pit, tick_count, elapsed>>
      BY <1>3 DEF ReadUptime, timer_get_uptime
    <2>2. Rate' /\ since' \in 0 .. elapsed'
      BY <1>0, <2>1 DEF ClockInv, Rate
    <2> QED  BY <2>1, <2>2 DEF ClockInv
  <1>4. CASE cmd_uptime
    <2>1. /\ reading = "cmd_uptime" /\ reading' = "done"
          /\ shown' = <<hours, minutes % Sixty, seconds % Sixty, seconds, tick_count>>
          /\ UNCHANGED <<pit, tick_count, elapsed, since, seconds>>
      BY <1>4 DEF cmd_uptime, timer_get_ticks
    <2>2. IsTime(hours, minutes % Sixty, seconds % Sixty, seconds)
      BY <2>1, SecondsAreNat, TimeOfDay DEF hours, minutes
    <2>3. elapsed \in since .. elapsed /\ tick_count = elapsed % TickWrap
      BY <1>0 DEF ClockInv
    <2>4. ShownRight'
      BY <2>1, <2>2, <2>3 DEF ShownRight
    <2> QED  BY <2>1, <2>4 DEF ClockInv, Rate
  <1>5. CASE sysinfo_task
    <2> DEFINE hd == <<(hours \div Ten) % Ten, hours % Ten>>
               md == Digits(minutes % Sixty)
               sd == Digits(seconds % Sixty)
    <2>1. /\ reading = "sysinfo_task" /\ reading' = "done"
          /\ shown' = <<hd, md, sd>>
          /\ UNCHANGED <<pit, tick_count, elapsed, since, seconds>>
      BY <1>5 DEF sysinfo_task
    <2>2. /\ hours \in Nat
          /\ minutes % Sixty \in 0 .. Sixty - 1 /\ seconds % Sixty \in 0 .. Sixty - 1
          /\ IsTime(hours % (Ten * Ten), minutes % Sixty, seconds % Sixty,
                    seconds % (Ten * Ten * Sixty * Sixty))
      BY <2>1, SecondsAreNat, TimeOfDay DEF hours, minutes
    <2>3. /\ AreDigits(hd) /\ Shown(hd) = hours % (Ten * Ten)
          /\ AreDigits(md) /\ Shown(md) = minutes % Sixty
          /\ AreDigits(sd) /\ Shown(sd) = seconds % Sixty
      BY <2>2, TwoDigits, DigitsOfSixty
    <2> HIDE DEF hd, md, sd
    <2>4. \A k \in 1 .. 3 : k = 1 \/ k = 2 \/ k = 3
      OBVIOUS
    <2>5. /\ Len(shown') = 3 /\ \A k \in 1 .. 3 : AreDigits(shown'[k])
          /\ IsTime(Shown(shown'[1]), Shown(shown'[2]), Shown(shown'[3]),
                    seconds' % (Ten * Ten * Sixty * Sixty))
      BY <2>1, <2>2, <2>3, <2>4
    <2>6. ShownRight'
      BY <2>5 DEF ShownRight
    <2> QED  BY <2>1, <2>6 DEF ClockInv, Rate
  <1>6. CASE ClkDone
    <2>1. /\ reading' = "nobody" /\ since' = 0
          /\ reading = "done" /\ UNCHANGED <<pit, tick_count, elapsed>>
      BY <1>6 DEF ClkDone
    <2> QED  BY <1>0, <2>1 DEF ClockInv, Rate
  <1>7. CASE UNCHANGED clkVars
    BY <1>7 DEF clkVars, ClockInv, Rate, ShownRight
  <1> QED  BY <1>1, <1>2, <1>3, <1>4, <1>5, <1>6, <1>7 DEF ClkNext, ClkStep

(* The PIT ticks as near to TIMER_HZ as whole divisors allow, and uptime   *)
(* and the sysinfo window show the time that had passed when they began to *)
(* read: for every frequency whose divisor fits two bytes, every width of  *)
(* tick_count and every number of ticks between the reads.                 *)
THEOREM ClocksAreRight == ClkSpec => []ClockIsRight
  <1>1. ClkInit => ClockInv
    <2> SUFFICES ASSUME ClkInit PROVE ClockInv
      OBVIOUS
    <2>1. 0 % TickWrap = 0
      BY ClockAssumption
    <2> QED  BY <2>1 DEF ClkInit, ClockInv, Rate
  <1>2. ClockInv /\ [ClkNext]_clkVars => ClockInv'
    BY ClockStep
  <1>3. ClockInv => ClockIsRight
    BY DEF ClockInv, ShownRight, ClockIsRight
  <1> QED  BY <1>1, <1>2, <1>3, PTL DEF ClkSpec

----------------------------------------------------------------------------
(* kernel/gdt.c, kernel/idt.c, boot/idt.asm.  The inductive invariant: the *)
(* entries that the boot has filled so far, and, for every stage of an     *)
(* interrupt's way, the whole stack in terms of the interrupted code.      *)

(* The tables as the boot fills them, and the register that says so.       *)
KernelSegments == [r \in Segments |-> IF r = "cs" THEN 8 ELSE 16]
Gate(v) == idt_set_gate(StubAddress[v], 8, \h8E)
Booting == {"gdt", "idt"}
InFlight == {"stub", "common_isr_stub", "common_irq_stub",
             "isr_handler", "irq_handler", "back"}
Steps == Booting \cup InFlight \cup {"running", "halted", "int3", "reset"}

TablesInv ==
    /\ DOMAIN gdt = 0 .. 2 /\ DOMAIN idt = 0 .. IDT_ENTRIES - 1
    /\ step = "gdt" =>
          gdtr = 0 /\ num \in 0 .. 3 /\ \A k \in 0 .. 2 : k < num => gdt[k] = gdt_entries[k + 1]
    /\ step \notin {"gdt", "reset"} =>
          gdtr = 23 /\ gdt[1] = gdt_entries[2] /\ gdt[2] = gdt_entries[3]
    /\ step = "idt" => num \in 0 .. 48 /\ \A v \in Vectors : v < num => idt[v] = Gate(v)
    /\ step \notin Booting \cup {"reset"} => \A v \in Vectors : idt[v] = Gate(v)
    /\ idtr = IF step \in Booting \cup {"int3", "reset"} THEN 0 ELSE 8 * IDT_ENTRIES - 1

(* What the interrupted code has on the stack, and the error code with it. *)
Before(f) == was[1][f]
GivenCode == IF vector \in CpuPushesCode THEN ErrorCode ELSE 0
Returns == <<Before("eip"), 8, Before("eflags")>>
InStub == IF vector \in CpuPushesCode THEN <<ErrorCode>> \o Returns ELSE Returns
InCommon == <<vector, GivenCode>> \o Returns
InHandler ==
    <<16, 16, 16, 16, Before("edi"), Before("esi"), Before("ebp"), Before("esp"),
      Before("ebx"), Before("edx"), Before("ecx"), Before("eax"), vector, GivenCode,
      Before("eip"), 8, Before("eflags")>>

CpuInv ==
    /\ step \in Steps /\ vector \in Vectors
    /\ reg \in [Registers -> Int]
    /\ step \notin {"gdt", "reset"} => seg = KernelSegments
    /\ step \in Booting => stack = <<>> /\ was = <<>>
    /\ step = "running" => stack = <<>> /\ was \in {<<>>, <<reg, seg>>}
    /\ step \in InFlight =>
          was[1] \in [Registers -> Int] /\ was = <<was[1], KernelSegments>>
    /\ step \in InFlight \ {"back", "irq_handler", "isr_handler"} =>
          /\ reg["eflags"] = NoIF /\ reg["eip"] = StubAddress[vector]
          /\ \A r \in SetOf(General) : reg[r] = Before(r)
    /\ step = "stub" => stack = InStub
    /\ step \in {"common_isr_stub", "common_irq_stub"} =>
          stack = InCommon /\ (step = "common_isr_stub" <=> vector \in Exceptions)
    /\ step \in {"isr_handler", "irq_handler", "back"} =>
          stack = InHandler /\ reg["esp"] = Before("esp") /\ reg["eflags"] = NoIF
    /\ step \in {"isr_handler", "irq_handler"} => (step = "isr_handler" <=> vector \in Exceptions)

DescriptorInv == TablesInv /\ CpuInv

(* A concatenation, told by its elements.                                  *)
LEMMA Joined ==
    ASSUME NEW pt \in Seq(Int), NEW q \in Seq(Int), NEW r \in Seq(Int),
           Len(r) = Len(pt) + Len(q),
           \A k \in 1 .. Len(pt) : r[k] = pt[k],
           \A k \in 1 .. Len(q) : r[Len(pt) + k] = q[k]
    PROVE  pt \o q = r
  <1>1. Len(pt) \in Nat /\ Len(q) \in Nat
    BY LenProperties
  <1>2. /\ pt \o q \in Seq(Int) /\ Len(pt \o q) = Len(pt) + Len(q)
        /\ \A i \in 1 .. Len(pt) + Len(q) : (pt \o q)[i] =
               IF i <= Len(pt) THEN pt[i] ELSE q[i - Len(pt)]
    BY ConcatProperties
  <1>3. \A i \in 1 .. Len(pt) + Len(q) : (pt \o q)[i] = r[i]
    <2> SUFFICES ASSUME NEW i \in 1 .. Len(pt) + Len(q) PROVE (pt \o q)[i] = r[i]
      OBVIOUS
    <2>1. CASE i <= Len(pt)
      BY <1>1, <1>2, <2>1
    <2>2. CASE i > Len(pt)
      <3> DEFINE j == i - Len(pt)
      <3>1. j \in 1 .. Len(q) /\ Len(pt) + j = i /\ ~ (i <= Len(pt))
        BY <1>1, <2>2
      <3>2. (pt \o q)[i] = q[j]
        BY <1>2, <3>1
      <3>3. r[Len(pt) + j] = q[j]
        BY <3>1
      <3> HIDE DEF j
      <3> QED  BY <3>1, <3>2, <3>3
    <2> QED  BY <1>1, <2>1, <2>2
  <1> QED  BY <1>2, <1>3, SeqEqual

LEMMA Names ==
    /\ SetOf(General) = {"eax", "ecx", "edx", "ebx", "esp", "ebp", "esi", "edi"}
    /\ Registers = {"eax", "ecx", "edx", "ebx", "esp", "ebp", "esi", "edi", "eip", "eflags"}
    /\ SetOf(DataSegments) = {"ds", "es", "fs", "gs"}
    /\ Segments = {"ds", "es", "fs", "gs", "cs", "ss"}
    /\ SetOf(FrameFields) =
          {"gs", "fs", "es", "ds", "edi", "esi", "ebp", "esp", "ebx", "edx", "ecx", "eax",
           "int_no", "err_code", "eip", "cs", "eflags"}
  <1>1. SetOf(General) = {"eax", "ecx", "edx", "ebx", "esp", "ebp", "esi", "edi"}
    BY DEF SetOf, General
  <1>2. SetOf(DataSegments) = {"ds", "es", "fs", "gs"}
    BY DEF SetOf, DataSegments
  <1>3. SetOf(FrameFields) =
          {"gs", "fs", "es", "ds", "edi", "esi", "ebp", "esp", "ebx", "edx", "ecx", "eax",
           "int_no", "err_code", "eip", "cs", "eflags"}
    BY DEF SetOf, FrameFields
  <1> QED  BY <1>1, <1>2, <1>3 DEF Registers, Segments

LEMMA Numbers ==
    /\ IDT_ENTRIES \in Nat /\ IDT_ENTRIES >= 48
    /\ \A v \in Vectors : v \in 0 .. IDT_ENTRIES - 1 /\ StubAddress[v] \in Nat
    /\ \A v \in Vectors : v \in Int /\ 0 <= v /\ v < 48
  <1>1. 47 \in Vectors
    BY DEF Vectors
  <1>2. 47 \in 0 .. IDT_ENTRIES - 1 /\ IDT_ENTRIES \in Nat
    BY <1>1, StubAssumption
  <1> QED  BY <1>2, StubAssumption DEF Vectors

(* A gate leads to the stub whose address went into it, by way of a flat   *)
(* code segment.                                                           *)
LEMMA GateFacts ==
    ASSUME NEW v \in Vectors
    PROVE  /\ Gate(v).base_low + 65536 * Gate(v).base_high = StubAddress[v]
           /\ Gate(v).selector = 8 /\ Gate(v).flags = 142
  <1>1. StubAddress[v] \in Nat
    BY Numbers
  <1>2. (StubAddress[v] % 65536) + 65536 * (StubAddress[v] \div 65536) = StubAddress[v]
    BY <1>1
  <1> QED  BY <1>2 DEF Gate, idt_set_gate, Low, High

LEMMA GdtIsFlat ==
    ASSUME gdtr = 23, gdt[1] = gdt_entries[2], gdt[2] = gdt_entries[3]
    PROVE  IsCode(8) /\ \A r \in Segments : Flat(KernelSegments[r])
  <1>1. IsCode(8) /\ Flat(8)
    BY DEF IsCode, Flat, Known, Base, Entry, Pages, Present, Ring,
       gdt_entries, gdt_set_entry, Low, High
  <1>2. Flat(16)
    BY DEF Flat, Known, Base, Entry, Pages, Present, Ring,
       gdt_entries, gdt_set_entry, Low, High
  <1> QED  BY <1>1, <1>2 DEF KernelSegments

(* Without an IDT there is a reset, with one the stub of the vector.       *)
LEMMA NoGateNoEntry ==
    ASSUME idtr = 0, NEW v \in Vectors, Deliver(v)
    PROVE  step' = "reset" /\ UNCHANGED <<tables, cpu>>
  <1>1. \A k \in 1 .. 3 : Chain(v)[k] \in Vectors
    BY DEF Chain, Vectors
  <1>2. \A w \in Vectors : ~ Usable(w)
    BY Numbers DEF Usable
  <1> QED  BY <1>1, <1>2 DEF Deliver

LEMMA GateEntered ==
    ASSUME NEW v \in Vectors, idtr = 8 * IDT_ENTRIES - 1, idt[v] = Gate(v),
           IsCode(8), Deliver(v)
    PROVE  Enter32(v, v)
  <1>1. Usable(v)
    <2>1. 8 * v + 7 <= idtr
      BY Numbers
    <2>2. Present(idt[v].flags) /\ idt[v].flags % 16 = 14 /\ IsCode(idt[v].selector)
      BY GateFacts DEF Present
    <2> QED  BY <2>1, <2>2 DEF Usable
  <1>2. Chain(v)[1] = v /\ 1 \in 1 .. 3
    BY DEF Chain
  <1>3. PICK k \in 1 .. 3 : /\ \A j \in 1 .. k - 1 : ~ Usable(Chain(v)[j])
                            /\ Enter32(v, Chain(v)[k])
    BY <1>1, <1>2 DEF Deliver
  <1>4. k = 1
    <2>1. k # 1 => 1 \in 1 .. k - 1
      OBVIOUS
    <2> QED  BY <1>1, <1>2, <1>3, <2>1
  <1> QED  BY <1>2, <1>3, <1>4

----------------------------------------------------------------------------
LEMMA DescriptorInit == DscInit => DescriptorInv
  <1> SUFFICES ASSUME DscInit PROVE DescriptorInv
    OBVIOUS
  <1>1. Held \in [Registers -> Int]
    <2>1. ASSUME NEW r \in SetOf(General)
          PROVE  (CHOOSE k \in DOMAIN General : General[k] = r) \in Int
      <3>1. \E k \in DOMAIN General : General[k] = r
        BY DEF SetOf
      <3>2. (CHOOSE k \in DOMAIN General : General[k] = r) \in DOMAIN General
        BY <3>1
      <3>3. DOMAIN General \subseteq Int
        BY DEF General
      <3> QED  BY <3>2, <3>3
    <2> QED  BY <2>1, Names DEF Held, Registers
  <1>2. TablesInv
    BY DEF DscInit, TablesInv, Booting
  <1>3. CpuInv
    BY <1>1 DEF DscInit, CpuInv, Booting, InFlight, Steps, Vectors
  <1> QED  BY <1>2, <1>3 DEF DescriptorInv

LEMMA BootStep ==
    ASSUME DescriptorInv, GdtEntry \/ gdt_flush \/ IdtGate \/ lidt PROVE DescriptorInv'
  <1>1. CASE GdtEntry
    <2>1. /\ step = "gdt" /\ num \in 0 .. 2 /\ num' = num + 1
          /\ gdt' = [gdt EXCEPT ![num] = gdt_entries[num + 1]]
          /\ UNCHANGED <<gdtr, idt, idtr, seg, reg, stack, vector, was, step>>
      BY <1>1 DEF GdtEntry, cpu, DescriptorInv, TablesInv
    <2>2. \A k \in 0 .. 2 : k < num' => gdt'[k] = gdt_entries[k + 1]
      BY <2>1 DEF DescriptorInv, TablesInv
    <2>3. TablesInv'
      BY <2>1, <2>2 DEF DescriptorInv, TablesInv, Booting
    <2>4. CpuInv'
      BY <2>1 DEF DescriptorInv, CpuInv, Booting, InFlight
    <2> QED  BY <2>3, <2>4 DEF DescriptorInv
  <1>2. CASE gdt_flush
    <2>1. /\ step = "gdt" /\ num = 3 /\ gdtr' = 23 /\ seg' = KernelSegments
          /\ num' = 0 /\ step' = "idt"
          /\ UNCHANGED <<gdt, idt, idtr, reg, stack, vector, was>>
      BY <1>2 DEF gdt_flush, KernelSegments
    <2>2. gdt[1] = gdt_entries[2] /\ gdt[2] = gdt_entries[3]
      BY <2>1 DEF DescriptorInv, TablesInv
    <2>3. TablesInv'
      BY <2>1, <2>2 DEF DescriptorInv, TablesInv, Booting, Vectors
    <2>4. CpuInv'
      BY <2>1 DEF DescriptorInv, CpuInv, Booting, InFlight, Steps
    <2> QED  BY <2>3, <2>4 DEF DescriptorInv
  <1>3. CASE IdtGate
    <2>1. /\ step = "idt" /\ num \in Vectors /\ num' = num + 1
          /\ idt' = [idt EXCEPT ![num] = Gate(num)]
          /\ UNCHANGED <<gdt, gdtr, idtr, seg, reg, stack, vector, was, step>>
      BY <1>3 DEF IdtGate, cpu, Gate
    <2>2. DOMAIN idt' = DOMAIN idt /\ num' \in 0 .. 48
      BY <2>1 DEF Vectors
    <2>3. ASSUME NEW v \in Vectors, v < num' PROVE idt'[v] = Gate(v)
      <3>1. v = num \/ v < num
        BY <2>1, <2>3 DEF Vectors
      <3>2. v \in DOMAIN idt /\ num \in DOMAIN idt
        BY <2>1, Numbers DEF DescriptorInv, TablesInv
      <3>3. v < num => idt[v] = Gate(v)
        BY <2>1 DEF DescriptorInv, TablesInv
      <3> QED  BY <2>1, <3>1, <3>2, <3>3
    <2>4. TablesInv'
      BY <2>1, <2>2, <2>3 DEF DescriptorInv, TablesInv, Booting
    <2>5. CpuInv'
      BY <2>1 DEF DescriptorInv, CpuInv, Booting, InFlight
    <2> QED  BY <2>4, <2>5 DEF DescriptorInv
  <1>4. CASE lidt
    <2>1. /\ step = "idt" /\ num \notin Vectors /\ idtr' = 8 * IDT_ENTRIES - 1
          /\ step' = "running" /\ UNCHANGED <<gdt, gdtr, idt, num, seg, reg, stack, vector, was>>
      BY <1>4 DEF lidt, cpu
    <2>2. \A v \in Vectors : idt[v] = Gate(v)
      <3>1. num = 48
        BY <2>1 DEF DescriptorInv, TablesInv, Vectors
      <3> QED  BY <2>1, <3>1, Numbers DEF DescriptorInv, TablesInv
    <2>3. TablesInv'
      BY <2>1, <2>2 DEF DescriptorInv, TablesInv, Booting
    <2>4. CpuInv'
      BY <2>1 DEF DescriptorInv, CpuInv, Booting, InFlight, Steps
    <2> QED  BY <2>3, <2>4 DEF DescriptorInv
  <1> QED  BY <1>1, <1>2, <1>3, <1>4

(* The steps after the boot leave the tables alone.                        *)
LEMMA TablesKept ==
    ASSUME TablesInv, UNCHANGED tables,
           step \in InFlight \cup {"running"}, step' \in InFlight \cup {"running", "halted"}
    PROVE  TablesInv'
  BY DEF TablesInv, tables, Booting, InFlight

LEMMA SignalStep ==
    ASSUME DescriptorInv, Signal PROVE DescriptorInv'
  <1>1. PICK v \in Vectors : /\ step \in {"gdt", "idt", "running"} /\ Deliver(v)
    BY DEF Signal
  <1>2. CASE step \in Booting
    <2>1. step' = "reset" /\ UNCHANGED <<tables, cpu>>
      BY <1>1, <1>2, NoGateNoEntry DEF DescriptorInv, TablesInv
    <2>2. TablesInv'
      BY <1>2, <2>1 DEF DescriptorInv, TablesInv, tables, Booting
    <2>3. CpuInv'
      BY <2>1 DEF DescriptorInv, CpuInv, cpu, Steps, InFlight, Booting
    <2> QED  BY <2>2, <2>3 DEF DescriptorInv
  <1>3. CASE step = "running"
    <2>1. Enter32(v, v)
      <3>1. idtr = 8 * IDT_ENTRIES - 1 /\ idt[v] = Gate(v)
        BY <1>3 DEF DescriptorInv, TablesInv, Booting
      <3>2. IsCode(8)
        BY <1>3, GdtIsFlat DEF DescriptorInv, TablesInv
      <3> QED  BY <1>1, <3>1, <3>2, GateEntered
    <2>2. /\ vector' = v /\ was' = <<reg, seg>> /\ step' = "stub" /\ UNCHANGED tables
          /\ reg \in [Registers -> Int] /\ seg = KernelSegments /\ stack = <<>>
      BY <1>3, <2>1 DEF Enter32, DescriptorInv, CpuInv, Booting
    <2>3. /\ idt[v] = Gate(v)
      BY <1>3 DEF DescriptorInv, TablesInv, Booting
    <2>9. /\ idt[v].base_low + 65536 * idt[v].base_high = StubAddress[v]
          /\ idt[v].selector = 8
      BY <2>3, GateFacts
    <2>4. reg' = [reg EXCEPT !["eip"] = StubAddress[v], !["eflags"] = NoIF]
      <3> DEFINE e == idt[v].base_low + 65536 * idt[v].base_high
      <3>1. reg' = [reg EXCEPT !["eip"] = e, !["eflags"] = NoIF]
        BY <2>1 DEF Enter32
      <3>2. e = StubAddress[v]
        BY <2>9
      <3> HIDE DEF e
      <3> QED  BY <3>1, <3>2
    <2>5. seg' = KernelSegments
      <3>1. seg' = [seg EXCEPT !["cs"] = 8]
        <4> DEFINE e == idt[v].selector
        <4>1. seg' = [seg EXCEPT !["cs"] = e]
          BY <2>1 DEF Enter32
        <4>2. e = 8
          BY <2>9
        <4> HIDE DEF e
        <4> QED  BY <4>1, <4>2
      <3> QED  BY <2>2, <3>1, Names DEF KernelSegments
    <2>6. stack' = InStub'
      <3>1. seg["cs"] = 8
        BY <2>2, Names DEF KernelSegments
      <3>2. Returns' = <<reg["eip"], 8, reg["eflags"]>>
        BY <2>2 DEF Returns, Before
      <3>3. stack' = (IF v \in CpuPushesCode THEN <<ErrorCode>> ELSE <<>>) \o Returns'
                     \o <<>>
        BY <2>1, <2>2, <3>1, <3>2 DEF Enter32
      <3>4. Returns' \in Seq(Int) /\ <<ErrorCode>> \in Seq(Int)
        <4>1. reg["eip"] \in Int /\ reg["eflags"] \in Int
          BY <2>2, Names
        <4> QED  BY <3>2, <4>1 DEF ErrorCode
      <3>5. <<ErrorCode>> \o Returns' \in Seq(Int)
        BY <3>4, ConcatProperties
      <3>6. stack' = IF v \in CpuPushesCode THEN <<ErrorCode>> \o Returns' ELSE Returns'
        BY <3>3, <3>4, <3>5, ConcatEmptySeq
      <3> QED  BY <2>2, <3>6 DEF InStub
    <2>7. /\ reg' \in [Registers -> Int] /\ reg'["eflags"] = NoIF
          /\ reg'["eip"] = StubAddress[vector']
          /\ \A r \in SetOf(General) : reg'[r] = reg[r]
      <3>1. StubAddress[v] \in Int /\ NoIF \in Int
        BY Numbers DEF NoIF
      <3>2. reg' \in [Registers -> Int]
        BY <2>2, <2>4, <3>1
      <3>3. reg'["eflags"] = NoIF /\ reg'["eip"] = StubAddress[v]
        BY <2>2, <2>4, Names
      <3>4. \A r \in SetOf(General) : reg'[r] = reg[r]
        BY <2>2, <2>4, Names
      <3> QED  BY <2>2, <3>2, <3>3, <3>4
    <2>8. was'[1] = reg /\ was' = <<was'[1], KernelSegments>>
      BY <2>2
    <2>10. CpuInv'
      BY <2>2, <2>5, <2>6, <2>7, <2>8 DEF CpuInv, Steps, InFlight, Booting, Before
    <2>11. TablesInv'
      BY <1>3, <2>2, TablesKept DEF DescriptorInv, InFlight
    <2> QED  BY <2>10, <2>11 DEF DescriptorInv
  <1> QED  BY <1>1, <1>2, <1>3 DEF Booting

(* What the interrupted code left behind are numbers.                      *)
LEMMA BeforeTypes ==
    ASSUME CpuInv, step \in InFlight
    PROVE  /\ \A r \in Registers : Before(r) \in Int
           /\ vector \in Int /\ GivenCode \in Int /\ Returns \in Seq(Int) /\ Len(Returns) = 3
  <1>1. \A r \in Registers : Before(r) \in Int
    BY DEF CpuInv, Before
  <1>2. vector \in Int /\ GivenCode \in Int
    BY Numbers DEF CpuInv, GivenCode, ErrorCode
  <1>3. Before("eip") \in Int /\ Before("eflags") \in Int
    BY <1>1, Names
  <1> QED  BY <1>1, <1>2, <1>3 DEF Returns

LEMMA StubStep ==
    ASSUME DescriptorInv, Stub PROVE DescriptorInv'
  <1>1. PICK v \in Vectors :
          /\ step = "stub" /\ reg["eip"] = StubAddress[v]
          /\ Push(IF v \in ErrorCodeStubs THEN <<v>> ELSE <<0, v>>)
          /\ step' = IF v \in Exceptions THEN "common_isr_stub" ELSE "common_irq_stub"
          /\ UNCHANGED <<tables, seg, reg, vector, was>>
    BY DEF Stub
  <1>2. v = vector /\ stack = InStub /\ vector \in Vectors
    BY <1>1, StubAssumption DEF DescriptorInv, CpuInv, InFlight
  <1>3. v \in ErrorCodeStubs <=> v \in CpuPushesCode
    BY DEF ErrorCodeStubs, CpuPushesCode
  <1>4. /\ v \in Int /\ ErrorCode \in Int /\ Returns \in Seq(Int) /\ Len(Returns) = 3
    BY <1>1, <1>2, BeforeTypes DEF DescriptorInv, InFlight, ErrorCode
  <1>5. stack' = InCommon
    <2>1. CASE v \in CpuPushesCode
      <3> DEFINE rs == Returns
                 two == <<v, ErrorCode>>
                 one == <<ErrorCode>> \o rs
      <3>1. stack' = <<v>> \o one
        <4>1. [k \in 1 .. Len(<<v>>) |-> <<v>>[Len(<<v>>) + 1 - k]] = <<v>>
          OBVIOUS
        <4>2. stack = one
          BY <1>2, <2>1 DEF InStub
        <4> QED  BY <1>1, <1>3, <2>1, <4>1, <4>2 DEF Push
      <3>2. <<v>> \in Seq(Int) /\ <<ErrorCode>> \in Seq(Int)
        BY <1>4
      <3>3. <<v>> \o one = (<<v>> \o <<ErrorCode>>) \o rs
        BY <1>4, <3>2, ConcatAssociative
      <3>4. <<v>> \o <<ErrorCode>> = two
        <4> DEFINE s1 == <<v>>
                   s2 == <<ErrorCode>>
        <4>1. s1 \in Seq(Int) /\ s2 \in Seq(Int) /\ two \in Seq(Int)
          BY <1>4
        <4>2. Len(s1) = 1 /\ Len(s2) = 1 /\ Len(two) = 2
          OBVIOUS
        <4>3. /\ \A k \in 1 .. Len(s1) : two[k] = s1[k]
              /\ \A k \in 1 .. Len(s2) : two[Len(s1) + k] = s2[k]
          BY <4>2
        <4> HIDE DEF s1, s2, two
        <4>4. Len(two) = Len(s1) + Len(s2)
          BY <4>2
        <4>5. s1 \o s2 = two
          BY <4>1, <4>3, <4>4, Joined
        <4> QED  BY <4>5 DEF s1, s2
      <3>5. GivenCode = ErrorCode
        BY <1>2, <2>1 DEF GivenCode
      <3> QED  BY <1>2, <3>1, <3>3, <3>4, <3>5 DEF InCommon
    <2>2. CASE v \notin CpuPushesCode
      <3>1. [k \in 1 .. Len(<<0, v>>) |-> <<0, v>>[Len(<<0, v>>) + 1 - k]] = <<v, 0>>
        OBVIOUS
      <3>2. stack' = <<v, 0>> \o Returns
        BY <1>1, <1>2, <1>3, <2>2, <3>1 DEF Push, InStub
      <3> QED  BY <1>2, <2>2, <3>2 DEF InCommon, GivenCode
    <2> QED  BY <2>1, <2>2
  <1>6. InCommon' = InCommon
    BY <1>1 DEF InCommon, GivenCode, Returns, Before
  <1>7. CpuInv'
    BY <1>1, <1>2, <1>5, <1>6 DEF DescriptorInv, CpuInv, Steps, InFlight, Booting, Before
  <1>8. TablesInv'
    BY <1>1, TablesKept DEF DescriptorInv, InFlight
  <1> QED  BY <1>7, <1>8 DEF DescriptorInv

LEMMA CommonStep ==
    ASSUME DescriptorInv, Common PROVE DescriptorInv'
  <1> DEFINE gen == [k \in 1 .. 8 |-> reg[General[k]]]
             dat == [k \in 1 .. 4 |-> seg[DataSegments[k]]]
             b(f) == Before(f)
             gen8 == <<b("eax"), b("ecx"), b("edx"), b("ebx"), b("esp"), b("ebp"), b("esi"), b("edi")>>
             dat4 == <<16, 16, 16, 16>>
             all == <<b("eax"), b("ecx"), b("edx"), b("ebx"), b("esp"), b("ebp"), b("esi"), b("edi"),
                      16, 16, 16, 16>>
             lla == <<16, 16, 16, 16, b("edi"), b("esi"), b("ebp"), b("esp"),
                      b("ebx"), b("edx"), b("ecx"), b("eax")>>
             five == <<vector, GivenCode, b("eip"), 8, b("eflags")>>
  <1>1. /\ step \in {"common_isr_stub", "common_irq_stub"}
        /\ Push(gen \o dat)
        /\ seg' = [r \in Segments |-> IF r \in SetOf(DataSegments) THEN 16 ELSE seg[r]]
        /\ reg' = [reg EXCEPT !["eax"] = 16]
        /\ step' = IF step = "common_isr_stub" THEN "isr_handler" ELSE "irq_handler"
        /\ UNCHANGED <<tables, vector, was>>
    BY DEF Common
  <1>2. /\ \A r \in SetOf(General) : reg[r] = b(r)
        /\ seg = KernelSegments /\ stack = InCommon
        /\ reg \in [Registers -> Int] /\ reg["eflags"] = NoIF
    BY <1>1 DEF DescriptorInv, CpuInv, InFlight
  <1>3. /\ \A r \in Registers : b(r) \in Int
        /\ vector \in Int /\ GivenCode \in Int /\ Returns \in Seq(Int)
    BY <1>1, BeforeTypes DEF DescriptorInv, InFlight
  <1>4. /\ b("eax") \in Int /\ b("ecx") \in Int /\ b("edx") \in Int /\ b("ebx") \in Int
        /\ b("esp") \in Int /\ b("ebp") \in Int /\ b("esi") \in Int /\ b("edi") \in Int
        /\ b("eip") \in Int /\ b("eflags") \in Int
    BY <1>3, Names
  <1>5. gen = gen8
    BY <1>2, Names DEF General
  <1>6. dat = dat4
    BY <1>2, Names DEF DataSegments, KernelSegments
  <1>7. gen8 \o dat4 = all
    <2>1. gen8 \in Seq(Int) /\ dat4 \in Seq(Int) /\ all \in Seq(Int)
      BY <1>4
    <2>2. Len(gen8) = 8 /\ Len(dat4) = 4 /\ Len(all) = 12
      OBVIOUS
    <2>3. /\ \A k \in 1 .. Len(gen8) : all[k] = gen8[k]
          /\ \A k \in 1 .. Len(dat4) : all[Len(gen8) + k] = dat4[k]
      BY <2>2
    <2> HIDE DEF gen8, dat4, all
    <2>4. Len(all) = Len(gen8) + Len(dat4)
      BY <2>2
    <2> QED  BY <2>1, <2>3, <2>4, Joined
  <1>8. [k \in 1 .. Len(all) |-> all[Len(all) + 1 - k]] = lla
    OBVIOUS
  <1>9. stack' = lla \o InCommon
    <2> HIDE DEF gen, dat, gen8, dat4, all, lla
    <2> QED  BY <1>1, <1>2, <1>5, <1>6, <1>7, <1>8 DEF Push
  <1>10. InCommon = five
    <2> DEFINE head == <<vector, GivenCode>>
               tail == <<b("eip"), 8, b("eflags")>>
    <2>1. head \in Seq(Int) /\ tail \in Seq(Int) /\ five \in Seq(Int)
      BY <1>3, <1>4
    <2>2. Len(head) = 2 /\ Len(tail) = 3 /\ Len(five) = 5
      OBVIOUS
    <2>3. /\ \A k \in 1 .. Len(head) : five[k] = head[k]
          /\ \A k \in 1 .. Len(tail) : five[Len(head) + k] = tail[k]
      BY <2>2
    <2>4. InCommon = head \o tail
      BY DEF InCommon, Returns
    <2> HIDE DEF head, tail, five
    <2>5. Len(five) = Len(head) + Len(tail)
      BY <2>2
    <2> QED  BY <2>1, <2>3, <2>4, <2>5, Joined
  <1>11. lla \o five = InHandler
    <2>1. lla \in Seq(Int) /\ five \in Seq(Int) /\ InHandler \in Seq(Int)
      BY <1>3, <1>4 DEF InHandler
    <2>2. Len(lla) = 12 /\ Len(five) = 5 /\ Len(InHandler) = 17
      BY DEF InHandler
    <2>3. /\ \A k \in 1 .. Len(lla) : InHandler[k] = lla[k]
          /\ \A k \in 1 .. Len(five) : InHandler[Len(lla) + k] = five[k]
      BY <2>2 DEF InHandler
    <2> HIDE DEF lla, five
    <2>4. Len(InHandler) = Len(lla) + Len(five)
      BY <2>2
    <2> QED  BY <2>1, <2>3, <2>4, Joined
  <1>12. stack' = InHandler /\ InHandler' = InHandler
    <2>1. InHandler' = InHandler
      BY <1>1 DEF InHandler, GivenCode, Before
    <2> HIDE DEF lla, five
    <2> QED  BY <1>9, <1>10, <1>11, <2>1
  <1>13. seg' = KernelSegments
    BY <1>1, <1>2, Names DEF KernelSegments
  <1>14. reg' \in [Registers -> Int] /\ reg'["esp"] = b("esp") /\ reg'["eflags"] = NoIF
    BY <1>1, <1>2, Names
  <1> HIDE DEF gen, dat, gen8, dat4, all, lla, five
  <1>15. CpuInv'
    BY <1>1, <1>12, <1>13, <1>14 DEF DescriptorInv, CpuInv, Steps, InFlight, Booting, Before
  <1>16. TablesInv'
    BY <1>1, TablesKept DEF DescriptorInv, InFlight
  <1> QED  BY <1>15, <1>16 DEF DescriptorInv

LEMMA HandlerStep ==
    ASSUME DescriptorInv, isr_handler \/ irq_handler PROVE DescriptorInv'
  <1>1. /\ step \in {"isr_handler", "irq_handler"} /\ step' \in {"halted", "back"}
        /\ UNCHANGED <<tables, seg, stack, vector, was>>
    BY DEF isr_handler, irq_handler
  <1>2. /\ seg = KernelSegments /\ stack = InHandler
        /\ was[1] \in [Registers -> Int] /\ was = <<was[1], KernelSegments>>
        /\ reg \in [Registers -> Int] /\ reg["esp"] = Before("esp") /\ reg["eflags"] = NoIF
        /\ step \in Steps /\ vector \in Vectors
    BY <1>1 DEF DescriptorInv, CpuInv, InFlight
  <1>3. /\ reg' \in [Registers -> Int] /\ reg'["esp"] = Before("esp") /\ reg'["eflags"] = NoIF
    BY <1>2, Names DEF isr_handler, irq_handler, NoIF, Clobbered
  <1>4. InHandler' = InHandler /\ Before("esp")' = Before("esp")
    BY <1>1 DEF InHandler, GivenCode, Before
  <1>5. CpuInv'
    BY <1>1, <1>2, <1>3, <1>4 DEF CpuInv, Steps, InFlight, Booting
  <1>6. TablesInv'
    BY <1>1, TablesKept DEF DescriptorInv, InFlight
  <1> QED  BY <1>5, <1>6 DEF DescriptorInv

(* The frame that the handler sees is the stack, a name for each place.    *)
LEMMA FrameIs ==
    ASSUME stack = InHandler
    PROVE  /\ Frame["gs"] = 16 /\ Frame["fs"] = 16 /\ Frame["es"] = 16 /\ Frame["ds"] = 16
           /\ Frame["int_no"] = vector /\ Frame["err_code"] = GivenCode /\ Frame["cs"] = 8
           /\ \A r \in Registers : Frame[r] = Before(r)
  <1> DEFINE place(f) == CHOOSE k \in DOMAIN FrameFields : FrameFields[k] = f
  <1>1. /\ place("gs") = 1 /\ place("fs") = 2 /\ place("es") = 3 /\ place("ds") = 4
        /\ place("edi") = 5 /\ place("esi") = 6 /\ place("ebp") = 7 /\ place("esp") = 8
    BY DEF FrameFields
  <1>2. /\ place("ebx") = 9 /\ place("edx") = 10 /\ place("ecx") = 11 /\ place("eax") = 12
        /\ place("int_no") = 13 /\ place("err_code") = 14
        /\ place("eip") = 15 /\ place("cs") = 16 /\ place("eflags") = 17
    BY DEF FrameFields
  <1>3. \A f \in SetOf(FrameFields) : Frame[f] = InHandler[place(f)]
    BY DEF Frame
  <1> HIDE DEF place
  <1>4. /\ Frame["gs"] = 16 /\ Frame["fs"] = 16 /\ Frame["es"] = 16 /\ Frame["ds"] = 16
        /\ Frame["int_no"] = vector /\ Frame["err_code"] = GivenCode /\ Frame["cs"] = 8
    BY <1>1, <1>2, <1>3, Names DEF InHandler
  <1>5. /\ Frame["eax"] = Before("eax") /\ Frame["ecx"] = Before("ecx")
        /\ Frame["edx"] = Before("edx") /\ Frame["ebx"] = Before("ebx")
        /\ Frame["esp"] = Before("esp") /\ Frame["ebp"] = Before("ebp")
        /\ Frame["esi"] = Before("esi") /\ Frame["edi"] = Before("edi")
        /\ Frame["eip"] = Before("eip") /\ Frame["eflags"] = Before("eflags")
    BY <1>1, <1>2, <1>3, Names DEF InHandler
  <1> QED  BY <1>4, <1>5, Names

LEMMA BackStep ==
    ASSUME DescriptorInv, Back PROVE DescriptorInv'
  <1>1. /\ step = "back" /\ step' = "running"
        /\ seg' = [r \in Segments |-> IF r = "ss" THEN seg[r] ELSE Frame[r]]
        /\ reg' = [r \in Registers |-> IF r = "esp" THEN reg[r] ELSE Frame[r]]
        /\ stack' = SubSeq(stack, Len(FrameFields) + 1, Len(stack))
        /\ UNCHANGED <<tables, vector, was>>
    BY DEF Back
  <1>2. /\ seg = KernelSegments /\ stack = InHandler
        /\ was[1] \in [Registers -> Int] /\ was = <<was[1], KernelSegments>>
        /\ reg["esp"] = Before("esp") /\ vector \in Vectors
    BY <1>1 DEF DescriptorInv, CpuInv, InFlight
  <1>3. reg' = was[1]
    <2>1. reg' = [r \in Registers |-> was[1][r]]
      BY <1>1, <1>2, FrameIs DEF Before
    <2> QED  BY <1>2, <2>1
  <1>4. seg' = KernelSegments
    BY <1>1, <1>2, FrameIs, Names DEF KernelSegments
  <1>5. stack' = <<>>
    <2>1. Len(FrameFields) = 17 /\ Len(stack) = 17
      BY <1>2 DEF FrameFields, InHandler
    <2>2. stack' = SubSeq(stack, 18, 17)
      BY <1>1, <2>1
    <2> QED  BY <2>2
  <1>6. CpuInv'
    BY <1>1, <1>2, <1>3, <1>4, <1>5 DEF CpuInv, Steps, InFlight, Booting
  <1>7. TablesInv'
    BY <1>1, TablesKept DEF DescriptorInv, InFlight
  <1> QED  BY <1>6, <1>7 DEF DescriptorInv

LEMMA RebootStep ==
    ASSUME DescriptorInv, cmd_reboot \/ Int3 PROVE DescriptorInv'
  <1>1. CASE cmd_reboot
    <2>1. /\ step = "running" /\ idtr' = 0 /\ step' = "int3"
          /\ UNCHANGED <<gdt, gdtr, idt, num, seg, reg, stack, vector, was>>
      BY <1>1 DEF cmd_reboot, cpu
    <2>2. TablesInv'
      BY <2>1 DEF DescriptorInv, TablesInv, Booting
    <2>3. CpuInv'
      BY <2>1 DEF DescriptorInv, CpuInv, Booting, InFlight, Steps
    <2> QED  BY <2>2, <2>3 DEF DescriptorInv
  <1>2. CASE Int3
    <2>1. step = "int3" /\ idtr = 0 /\ Deliver(3) /\ 3 \in Vectors
      BY <1>2 DEF Int3, DescriptorInv, TablesInv, Vectors
    <2>2. step' = "reset" /\ UNCHANGED <<gdt, gdtr, idt, idtr, num, seg, reg, stack, vector, was>>
      BY <2>1, NoGateNoEntry DEF tables, cpu
    <2>3. TablesInv'
      BY <2>1, <2>2 DEF DescriptorInv, TablesInv, Booting
    <2>4. CpuInv'
      BY <2>1, <2>2 DEF DescriptorInv, CpuInv, Booting, InFlight, Steps
    <2> QED  BY <2>3, <2>4 DEF DescriptorInv
  <1> QED  BY <1>1, <1>2

(* Every vector gets to its stub and on to the C handler, which finds in   *)
(* its frame what the interrupted code had in every register, and irq      *)
(* handlers give it all back: wherever the linker put the stubs, and       *)
(* however many gates the IDT has beyond those the kernel fills.           *)
THEOREM InterruptsArriveAndReturn == DscSpec => []HandlersSeeTheInterrupted
  <1>1. DscInit => DescriptorInv
    BY DescriptorInit
  <1>2. DescriptorInv /\ [DscNext]_dscVars => DescriptorInv'
    <2> SUFFICES ASSUME DescriptorInv, [DscNext]_dscVars PROVE DescriptorInv'
      OBVIOUS
    <2>1. CASE UNCHANGED dscVars
      BY <2>1 DEF dscVars, tables, cpu, DescriptorInv, TablesInv, CpuInv,
         InStub, InCommon, InHandler, Returns, GivenCode, Before
    <2> QED  BY <2>1, BootStep, SignalStep, StubStep, CommonStep, HandlerStep, BackStep,
                RebootStep DEF DscNext, DscStep
  <1>3. DescriptorInv => HandlersSeeTheInterrupted
    <2> SUFFICES ASSUME DescriptorInv PROVE HandlersSeeTheInterrupted
      OBVIOUS
    <2>1. step = "stub" => reg["eip"] = StubAddress[vector]
      BY DEF DescriptorInv, CpuInv, InFlight
    <2>2. ASSUME step \in {"isr_handler", "irq_handler"}
          PROVE  /\ step = "isr_handler" <=> vector \in Exceptions
                 /\ Frame["int_no"] = vector
                 /\ Frame["err_code"] = IF vector \in CpuPushesCode THEN ErrorCode ELSE 0
                 /\ \A r \in Registers : Frame[r] = was[1][r]
                 /\ \A r \in Segments \ {"ss"} : Frame[r] = was[2][r]
                 /\ \A r \in Segments : Flat(seg[r])
                 /\ IsCode(seg["cs"]) /\ reg["eflags"] = NoIF
      <3>1. /\ step = "isr_handler" <=> vector \in Exceptions
            /\ stack = InHandler /\ seg = KernelSegments /\ reg["eflags"] = NoIF
            /\ was[2] = KernelSegments
        BY <2>2 DEF DescriptorInv, CpuInv, InFlight
      <3>2. /\ \A r \in Segments : Flat(seg[r])
            /\ IsCode(seg["cs"])
        <4>1. IsCode(8) /\ \A r \in Segments : Flat(KernelSegments[r])
          BY <2>2, GdtIsFlat DEF DescriptorInv, TablesInv
        <4>2. KernelSegments["cs"] = 8
          BY Names DEF KernelSegments
        <4> QED  BY <3>1, <4>1, <4>2
      <3>3. \A r \in Segments \ {"ss"} : Frame[r] = was[2][r]
        BY <3>1, FrameIs, Names DEF KernelSegments
      <3>4. \A r \in Registers : Frame[r] = was[1][r]
        BY <3>1, FrameIs DEF Before
      <3> QED  BY <3>1, <3>2, <3>3, <3>4, FrameIs DEF GivenCode
    <2>3. step = "running" => was \in {<<>>, <<reg, seg>>} /\ stack = <<>>
      BY DEF DescriptorInv, CpuInv
    <2>4. step = "reset" => idtr = 0
      BY DEF DescriptorInv, TablesInv
    <2> QED  BY <2>1, <2>2, <2>3, <2>4 DEF HandlersSeeTheInterrupted
  <1> QED  BY <1>1, <1>2, <1>3, PTL DEF DscSpec

----------------------------------------------------------------------------
(* Drawing.  Places of video memory and pixels of the screen.              *)

(* The assumptions about the screen, and what their products bound.        *)
LEMMA ScreenFacts ==
    /\ Pitch \in Nat \ {0} /\ Width \in Nat \ {0} /\ Width <= Pitch
    /\ Height \in Nat \ {0} /\ Wrap \in Nat \ {0}
    /\ 4 * Pitch <= Wrap /\ 4 * Width <= Wrap /\ 4 * Height <= Wrap
    /\ Pitch * Height \in Nat
  <1>1. /\ Pitch \in Nat \ {0} /\ Width \in Nat \ {0} /\ Width <= Pitch
        /\ Height \in Nat \ {0} /\ Wrap \in Nat /\ 4 * (Pitch * Height) <= Wrap
    <2>1. /\ Pitch \in Nat /\ Width \in 1 .. Pitch /\ Height \in Nat \ {0}
          /\ Wrap \in Nat /\ 4 * (Pitch * Height) <= Wrap
      BY Zenon, ScreenAssumption
    <2> QED  BY <2>1
  <1>2. ASSUME NEW a \in Nat \ {0}, NEW b \in Nat \ {0}
        PROVE  a * b \in Nat /\ a * b >= a /\ a * b >= b
    <2>1. \A k \in Nat : a * (k + 1) = a * k + a
      OBVIOUS
    <2>2. b - 1 \in Nat /\ b = (b - 1) + 1
      OBVIOUS
    <2>3. a * (b - 1) \in Nat /\ a * (b - 1) >= b - 1
      OBVIOUS
    <2> QED  BY <2>1, <2>2, <2>3
  <1>3. Pitch * Height \in Nat /\ Pitch * Height >= Pitch /\ Pitch * Height >= Height
    BY <1>1, <1>2
  <1> QED  BY <1>1, <1>3

(* A place of video memory is a row and a column, and no other is.         *)
LEMMA PlaceFacts ==
    /\ \A m \in VideoMemory : X(m) \in 0 .. Pitch - 1 /\ Y(m) \in 0 .. Height - 1
    /\ \A m, N \in VideoMemory : X(m) = X(N) /\ Y(m) = Y(N) => m = N
    /\ \A x \in 0 .. Pitch - 1, y \in 0 .. Height - 1 :
          \E m \in VideoMemory : X(m) = x /\ Y(m) = y
  <1> USE ScreenFacts
  <1>1. ASSUME NEW m \in VideoMemory
        PROVE  /\ X(m) \in 0 .. Pitch - 1 /\ Y(m) \in 0 .. Height - 1
               /\ m = Y(m) * Pitch + X(m)
    <2>1. m \in Nat /\ m < Pitch * Height
      BY DEF VideoMemory
    <2>2. X(m) \in 0 .. Pitch - 1 /\ Y(m) \in Nat /\ m = Y(m) * Pitch + X(m)
      BY <2>1 DEF X, Y
    <2>3. Y(m) < Height
      <3>1. ASSUME NEW a \in Nat, NEW b \in Nat, NEW pt \in Nat \ {0}, a >= b
            PROVE  a * pt >= pt * b
        BY <3>1
      <3>2. Y(m) * Pitch \in Nat
        BY <2>2
      <3> QED  BY <2>1, <2>2, <3>1, <3>2
    <2> QED  BY <2>2, <2>3
  <1>2. ASSUME NEW x \in 0 .. Pitch - 1, NEW y \in 0 .. Height - 1
        PROVE  \E m \in VideoMemory : X(m) = x /\ Y(m) = y
    <2> DEFINE m == y * Pitch + x
    <2>1. y * Pitch \in Nat /\ y * Pitch <= Pitch * Height - Pitch
      <3>1. ASSUME NEW pt \in Nat \ {0}, NEW h \in Nat, NEW b \in 0 .. h - 1
            PROVE  b * pt \in Nat /\ b * pt <= pt * h - pt
        BY <3>1
      <3> QED  BY <3>1
    <2>2. m \in VideoMemory
      BY <2>1 DEF VideoMemory
    <2>3. m % Pitch = x /\ m \div Pitch = y
      <3>1. ASSUME NEW pt \in Nat \ {0}, NEW b \in Nat, NEW r \in 0 .. pt - 1
            PROVE  (b * pt + r) % pt = r /\ (b * pt + r) \div pt = b
        BY <3>1
      <3> QED  BY <3>1
    <2> QED  BY <2>2, <2>3 DEF X, Y
  <1>3. \A m, N \in VideoMemory : X(m) = X(N) /\ Y(m) = Y(N) => m = N
    BY <1>1
  <1> QED  BY <1>1, <1>2, <1>3

(* An outline is drawn at once.                                            *)
LEMMA OutlineDrawn ==
    ASSUME NEW t \in RectRequests,
           pixels = fb_draw_rect(Blank, t.x, t.y, t.w, t.h, t.color)
    PROVE  IsOutline(t)
  <1> SUFFICES ASSUME t.w > 0, t.h > 0, t.x + t.w < Wrap, t.y + t.h < Wrap
               PROVE  Painted = {m \in OnScreen : Inside(m, t.x, t.y, t.w, t.h)
                                    /\ ~ Inside(m, t.x + 1, t.y + 1, t.w - 2, t.h - 2)}
    BY DEF IsOutline
  <1>1. /\ t.x \in Nat /\ t.y \in Nat /\ t.w \in Nat /\ t.h \in Nat
        /\ t.color # "untouched"
    BY ScreenFacts DEF RectRequests, Coordinates, Colors
  <1>2. /\ U(t.x + t.w) = t.x + t.w /\ U(t.y + t.h) = t.y + t.h
        /\ U(t.x + t.w - 1) = t.x + t.w - 1 /\ U(t.y + t.h - 1) = t.y + t.h - 1
    BY <1>1, ScreenFacts DEF U
  <1>3. ASSUME NEW m \in VideoMemory
        PROVE  m \in Painted <=>
                 /\ m \in OnScreen /\ Inside(m, t.x, t.y, t.w, t.h)
                 /\ ~ Inside(m, t.x + 1, t.y + 1, t.w - 2, t.h - 2)
    <2>1. X(m) \in Nat /\ Y(m) \in Nat
      BY PlaceFacts, ScreenFacts
    <2>2. m \in Painted <=>
             /\ X(m) < Width
             /\ \/ t.x <= X(m) /\ X(m) < t.x + t.w /\ Y(m) \in {t.y, t.y + t.h - 1}
                \/ t.y <= Y(m) /\ Y(m) < t.y + t.h /\ X(m) \in {t.x, t.x + t.w - 1}
      BY <1>1, <1>2 DEF Painted, fb_draw_rect, Blank
    <2>3. m \in OnScreen <=> X(m) < Width
      BY DEF OnScreen
    <2> QED  BY <1>1, <2>1, <2>2, <2>3 DEF Inside
  <1> QED  BY <1>3 DEF Painted, OnScreen

----------------------------------------------------------------------------
(* Lines.  Along the longer axis a line takes Long(t) steps; after i of    *)
(* them it is j steps along the other, and as near to the ideal line as    *)
(* OnTrack says.                                                           *)
Long(t)  == IF IsFlat(t) THEN Abs(t.x1 - t.x) ELSE Abs(t.y1 - t.y)
Short(t) == IF IsFlat(t) THEN Abs(t.y1 - t.y) ELSE Abs(t.x1 - t.x)
OnTrack(t, i, j) ==
    /\ i \in 0 .. Long(t) /\ j \in 0 .. Short(t)
    /\ 2 * Abs(j * Long(t) - i * Short(t)) <= Long(t)
TrackX(t, i, j) == t.x + Towards(t.x, t.x1) * (IF IsFlat(t) THEN i ELSE j)
TrackY(t, i, j) == t.y + Towards(t.y, t.y1) * (IF IsFlat(t) THEN j ELSE i)
TrackError(t, i, j) ==
    LET e == (j + 1) * Long(t) - (i + 1) * Short(t) IN IF IsFlat(t) THEN e ELSE 0 - e

LEMMA TrackGoesOn ==
    ASSUME NEW L \in Nat, NEW S \in 0 .. L, NEW i \in 0 .. L - 1, NEW j \in 0 .. S,
           2 * Abs(j * L - i * S) <= L
    PROVE  LET e == (j + 1) * L - (i + 1) * S
           IN  /\ e \in Int /\ 2 * e > 0 - S
               /\ 2 * e < L => j + 1 <= S /\ 2 * Abs((j + 1) * L - (i + 1) * S) <= L
               /\ ~ (2 * e < L) => 2 * Abs(j * L - (i + 1) * S) <= L
               /\ (j + 2) * L - (i + 2) * S = e - S + L
               /\ (j + 1) * L - (i + 2) * S = e - S
  <1> DEFINE a == j * L
             b == i * S
             e == (j + 1) * L - (i + 1) * S
  <1>1. /\ a \in Int /\ b \in Int
        /\ (j + 1) * L = a + L /\ (j + 2) * L = a + L + L
        /\ (i + 1) * S = b + S /\ (i + 2) * S = b + S + S
    OBVIOUS
  <1>2. 2 * Abs(a - b) <= L
    OBVIOUS
  <1> HIDE DEF a, b
  <1>3. e \in Int /\ e = a + L - b - S
    BY <1>1
  <1>4. 0 - L <= 2 * (a - b) /\ 2 * (a - b) <= L /\ L > 0
    BY <1>1, <1>2 DEF Abs
  <1>5. 2 * e > 0 - S
    <2>1. CASE S < L
      BY <1>1, <1>3, <1>4, <2>1
    <2>2. CASE S = L
      <3>1. a - b = (j - i) * L
        BY <2>2 DEF a, b
      <3>2. ASSUME NEW k \in Int, 0 - L <= 2 * (k * L), 2 * (k * L) <= L  PROVE k = 0
        <4>1. CASE k >= 1
          <5>1. k * L >= L
            BY <4>1
          <5> QED  BY <1>4, <3>2, <5>1
        <4>2. CASE k <= -1
          <5>1. k * L <= 0 - L
            BY <4>2
          <5> QED  BY <1>4, <3>2, <5>1
        <4> QED  BY <4>1, <4>2
      <3>3. j - i = 0
        BY <1>4, <3>1, <3>2
      <3>4. a - b = 0
        BY <3>1, <3>3
      <3> QED  BY <1>1, <1>3, <1>4, <2>2, <3>4
    <2> QED  BY <2>1, <2>2
  <1>6. ASSUME 2 * e < L
        PROVE  j + 1 <= S /\ 2 * Abs((j + 1) * L - (i + 1) * S) <= L
    <2>1. 2 * Abs(a + L - (b + S)) <= L
      BY <1>1, <1>3, <1>4, <1>6 DEF Abs
    <2>2. ASSUME j = S PROVE FALSE
      <3>1. b + S <= L * S
        <4>1. ASSUME NEW k \in 0 .. L PROVE k * S <= L * S
          BY <4>1
        <4>2. (i + 1) * S <= L * S
          BY <4>1
        <4> QED  BY <1>1, <4>2
      <3>2. a = L * S
        BY <2>2 DEF a
      <3>3. L * S \in Int
        OBVIOUS
      <3> QED  BY <1>1, <1>3, <1>4, <1>6, <3>1, <3>2, <3>3
    <2> QED  BY <1>1, <2>1, <2>2
  <1>7. ASSUME ~ (2 * e < L)
        PROVE  2 * Abs(j * L - (i + 1) * S) <= L
    <2>1. 2 * Abs(a - (b + S)) <= L
      BY <1>1, <1>3, <1>4, <1>7 DEF Abs
    <2> QED  BY <1>1, <2>1 DEF a
  <1>8. /\ (j + 2) * L - (i + 2) * S = e - S + L
        /\ (j + 1) * L - (i + 2) * S = e - S
    BY <1>1, <1>3
  <1> QED  BY <1>3, <1>5, <1>6, <1>7, <1>8

(* At its end a line is where it was to go.                                *)
LEMMA TrackEnds ==
    ASSUME NEW L \in Nat, NEW S \in 0 .. L, NEW j \in 0 .. S,
           2 * Abs(j * L - L * S) <= L
    PROVE  j = S
  <1> SUFFICES ASSUME j < S PROVE FALSE
    OBVIOUS
  <1>1. j * L + L <= L * S
    <2>1. ASSUME NEW k \in 0 .. S PROVE k * L <= L * S
      BY <2>1
    <2>2. (j + 1) * L <= L * S
      BY <2>1
    <2>3. (j + 1) * L = j * L + L
      OBVIOUS
    <2> QED  BY <2>2, <2>3
  <1>2. j * L \in Int /\ L * S \in Int /\ L > 0
    OBVIOUS
  <1> QED  BY <1>1, <1>2 DEF Abs

(* Along and across a line: how far it goes, and in which direction.       *)
LEMMA LineFacts ==
    ASSUME NEW t \in LineRequests
    PROVE  /\ t.x \in Int /\ t.y \in Int /\ t.x1 \in Int /\ t.y1 \in Int
           /\ Towards(t.x, t.x1) \in {-1, 1} /\ Towards(t.y, t.y1) \in {-1, 1}
           /\ Abs(t.x1 - t.x) \in Nat /\ Abs(t.y1 - t.y) \in Nat
           /\ t.x1 = t.x + Towards(t.x, t.x1) * Abs(t.x1 - t.x)
           /\ t.y1 = t.y + Towards(t.y, t.y1) * Abs(t.y1 - t.y)
           /\ Long(t) \in Nat /\ Short(t) \in 0 .. Long(t)
           /\ t.color # "untouched"
  <1>1. /\ t.x \in LineCoordinates /\ t.y \in LineCoordinates
        /\ t.x1 \in LineCoordinates /\ t.y1 \in LineCoordinates
        /\ t.color # "untouched"
    BY DEF LineRequests, Colors
  <1>2. /\ t.x \in Int /\ t.y \in Int /\ t.x1 \in Int /\ t.y1 \in Int
    BY <1>1, ScreenFacts DEF LineCoordinates
  <1>3. /\ Abs(t.x1 - t.x) \in Nat /\ Abs(t.y1 - t.y) \in Nat
    BY <1>2 DEF Abs
  <1>4. /\ Towards(t.x, t.x1) \in {-1, 1} /\ Towards(t.y, t.y1) \in {-1, 1}
        /\ t.x1 = t.x + Towards(t.x, t.x1) * Abs(t.x1 - t.x)
        /\ t.y1 = t.y + Towards(t.y, t.y1) * Abs(t.y1 - t.y)
    BY <1>2 DEF Abs, Towards
  <1> QED  BY <1>1, <1>2, <1>3, <1>4 DEF Long, Short, IsFlat

(* The pixels near the ideal line are those on track.                      *)
LEMMA TrackIsNear ==
    ASSUME NEW t \in LineRequests, NEW i \in Int, NEW j \in Int
    PROVE  Near(t, TrackX(t, i, j), TrackY(t, i, j)) <=> OnTrack(t, i, j)
  <1> DEFINE sx == Towards(t.x, t.x1)
             sy == Towards(t.y, t.y1)
             dx == Abs(t.x1 - t.x)
             dy == Abs(t.y1 - t.y)
             pt == IF IsFlat(t) THEN i ELSE j
             q == IF IsFlat(t) THEN j ELSE i
             far == IF IsFlat(t) THEN dx ELSE dy
  <1>0. \A x, y : Near(t, x, y) <=>
           /\ Between(t.x, x, t.x1) /\ Between(t.y, y, t.y1)
           /\ 2 * Abs((y - t.y) * (t.x1 - t.x) - (x - t.x) * (t.y1 - t.y)) <= far
    BY Zenon DEF Near
  <1>1. /\ t.x \in Int /\ t.y \in Int /\ t.x1 \in Int /\ t.y1 \in Int
        /\ sx \in {-1, 1} /\ sy \in {-1, 1} /\ dx \in Nat /\ dy \in Nat
        /\ t.x1 = t.x + sx * dx /\ t.y1 = t.y + sy * dy
    BY LineFacts
  <1>2. TrackX(t, i, j) = t.x + sx * pt /\ TrackY(t, i, j) = t.y + sy * q
    BY DEF TrackX, TrackY
  <1>3. pt \in Int /\ q \in Int
    OBVIOUS
  <1>4. OnTrack(t, i, j) <=>
          /\ pt \in 0 .. dx /\ q \in 0 .. dy
          /\ 2 * Abs(q * dx - pt * dy) <= far
    <2>1. CASE IsFlat(t)
      BY <2>1 DEF OnTrack, Long, Short
    <2>2. CASE ~ IsFlat(t)
      <3>1. j * dy \in Int /\ i * dx \in Int /\ Abs(j * dy - i * dx) = Abs(i * dx - j * dy)
        BY <1>1 DEF Abs
      <3> QED  BY <2>2, <3>1 DEF OnTrack, Long, Short
    <2> QED  BY <2>1, <2>2
  <1> HIDE DEF sx, sy, dx, dy, pt, q, far
  <1>5. Between(t.x, t.x + sx * pt, t.x1) <=> pt \in 0 .. dx
    BY <1>1, <1>3 DEF Between
  <1>6. Between(t.y, t.y + sy * q, t.y1) <=> q \in 0 .. dy
    BY <1>1, <1>3 DEF Between
  <1>7. Abs(((t.y + sy * q) - t.y) * (t.x1 - t.x) - ((t.x + sx * pt) - t.x) * (t.y1 - t.y))
          = Abs(q * dx - pt * dy)
    <2>1. /\ (t.y + sy * q) - t.y = sy * q /\ t.x1 - t.x = sx * dx
          /\ (t.x + sx * pt) - t.x = sx * pt /\ t.y1 - t.y = sy * dy
      BY <1>1, <1>3
    <2>2. q * dx \in Int /\ pt * dy \in Int
      BY <1>1, <1>3
    <2>3. Abs((sy * q) * (sx * dx) - (sx * pt) * (sy * dy)) = Abs(q * dx - pt * dy)
      <3>1. CASE sx = sy
        <4>1. (sy * q) * (sx * dx) = q * dx /\ (sx * pt) * (sy * dy) = pt * dy
          BY <1>1, <1>3, <3>1
        <4> QED  BY <4>1
      <3>2. CASE sx # sy
        <4>1. /\ (sy * q) * (sx * dx) = 0 - q * dx
              /\ (sx * pt) * (sy * dy) = 0 - pt * dy
          BY <1>1, <1>3, <3>2
        <4> QED  BY <2>2, <4>1 DEF Abs
      <3> QED  BY <3>1, <3>2
    <2> QED  BY <2>1, <2>3
  <1>8. Near(t, t.x + sx * pt, t.y + sy * q) <=>
           /\ pt \in 0 .. dx /\ q \in 0 .. dy
           /\ 2 * Abs(q * dx - pt * dy) <= far
    BY Zenon, <1>0, <1>5, <1>6, <1>7
  <1> QED  BY Zenon, <1>2, <1>4, <1>8

LEMMA NearIsOnTrack ==
    ASSUME NEW t \in LineRequests, NEW x \in Int, NEW y \in Int, Near(t, x, y)
    PROVE  \E i \in 0 .. Long(t), j \in 0 .. Short(t) :
              OnTrack(t, i, j) /\ x = TrackX(t, i, j) /\ y = TrackY(t, i, j)
  <1> DEFINE sx == Towards(t.x, t.x1)
             sy == Towards(t.y, t.y1)
             pt == sx * (x - t.x)
             q == sy * (y - t.y)
             i == IF IsFlat(t) THEN pt ELSE q
             j == IF IsFlat(t) THEN q ELSE pt
  <1>1. /\ t.x \in Int /\ t.y \in Int /\ sx \in {-1, 1} /\ sy \in {-1, 1}
    BY LineFacts
  <1>2. /\ pt \in Int /\ q \in Int /\ x = t.x + sx * pt /\ y = t.y + sy * q
    BY <1>1
  <1> HIDE DEF pt, q, sx, sy
  <1>3. i \in Int /\ j \in Int
    BY <1>2
  <1>4. x = TrackX(t, i, j) /\ y = TrackY(t, i, j)
    BY <1>2 DEF TrackX, TrackY, sx, sy
  <1>5. OnTrack(t, i, j)
    BY <1>3, <1>4, TrackIsNear
  <1> QED  BY <1>4, <1>5 DEF OnTrack

(* Bresenham's step goes on along the track.                               *)
LEMMA BresenhamOnTrack ==
    ASSUME NEW t \in LineRequests, NEW i \in 0 .. Long(t) - 1, NEW j \in 0 .. Short(t),
           OnTrack(t, i, j)
    PROVE  \E k \in 0 .. Short(t) :
              /\ OnTrack(t, i + 1, k)
              /\ Bresenham(t, TrackX(t, i, j), TrackY(t, i, j), TrackError(t, i, j))
                   = <<TrackX(t, i + 1, k), TrackY(t, i + 1, k), TrackError(t, i + 1, k)>>
  <1> DEFINE L == Long(t)
             S == Short(t)
             sx == Towards(t.x, t.x1)
             sy == Towards(t.y, t.y1)
             dx == Abs(t.x1 - t.x)
             dy == Abs(t.y1 - t.y)
             e == (j + 1) * L - (i + 1) * S
             aside == 2 * e < L
             k == IF aside THEN j + 1 ELSE j
             err == TrackError(t, i, j)
  <1>1. /\ L \in Nat /\ S \in 0 .. L /\ i \in 0 .. L - 1 /\ j \in 0 .. S
        /\ 2 * Abs(j * L - i * S) <= L
    BY LineFacts DEF OnTrack
  <1>2. /\ e \in Int /\ 2 * e > 0 - S
        /\ aside => j + 1 <= S /\ 2 * Abs((j + 1) * L - (i + 1) * S) <= L
        /\ ~ aside => 2 * Abs(j * L - (i + 1) * S) <= L
        /\ (j + 2) * L - (i + 2) * S = e - S + L
        /\ (j + 1) * L - (i + 2) * S = e - S
    BY <1>1, TrackGoesOn
  <1>3. k \in 0 .. S /\ OnTrack(t, i + 1, k)
    BY <1>1, <1>2 DEF OnTrack
  <1>4. (k + 1) * L - (i + 2) * S = e - S + (IF aside THEN L ELSE 0)
    <2>1. ASSUME aside PROVE (k + 1) * L - (i + 2) * S = e - S + L
      <3>1. k = j + 1
        BY <2>1
      <3>2. k + 1 = j + 2
        BY <1>1, <3>1
      <3> QED  BY Zenon, <1>2, <3>2
    <2>2. ASSUME ~ aside PROVE (k + 1) * L - (i + 2) * S = e - S
      <3>1. k = j
        BY <2>2
      <3> QED  BY Zenon, <1>2, <3>1
    <2>3. e - S + 0 = e - S
      BY <1>1, <1>2
    <2> HIDE DEF L, S, e, aside, k
    <2> QED  BY <2>1, <2>2, <2>3
  <1>5. /\ t.x \in Int /\ t.y \in Int /\ sx \in {-1, 1} /\ sy \in {-1, 1}
    BY LineFacts
  <1>6. /\ i + 1 + 1 = i + 2
        /\ \A u \in {-1, 1}, a \in Int : u * (a + 1) = u * a + u /\ u * a \in Int
        /\ i \in Int /\ j \in Int /\ k = IF aside THEN j + 1 ELSE j
    OBVIOUS
  <1>7. CASE IsFlat(t)
    <2>1. /\ L = dx /\ S = dy /\ err = e
          /\ TrackError(t, i + 1, k) = (k + 1) * L - (i + 2) * S
          /\ TrackX(t, i, j) = t.x + sx * i /\ TrackX(t, i + 1, k) = t.x + sx * (i + 1)
          /\ TrackY(t, i, j) = t.y + sy * j /\ TrackY(t, i + 1, k) = t.y + sy * k
      BY <1>6, <1>7 DEF Long, Short, TrackError, TrackX, TrackY
    <2>2. /\ t.x + sx * (i + 1) = t.x + sx * i + sx
          /\ t.y + sy * k = IF aside THEN t.y + sy * j + sy ELSE t.y + sy * j
      <3> HIDE DEF sx, sy, aside, k, L, S, e
      <3>1. \A u \in {-1, 1}, a \in Int, b \in Int : b + u * (a + 1) = b + u * a + u
        BY <1>6
      <3>2. t.x + sx * (i + 1) = t.x + sx * i + sx
        BY <1>5, <1>6, <3>1
      <3>3. t.y + sy * (j + 1) = t.y + sy * j + sy
        BY <1>5, <1>6, <3>1
      <3>4. aside => k = j + 1
        BY <1>6
      <3>5. ~ aside => k = j
        BY <1>6
      <3> QED  BY Zenon, <3>2, <3>3, <3>4, <3>5
    <2>3. 2 * err > 0 - dy /\ (2 * err < dx <=> aside)
      BY <1>2, <2>1
    <2>4. TrackError(t, i + 1, k) = err - dy + (IF aside THEN dx ELSE 0)
      BY <1>4, <2>1
    <2> HIDE DEF L, S, sx, sy, dx, dy, e, aside, k, err
    <2>5. Bresenham(t, TrackX(t, i, j), TrackY(t, i, j), err)
            = <<TrackX(t, i, j) + sx,
                IF aside THEN TrackY(t, i, j) + sy ELSE TrackY(t, i, j),
                err - dy + (IF aside THEN dx ELSE 0)>>
      BY <2>3 DEF Bresenham, dx, dy, sx, sy
    <2>6. Bresenham(t, TrackX(t, i, j), TrackY(t, i, j), err)
            = <<TrackX(t, i + 1, k), TrackY(t, i + 1, k), TrackError(t, i + 1, k)>>
      BY <2>1, <2>2, <2>4, <2>5
    <2> QED  BY <1>3, <2>6 DEF err, S
  <1>8. CASE ~ IsFlat(t)
    <2>1. /\ L = dy /\ S = dx /\ err = 0 - e
          /\ TrackError(t, i + 1, k) = 0 - ((k + 1) * L - (i + 2) * S)
          /\ TrackX(t, i, j) = t.x + sx * j /\ TrackX(t, i + 1, k) = t.x + sx * k
          /\ TrackY(t, i, j) = t.y + sy * i /\ TrackY(t, i + 1, k) = t.y + sy * (i + 1)
      BY <1>6, <1>8 DEF Long, Short, TrackError, TrackX, TrackY
    <2>2. /\ t.y + sy * (i + 1) = t.y + sy * i + sy
          /\ t.x + sx * k = IF aside THEN t.x + sx * j + sx ELSE t.x + sx * j
      <3> HIDE DEF sx, sy, aside, k, L, S, e
      <3>1. \A u \in {-1, 1}, a \in Int, b \in Int : b + u * (a + 1) = b + u * a + u
        BY <1>6
      <3>2. t.y + sy * (i + 1) = t.y + sy * i + sy
        BY <1>5, <1>6, <3>1
      <3>3. t.x + sx * (j + 1) = t.x + sx * j + sx
        BY <1>5, <1>6, <3>1
      <3>4. aside => k = j + 1
        BY <1>6
      <3>5. ~ aside => k = j
        BY <1>6
      <3> QED  BY Zenon, <3>2, <3>3, <3>4, <3>5
    <2>3. 2 * err < dx /\ (2 * err > 0 - dy <=> aside)
      BY <1>1, <1>2, <2>1
    <2>4. TrackError(t, i + 1, k) = err - (IF aside THEN dy ELSE 0) + dx
      BY <1>1, <1>2, <1>4, <2>1
    <2> HIDE DEF L, S, sx, sy, dx, dy, e, aside, k, err
    <2>5. Bresenham(t, TrackX(t, i, j), TrackY(t, i, j), err)
            = <<IF aside THEN TrackX(t, i, j) + sx ELSE TrackX(t, i, j),
                TrackY(t, i, j) + sy,
                err - (IF aside THEN dy ELSE 0) + dx>>
      BY <2>3 DEF Bresenham, dx, dy, sx, sy
    <2>6. Bresenham(t, TrackX(t, i, j), TrackY(t, i, j), err)
            = <<TrackX(t, i + 1, k), TrackY(t, i + 1, k), TrackError(t, i + 1, k)>>
      BY <2>1, <2>2, <2>4, <2>5
    <2> QED  BY <1>3, <2>6 DEF err, S
  <1> QED  BY <1>7, <1>8

(* What a line has drawn, N steps after its start, where g is its track.   *)
Track(t, g, N) ==
    {m \in OnScreen : \E i \in 0 .. N - 1 :
        X(m) = TrackX(t, i, g[i]) /\ Y(m) = TrackY(t, i, g[i])}
AtTrack(t, g, N) ==
    at = <<TrackX(t, N, g[N]), TrackY(t, N, g[N]), TrackError(t, N, g[N])>>
LineDrawn(t, g, N) ==
    /\ \A i \in 0 .. N - 1 : OnTrack(t, i, g[i])
    /\ pixels = [m \in VideoMemory |-> IF m \in Track(t, g, N) THEN t.color ELSE "untouched"]
LinePart(t) ==
    /\ t \in LineRequests
    /\ \E g \in [0 .. Long(t) -> 0 .. Short(t)], N \in 0 .. Long(t) + 1 :
          /\ LineDrawn(t, g, N)
          /\ \/ todo = <<t>> /\ at = <<>> /\ N = 0
             \/ /\ todo = <<t>> /\ N <= Long(t)
                /\ OnTrack(t, N, g[N]) /\ AtTrack(t, g, N)
             \/ todo = <<>> /\ at = <<>> /\ N = Long(t) + 1

LEMMA PlotsTrack ==
    ASSUME NEW t \in LineRequests, NEW i \in Int, NEW j \in Int, OnTrack(t, i, j),
           NEW m \in VideoMemory, NEW pic, NEW color
    PROVE  LET x == TrackX(t, i, j)
               y == TrackY(t, i, j)
           IN  /\ x \in LineCoordinates /\ y \in LineCoordinates
               /\ fb_plot(pic, U(x), U(y), color)[m]
                    = IF m \in OnScreen /\ X(m) = x /\ Y(m) = y THEN color ELSE pic[m]
  <1> DEFINE x == TrackX(t, i, j)
             y == TrackY(t, i, j)
  <1>1. x \in Int /\ y \in Int
    BY LineFacts DEF TrackX, TrackY
  <1>2. Near(t, x, y)
    BY TrackIsNear
  <1>3. x \in LineCoordinates /\ y \in LineCoordinates
    <2>1. Between(t.x, x, t.x1) /\ Between(t.y, y, t.y1)
      BY <1>2 DEF Near
    <2>2. /\ t.x \in LineCoordinates /\ t.y \in LineCoordinates
          /\ t.x1 \in LineCoordinates /\ t.y1 \in LineCoordinates
      BY DEF LineRequests
    <2> HIDE DEF x, y
    <2>3. Wrap \div 16 \in Int
      BY ScreenFacts
    <2> QED  BY <1>1, <2>1, <2>2, <2>3 DEF Between, LineCoordinates
  <1> HIDE DEF x, y
  <1>4. /\ U(x) = IF x < 0 THEN x + Wrap ELSE x
        /\ U(y) = IF y < 0 THEN y + Wrap ELSE y
    <2>1. Wrap \div 16 < Wrap /\ Wrap \div 16 \in Nat
      BY ScreenFacts
    <2> QED  BY <1>3, <2>1, ScreenFacts DEF LineCoordinates, U
  <1>5. /\ x + Wrap >= Pitch /\ y + Wrap >= Height
    <2>1. 2 * (Wrap \div 16) <= Wrap /\ Wrap \div 16 \in Nat
      BY ScreenFacts
    <2> QED  BY <1>3, <2>1, ScreenFacts DEF LineCoordinates
  <1>6. X(m) \in 0 .. Pitch - 1 /\ Y(m) \in 0 .. Height - 1
    BY PlaceFacts
  <1>7. (X(m) = U(x) /\ U(x) < Width /\ Y(m) = U(y))
          <=> (m \in OnScreen /\ X(m) = x /\ Y(m) = y)
    BY <1>1, <1>4, <1>5, <1>6, ScreenFacts DEF OnScreen
  <1> QED  BY <1>3, <1>7 DEF fb_plot, x, y

(* A line whose track is complete is one.                                  *)
LEMMA LineIsDrawn ==
    ASSUME LinePart(asked), todo = <<>>
    PROVE  IsLine(asked)
  <1> DEFINE t == asked
             L == Long(t)
             S == Short(t)
  <1>1. t \in LineRequests
    BY DEF LinePart
  <1>2. PICK g \in [0 .. L -> 0 .. S] : LineDrawn(t, g, L + 1)
    <2>1. todo # <<t>>
      OBVIOUS
    <2> QED  BY <2>1 DEF LinePart
  <1> HIDE DEF t
  <1>3. /\ t.color # "untouched" /\ L \in Nat /\ S \in Nat /\ t.x \in Int /\ t.y \in Int
        /\ Towards(t.x, t.x1) \in {-1, 1} /\ Towards(t.y, t.y1) \in {-1, 1}
    BY <1>1, LineFacts
  <1>4. \A i \in 0 .. L : g[i] \in 0 .. S /\ OnTrack(t, i, g[i])
    BY <1>2, <1>3 DEF LineDrawn
  <1>5. Painted = {m \in OnScreen : \E i \in 0 .. L :
                      X(m) = TrackX(t, i, g[i]) /\ Y(m) = TrackY(t, i, g[i])}
    <2>1. (L + 1) - 1 = L
      BY <1>3
    <2>2. Track(t, g, L + 1) = {m \in OnScreen : \E i \in 0 .. L :
                      X(m) = TrackX(t, i, g[i]) /\ Y(m) = TrackY(t, i, g[i])}
      BY <2>1 DEF Track
    <2>3. Painted = {m \in VideoMemory : m \in Track(t, g, L + 1)}
      BY <1>2, <1>3 DEF Painted, LineDrawn
    <2> QED  BY <2>2, <2>3 DEF OnScreen
  <1>6. \A m \in VideoMemory : X(m) \in Int /\ Y(m) \in Int
    BY PlaceFacts, ScreenFacts
  \* The place along the longer axis tells the step.
  <1>7. ASSUME NEW i \in Int, NEW j \in Int, NEW h \in Int, NEW k \in Int,
               (IF IsFlat(t) THEN TrackX(t, i, j) ELSE TrackY(t, i, j))
                 = (IF IsFlat(t) THEN TrackX(t, h, k) ELSE TrackY(t, h, k))
        PROVE  i = h
    <2>1. CASE IsFlat(t)
      <3>1. t.x + Towards(t.x, t.x1) * i = t.x + Towards(t.x, t.x1) * h
        BY <1>7, <2>1 DEF TrackX
      <3> QED  BY <1>3, <3>1
    <2>2. CASE ~ IsFlat(t)
      <3>1. t.y + Towards(t.y, t.y1) * i = t.y + Towards(t.y, t.y1) * h
        BY <1>7, <2>2 DEF TrackY
      <3> QED  BY <1>3, <3>1
    <2> QED  BY <2>1, <2>2
  <1>8. Painted \subseteq Close(t)
    <2> SUFFICES ASSUME NEW m \in OnScreen, NEW i \in 0 .. L,
                        X(m) = TrackX(t, i, g[i]), Y(m) = TrackY(t, i, g[i])
                 PROVE  Near(t, X(m), Y(m))
      BY <1>5 DEF Close
    <2>1. g[i] \in Int /\ i \in Int /\ OnTrack(t, i, g[i])
      BY <1>3, <1>4
    <2> QED  BY <1>1, <2>1, TrackIsNear
  <1>9. ASSUME NEW m \in Painted, NEW N \in Painted, Step(t, m) = Step(t, N)
        PROVE  m = N
    <2>1. PICK i \in 0 .. L : X(m) = TrackX(t, i, g[i]) /\ Y(m) = TrackY(t, i, g[i])
      BY <1>5
    <2>2. PICK h \in 0 .. L : X(N) = TrackX(t, h, g[h]) /\ Y(N) = TrackY(t, h, g[h])
      BY <1>5
    <2>3. /\ i \in Int /\ h \in Int /\ g[i] \in Int /\ g[h] \in Int
      BY <1>3, <1>4
    <2>4. i = h
      BY <1>7, <1>9, <2>1, <2>2, <2>3 DEF Step
    <2> QED  BY <2>1, <2>2, <2>4, PlaceFacts DEF Painted
  <1>10. ASSUME NEW m \in Close(t), OnlyCandidate(t, m)
         PROVE  \E N \in Painted : Step(t, N) = Step(t, m)
    <2>1. m \in OnScreen /\ Near(t, X(m), Y(m)) /\ X(m) \in Int /\ Y(m) \in Int
      BY <1>6 DEF Close, OnScreen
    <2>2. PICK i \in 0 .. L, j \in 0 .. S :
             OnTrack(t, i, j) /\ X(m) = TrackX(t, i, j) /\ Y(m) = TrackY(t, i, j)
      BY <1>1, <2>1, NearIsOnTrack
    <2> DEFINE x == TrackX(t, i, g[i])
               y == TrackY(t, i, g[i])
               k == IF IsFlat(t) THEN y - Y(m) ELSE x - X(m)
    <2>3. g[i] \in 0 .. S /\ OnTrack(t, i, g[i]) /\ i \in Int /\ j \in Int /\ g[i] \in Int
      BY <1>3, <1>4
    <2>4. Near(t, x, y)
      BY <1>1, <2>3, TrackIsNear
    <2>5. x \in Int /\ y \in Int
      BY <1>3, <2>3 DEF TrackX, TrackY
    \* Both are as near as can be, so that they are neighbours.
    <2>6. g[i] - j \in {-1, 0, 1}
      <3> DEFINE a == g[i] * L
                 b == j * L
                 c == i * S
      <3>1. a \in Int /\ b \in Int /\ c \in Int
        BY <1>3, <2>3
      <3>2. 2 * Abs(a - c) <= L /\ 2 * Abs(b - c) <= L
        BY <2>2, <2>3 DEF OnTrack
      <3>3. a - b <= L /\ b - a <= L
        <4> HIDE DEF a, b, c
        <4> QED  BY <1>3, <3>1, <3>2 DEF Abs
      <3>4. CASE L = 0
        BY <1>1, <1>3, <2>2, <2>3, <3>4, LineFacts
      <3>5. CASE L > 0
        <4>1. ASSUME NEW v \in Int, v >= 2 PROVE v * L > L
          <5> HIDE DEF L
          <5>1. (v - 2) * L \in Nat
            <6>1. v - 2 \in Nat
              BY <4>1
            <6> QED  BY <1>3, <6>1
          <5>2. v * L = (v - 2) * L + 2 * L
            BY <1>3
          <5> QED  BY <1>3, <3>5, <5>1, <5>2
        <4>2. (g[i] - j) * L = a - b /\ (j - g[i]) * L = b - a
          BY <1>3, <2>3
        <4>3. ~ (g[i] - j >= 2)
          <5> SUFFICES ASSUME g[i] - j >= 2 PROVE FALSE
            OBVIOUS
          <5>1. g[i] - j \in Int
            BY <2>3
          <5>2. (g[i] - j) * L > L
            BY <4>1, <5>1
          <5> HIDE DEF a, b, L
          <5> QED  BY <1>3, <3>1, <3>3, <4>2, <5>2
        <4>4. ~ (j - g[i] >= 2)
          <5> SUFFICES ASSUME j - g[i] >= 2 PROVE FALSE
            OBVIOUS
          <5>1. j - g[i] \in Int
            BY <2>3
          <5>2. (j - g[i]) * L > L
            BY <4>1, <5>1
          <5> HIDE DEF a, b, L
          <5> QED  BY <1>3, <3>1, <3>3, <4>2, <5>2
        <4> QED  BY <2>3, <4>3, <4>4
      <3> QED  BY <1>3, <3>4, <3>5
    <2>7. /\ k \in {-1, 0, 1}
          /\ x = IF IsFlat(t) THEN X(m) ELSE X(m) + k
          /\ y = IF IsFlat(t) THEN Y(m) + k ELSE Y(m)
      <3>1. CASE IsFlat(t)
        <4>1. /\ x = t.x + Towards(t.x, t.x1) * i /\ X(m) = t.x + Towards(t.x, t.x1) * i
              /\ y = t.y + Towards(t.y, t.y1) * g[i] /\ Y(m) = t.y + Towards(t.y, t.y1) * j
          BY <2>2, <3>1 DEF TrackX, TrackY
        <4>2. k = y - Y(m)
          BY <3>1
        <4> HIDE DEF x, y, k
        <4>3. k \in {-1, 0, 1} /\ x = X(m) /\ y = Y(m) + k
          <5>1. ASSUME NEW u \in {-1, 1}, NEW v \in {-1, 0, 1}, NEW o \in Int,
                       NEW a \in Int, NEW b \in Int, a - b = v
                PROVE  (o + u * a) - (o + u * b) \in {-1, 0, 1}
            BY <5>1
          <5>2. (t.y + Towards(t.y, t.y1) * g[i]) - (t.y + Towards(t.y, t.y1) * j)
                  \in {-1, 0, 1}
            BY <1>3, <2>3, <2>6, <5>1
          <5>3. k \in {-1, 0, 1}
            BY <4>1, <4>2, <5>2
          <5> QED  BY <2>1, <2>5, <4>1, <4>2, <5>3
        <4> QED  BY <3>1, <4>3
      <3>2. CASE ~ IsFlat(t)
        <4>1. /\ x = t.x + Towards(t.x, t.x1) * g[i] /\ X(m) = t.x + Towards(t.x, t.x1) * j
              /\ y = t.y + Towards(t.y, t.y1) * i /\ Y(m) = t.y + Towards(t.y, t.y1) * i
          BY <2>2, <3>2 DEF TrackX, TrackY
        <4>2. k = x - X(m)
          BY <3>2
        <4> HIDE DEF x, y, k
        <4>3. k \in {-1, 0, 1} /\ y = Y(m) /\ x = X(m) + k
          <5>1. ASSUME NEW u \in {-1, 1}, NEW v \in {-1, 0, 1}, NEW o \in Int,
                       NEW a \in Int, NEW b \in Int, a - b = v
                PROVE  (o + u * a) - (o + u * b) \in {-1, 0, 1}
            BY <5>1
          <5>2. (t.x + Towards(t.x, t.x1) * g[i]) - (t.x + Towards(t.x, t.x1) * j)
                  \in {-1, 0, 1}
            BY <1>3, <2>3, <2>6, <5>1
          <5>3. k \in {-1, 0, 1}
            BY <4>1, <4>2, <5>2
          <5> QED  BY <2>1, <2>5, <4>1, <4>2, <5>3
        <4> QED  BY <3>2, <4>3
      <3> QED  BY <3>1, <3>2
    <2>8. x \in 0 .. Width - 1 /\ y \in 0 .. Height - 1
      <3>1. CASE k = 0
        <4>1. x = X(m) /\ y = Y(m)
          BY <2>1, <2>7, <3>1
        <4>2. X(m) \in 0 .. Width - 1 /\ Y(m) \in 0 .. Height - 1
          BY <2>1, PlaceFacts, ScreenFacts DEF OnScreen
        <4> QED  BY <4>1, <4>2
      <3>2. CASE k \in {-1, 1}
        <4> HIDE DEF x, y, k
        <4> QED  BY <1>10, <2>4, <2>7, <3>2 DEF OnlyCandidate
      <3> QED  BY <2>7, <3>1, <3>2
    <2>9. PICK N \in VideoMemory : X(N) = x /\ Y(N) = y
      <3>1. x \in 0 .. Pitch - 1
        <4> HIDE DEF x
        <4> QED  BY <2>8, ScreenFacts
      <3> QED  BY <2>8, <3>1, PlaceFacts
    <2>10. N \in Painted
      <3>1. N \in OnScreen
        <4> HIDE DEF x
        <4> QED  BY <2>8, <2>9, ScreenFacts DEF OnScreen
      <3> QED  BY <1>5, <2>9, <3>1
    <2>11. Step(t, N) = Step(t, m)
      BY <2>7, <2>9 DEF Step
    <2> QED  BY <2>10, <2>11
  <1> QED  BY <1>8, <1>9, <1>10 DEF IsLine, t

(* A line's part of the invariant, when it has just been asked for.        *)
LEMMA LineBegins ==
    ASSUME NEW t \in LineRequests, todo' = <<t>>, at' = <<>>, pixels' = Blank
    PROVE  LinePart(t)'
  <1> DEFINE g == [i \in 0 .. Long(t) |-> 0]
  <1>1. Long(t) \in Nat /\ Short(t) \in Nat
    BY LineFacts
  <1>2. g \in [0 .. Long(t) -> 0 .. Short(t)]
    BY <1>1
  <1>3. 0 .. 0 - 1 = {}
    OBVIOUS
  <1>4. LineDrawn(t, g, 0)'
    BY <1>3 DEF LineDrawn, Track, Blank
  <1>5. 0 \in 0 .. Long(t) + 1
    BY <1>1
  <1> HIDE DEF g
  <1> QED  BY <1>2, <1>4, <1>5 DEF LinePart

(* Every pixel keeps it.                                                   *)
LEMMA LineGoesOn ==
    ASSUME LinePart(asked), LineStep
    PROVE  LinePart(asked)'
  <1> DEFINE t == asked
             L == Long(t)
             S == Short(t)
  <1>1. /\ t \in LineRequests /\ asked' = t
    BY DEF LinePart, LineStep
  <1>2. PICK g \in [0 .. L -> 0 .. S], N \in 0 .. L + 1 :
          /\ LineDrawn(t, g, N)
          /\ todo = <<t>>
          /\ \/ at = <<>> /\ N = 0
             \/ N <= L /\ OnTrack(t, N, g[N]) /\ AtTrack(t, g, N)
    BY DEF LinePart, LineStep, Current
  <1>3. /\ L \in Nat /\ S \in Nat /\ S <= L /\ t.x \in Int /\ t.y \in Int
        /\ t.x1 \in Int /\ t.y1 \in Int
        /\ Towards(t.x, t.x1) \in {-1, 1} /\ Towards(t.y, t.y1) \in {-1, 1}
        /\ Abs(t.x1 - t.x) \in Nat /\ Abs(t.y1 - t.y) \in Nat
    <2>1. PICK a \in LineRequests : a = asked
      BY <1>1
    <2>2. /\ Long(a) \in Nat /\ Short(a) \in Nat /\ Short(a) <= Long(a)
          /\ a.x \in Int /\ a.y \in Int /\ a.x1 \in Int /\ a.y1 \in Int
          /\ Towards(a.x, a.x1) \in {-1, 1} /\ Towards(a.y, a.y1) \in {-1, 1}
          /\ Abs(a.x1 - a.x) \in Nat /\ Abs(a.y1 - a.y) \in Nat
      BY LineFacts
    <2> QED  BY <2>1, <2>2
  <1> DEFINE x == IF at = <<>> THEN t.x ELSE at[1]
             y == IF at = <<>> THEN t.y ELSE at[2]
             err == IF at = <<>> THEN Abs(t.x1 - t.x) - Abs(t.y1 - t.y) ELSE at[3]
  \* The loop has begun, or begins on track.
  <1>4. \E h \in [0 .. L -> 0 .. S] :
          /\ LineDrawn(t, h, N) /\ N \in 0 .. L /\ OnTrack(t, N, h[N])
          /\ x = TrackX(t, N, h[N]) /\ y = TrackY(t, N, h[N]) /\ err = TrackError(t, N, h[N])
    <2>1. CASE at = <<>> /\ N = 0
      <3> DEFINE h == [i \in 0 .. L |-> 0]
      <3>1. h \in [0 .. L -> 0 .. S] /\ h[0] = 0
        BY <1>3
      <3>2. 0 .. 0 - 1 = {}
        OBVIOUS
      <3>3. LineDrawn(t, h, 0)
        BY <1>2, <2>1, <3>2 DEF LineDrawn, Track
      <3>4. 0 * L = 0 /\ 0 * S = 0 /\ (0 + 1) * L = L /\ (0 + 1) * S = S
        BY <1>3
      <3>5. OnTrack(t, 0, 0)
        BY <1>3, <3>4 DEF OnTrack, Abs
      <3>6. TrackX(t, 0, 0) = t.x /\ TrackY(t, 0, 0) = t.y
        BY <1>3 DEF TrackX, TrackY
      <3>7. TrackError(t, 0, 0) = Abs(t.x1 - t.x) - Abs(t.y1 - t.y)
        BY <1>3, <3>4 DEF TrackError, Long, Short
      <3> HIDE DEF h, L, S
      <3>8. 0 \in 0 .. L
        BY <1>3
      <3>9. x = t.x /\ y = t.y /\ err = Abs(t.x1 - t.x) - Abs(t.y1 - t.y)
        BY <2>1
      <3> HIDE DEF x, y, err
      <3>10. /\ LineDrawn(t, h, N) /\ N \in 0 .. L /\ OnTrack(t, N, h[N])
             /\ x = TrackX(t, N, h[N]) /\ y = TrackY(t, N, h[N])
             /\ err = TrackError(t, N, h[N])
        BY <2>1, <3>1, <3>3, <3>5, <3>6, <3>7, <3>8, <3>9
      <3> QED  BY <3>1, <3>10
    <2>2. CASE N <= L /\ OnTrack(t, N, g[N]) /\ AtTrack(t, g, N)
      <3>1. at # <<>> /\ at[1] = TrackX(t, N, g[N]) /\ at[2] = TrackY(t, N, g[N])
            /\ at[3] = TrackError(t, N, g[N])
        BY <2>2 DEF AtTrack
      <3>2. N \in 0 .. L
        BY <1>3, <2>2
      <3> QED  BY <1>2, <2>2, <3>1, <3>2
    <2> QED  BY <1>2, <2>1, <2>2
  <1>5. PICK h \in [0 .. L -> 0 .. S] :
          /\ LineDrawn(t, h, N) /\ N \in 0 .. L /\ OnTrack(t, N, h[N])
          /\ x = TrackX(t, N, h[N]) /\ y = TrackY(t, N, h[N]) /\ err = TrackError(t, N, h[N])
    BY <1>4
  <1>6. /\ pixels' = fb_plot(pixels, U(x), U(y), t.color)
        /\ IF x = t.x1 /\ y = t.y1 THEN todo' = <<>> /\ at' = <<>>
           ELSE at' = Bresenham(t, x, y, err) /\ todo' = <<t>>
    <2>1. Head(todo) = t /\ Tail(todo) = <<>>
      BY <1>2
    <2> QED  BY <1>2, <2>1 DEF LineStep, CallDone
  <1> HIDE DEF t, L, S, x, y, err
  <1>7. \A i \in 0 .. N : OnTrack(t, i, h[i])
    BY <1>5 DEF LineDrawn
  <1>8. \A i \in 0 .. (N + 1) - 1 : OnTrack(t, i, h[i])
    BY <1>5, <1>7
  <1>9. pixels' = [m \in VideoMemory |->
                     IF m \in Track(t, h, N + 1) THEN t.color ELSE "untouched"]
    <2>1. pixels = [m \in VideoMemory |-> IF m \in Track(t, h, N) THEN t.color ELSE "untouched"]
      BY <1>5 DEF LineDrawn
    <2>2. pixels' = [m \in VideoMemory |-> fb_plot(pixels, U(x), U(y), t.color)[m]]
      BY <1>6 DEF fb_plot
    <2>3. ASSUME NEW m \in VideoMemory
          PROVE  fb_plot(pixels, U(x), U(y), t.color)[m]
                   = IF m \in Track(t, h, N + 1) THEN t.color ELSE "untouched"
      <3>1. h[N] \in Int
        BY <1>3, <1>5
      <3>2. fb_plot(pixels, U(x), U(y), t.color)[m]
              = IF m \in OnScreen /\ X(m) = x /\ Y(m) = y THEN t.color ELSE pixels[m]
        BY <1>1, <1>5, <3>1, PlotsTrack DEF t
      <3>3. m \in Track(t, h, N + 1)
              <=> m \in Track(t, h, N) \/ (m \in OnScreen /\ X(m) = x /\ Y(m) = y)
        <4>1. \A i : i \in 0 .. (N + 1) - 1 <=> i \in 0 .. N - 1 \/ i = N
          BY <1>5
        <4> QED  BY <1>5, <4>1 DEF Track
      <3> QED  BY <2>1, <3>2, <3>3
    <2> QED  BY <2>2, <2>3
  <1>10. CASE x = t.x1 /\ y = t.y1
    <2>1. N = L
      <3>1. CASE IsFlat(t)
        <4>1. t.x1 = t.x + Towards(t.x, t.x1) * N /\ L = Abs(t.x1 - t.x)
          BY <1>5, <1>10, <3>1 DEF TrackX, L, Long
        <4>2. t.x1 = t.x + Towards(t.x, t.x1) * L
          BY <1>1, <4>1, LineFacts DEF t
        <4> QED  BY <1>3, <1>5, <4>1, <4>2
      <3>2. CASE ~ IsFlat(t)
        <4>1. t.y1 = t.y + Towards(t.y, t.y1) * N /\ L = Abs(t.y1 - t.y)
          BY <1>5, <1>10, <3>2 DEF TrackY, L, Long
        <4>2. t.y1 = t.y + Towards(t.y, t.y1) * L
          BY <1>1, <4>1, LineFacts DEF t
        <4> QED  BY <1>3, <1>5, <4>1, <4>2
      <3> QED  BY <3>1, <3>2
    <2>2. /\ todo' = <<>> /\ at' = <<>>
      BY <1>6, <1>10
    <2>3. LineDrawn(t, h, N + 1)'
      BY <1>1, <1>8, <1>9 DEF LineDrawn, t
    <2>4. N + 1 \in 0 .. L + 1 /\ N + 1 = L + 1
      BY <1>3, <2>1
    <2> QED  BY <1>1, <1>5, <2>2, <2>3, <2>4 DEF LinePart, t, L, S
  <1>11. CASE ~ (x = t.x1 /\ y = t.y1)
    <2>1. N < L
      <3> SUFFICES ASSUME N = L PROVE FALSE
        BY <1>3, <1>5
      <3>1. h[N] = S
        <4>1. 2 * Abs(h[N] * L - L * S) <= L /\ h[N] \in 0 .. S
          BY <1>5 DEF OnTrack, L, S
        <4>2. S \in 0 .. L
          BY <1>3
        <4> QED  BY <1>3, <4>1, <4>2, TrackEnds
      <3>2. CASE IsFlat(t)
        <4>1. /\ x = t.x + Towards(t.x, t.x1) * Abs(t.x1 - t.x)
              /\ y = t.y + Towards(t.y, t.y1) * Abs(t.y1 - t.y)
          BY <1>5, <3>1, <3>2 DEF TrackX, TrackY, L, S, Long, Short
        <4> QED  BY <1>1, <1>11, <4>1, LineFacts DEF t
      <3>3. CASE ~ IsFlat(t)
        <4>1. /\ x = t.x + Towards(t.x, t.x1) * Abs(t.x1 - t.x)
              /\ y = t.y + Towards(t.y, t.y1) * Abs(t.y1 - t.y)
          BY <1>5, <3>1, <3>3 DEF TrackX, TrackY, L, S, Long, Short
        <4> QED  BY <1>1, <1>11, <4>1, LineFacts DEF t
      <3> QED  BY <3>2, <3>3
    <2>2. PICK k \in 0 .. S :
              /\ OnTrack(t, N + 1, k)
              /\ Bresenham(t, x, y, err)
                   = <<TrackX(t, N + 1, k), TrackY(t, N + 1, k), TrackError(t, N + 1, k)>>
      <3>1. N \in 0 .. L - 1 /\ h[N] \in 0 .. S
        BY <1>3, <1>5, <2>1
      <3> QED  BY <1>1, <1>5, <3>1, BresenhamOnTrack DEF t, L, S
    <2> DEFINE f == [h EXCEPT ![N + 1] = k]
    <2>3. f \in [0 .. L -> 0 .. S] /\ f[N + 1] = k /\ \A i \in 0 .. N : f[i] = h[i]
      <3>1. N + 1 \in 0 .. L /\ \A i \in 0 .. N : i \in 0 .. L /\ i # N + 1
        BY <1>3, <1>5, <2>1
      <3> QED  BY <1>5, <3>1
    <2> HIDE DEF f
    <2>4. Track(t, f, N + 1) = Track(t, h, N + 1)
      <3>1. \A i \in 0 .. (N + 1) - 1 : f[i] = h[i]
        BY <1>5, <2>3
      <3> QED  BY <3>1 DEF Track
    <2>5. LineDrawn(t, f, N + 1)'
      <3>1. \A i \in 0 .. (N + 1) - 1 : OnTrack(t, i, f[i])
        BY <1>5, <1>8, <2>3
      <3> QED  BY <1>1, <1>9, <2>4, <3>1 DEF LineDrawn, t
    <2>6. AtTrack(t, f, N + 1)' /\ todo' = <<t>>
      BY <1>1, <1>6, <1>11, <2>2, <2>3 DEF AtTrack, t
    <2>7. /\ N + 1 \in 0 .. L + 1 /\ N + 1 <= L
      BY <1>3, <1>5, <2>1
    <2>8. OnTrack(t, N + 1, f[N + 1])
      BY <2>2, <2>3
    <2> QED  BY <1>1, <2>3, <2>5, <2>6, <2>7, <2>8 DEF LinePart, t, L, S
  <1> QED  BY <1>10, <1>11

----------------------------------------------------------------------------
(* Strings.  Where the k-th character goes follows from where the one      *)
(* before it went, as the cursor does.                                     *)
InReach(t) ==
    t.x + 2 * FONT_WIDTH < Wrap /\ t.y + Row(t, Len(t.str) + 1) * FONT_HEIGHT < Wrap
Breaks(t, k, b) ==
    /\ b \in 0 .. k - 1 /\ b > 0 => Newline(t, b)
    /\ \A c \in b + 1 .. k - 1 : ~ Newline(t, c)
Precedes(t, i, k) ==
    Row(t, i) < Row(t, k) \/ (Row(t, i) = Row(t, k) /\ Col(t, i) < Col(t, k))
Placed(t, k) ==
    /\ Breaks(t, k, LastNewline(t, k)) /\ LastNewline(t, k) \in 0 .. k - 1
    /\ Row(t, k) \in 0 .. k - 1
    /\ \A i \in 1 .. k - 1 :
          Precedes(t, i, k) /\ Row(t, i) \in Nat /\ Col(t, i) \in 0 .. PerRow(t) - 1

LEMMA FontFacts ==
    /\ FONT_WIDTH \in Nat \ {0} /\ FONT_HEIGHT \in Nat \ {0} /\ FONT_WIDTH <= Width
  <1>1. FONT_WIDTH \in 1 .. Width /\ FONT_HEIGHT \in Nat \ {0}
    BY Zenon, WindowsAssumption
  <1> QED  BY <1>1, ScreenFacts

(* Where a character goes that the margin does not stop, or stops.         *)
LEMMA MarginFacts ==
    ASSUME NEW t, t.x \in Nat, InReach(t)
    PROVE  /\ PerRow(t) \in Nat \ {0}
           /\ \A c \in 0 .. PerRow(t) - 1 :
                 /\ t.x + c * FONT_WIDTH \in Nat
                 /\ U(t.x + c * FONT_WIDTH + FONT_WIDTH) = t.x + c * FONT_WIDTH + FONT_WIDTH
                 /\ U(U(t.x + c * FONT_WIDTH + FONT_WIDTH) + FONT_WIDTH)
                      = t.x + c * FONT_WIDTH + FONT_WIDTH + FONT_WIDTH
                 /\ t.x + c * FONT_WIDTH + FONT_WIDTH + FONT_WIDTH > Width
                      <=> c = PerRow(t) - 1
  <1> DEFINE F == FONT_WIDTH
             P == PerRow(t)
             w == Width - t.x
  <1>1. F \in Nat \ {0} /\ Width \in Nat /\ Wrap \in Nat /\ 4 * Width <= Wrap /\ Wrap > 0
    BY FontFacts, ScreenFacts
  <1>2. CASE t.x + 2 * F > Width
    <2>1. P = 1
      BY <1>2 DEF PerRow
    <2>2. \A c \in 0 .. P - 1 : c = 0
      BY <2>1
    <2>3. 0 * F = 0 /\ t.x + F < Wrap /\ t.x + F + F < Wrap
      BY <1>1 DEF InReach
    <2>4. U(t.x + F) = t.x + F /\ U(t.x + F + F) = t.x + F + F
      BY <1>1, <2>3 DEF U
    <2>5. ASSUME NEW c \in 0 .. P - 1
          PROVE  /\ t.x + c * F \in Nat
                 /\ U(t.x + c * F + F) = t.x + c * F + F
                 /\ U(U(t.x + c * F + F) + F) = t.x + c * F + F + F
                 /\ t.x + c * F + F + F > Width <=> c = P - 1
      <3>1. c = 0 /\ t.x + c * F = t.x /\ t.x + F + F = t.x + 2 * F
        BY <1>1, <2>2, <2>3
      <3> QED  BY <1>2, <2>1, <2>4, <3>1
    <2>6. P \in Nat \ {0}
      BY <2>1
    <2> QED  BY <2>5, <2>6
  <1>3. CASE ~ (t.x + 2 * F > Width)
    <2>1. w \in Nat /\ w >= 2 * F
      BY <1>1, <1>3
    <2>2. P = w \div F
      BY <1>3 DEF PerRow
    <2>3. ASSUME NEW a \in Nat, NEW f \in Nat \ {0}
          PROVE  a \div f \in Nat /\ (a \div f) * f <= a /\ a < ((a \div f) + 1) * f
      BY <2>3
    <2> HIDE DEF w, P
    <2>4. P \in Nat /\ P * F <= w /\ w < (P + 1) * F
      BY <1>1, <2>1, <2>2, <2>3
    <2>5. P # 0
      BY <1>1, <2>1, <2>4
    <2>6. ASSUME NEW c \in 0 .. P - 1
          PROVE  /\ c * F \in Nat /\ c * F + F <= w
                 /\ c * F + F + F > w <=> c = P - 1
      <3>1. c * F \in Nat /\ (c + 1) * F = c * F + F /\ (c + 2) * F = c * F + F + F
        BY <1>1
      <3>2. \A a, b \in Nat : a <= b => a * F <= b * F
        BY <1>1
      <3>3. (c + 1) * F <= P * F
        BY <2>4, <3>2
      <3>4. CASE c = P - 1
        <4>1. c + 2 = P + 1
          BY <2>4, <3>4
        <4>2. c * F + F + F = (P + 1) * F
          BY <3>1, <4>1
        <4> QED  BY <1>1, <2>1, <2>4, <3>1, <3>3, <3>4, <4>2
      <3>5. CASE c # P - 1
        <4>1. c + 2 <= P /\ c + 2 \in Nat
          BY <2>4, <3>5
        <4>2. (c + 2) * F <= P * F
          BY <2>4, <3>2, <4>1
        <4>3. P * F \in Nat
          BY <1>1, <2>4
        <4> QED  BY <1>1, <2>1, <2>4, <3>1, <3>3, <3>5, <4>2, <4>3
      <3> QED  BY <3>4, <3>5
    <2>7. ASSUME NEW c \in 0 .. P - 1
          PROVE  /\ t.x + c * F \in Nat
                 /\ U(t.x + c * F + F) = t.x + c * F + F
                 /\ U(U(t.x + c * F + F) + F) = t.x + c * F + F + F
                 /\ t.x + c * F + F + F > Width <=> c = P - 1
      <3> DEFINE a == c * F
      <3>1. a \in Nat /\ a + F <= Width - t.x /\ (a + F + F > Width - t.x <=> c = P - 1)
        BY <2>6 DEF w
      <3> HIDE DEF a
      <3>2. /\ t.x + a + F < Wrap /\ t.x + a + F + F < Wrap
            /\ t.x + a + F \in Nat /\ t.x + a + F + F \in Nat
        BY <1>1, <1>3, <3>1
      <3>3. U(t.x + a + F) = t.x + a + F /\ U(t.x + a + F + F) = t.x + a + F + F
        BY <1>1, <3>2 DEF U
      <3>4. t.x + a + F + F > Width <=> c = P - 1
        BY <1>1, <3>1
      <3> QED  BY <3>1, <3>2, <3>3, <3>4 DEF a
    <2> QED  BY <2>4, <2>5, <2>7 DEF P
  <1> QED  BY <1>2, <1>3

LEMMA BreaksAlone ==
    ASSUME NEW t, NEW k \in Nat \ {0}, NEW b \in 0 .. k - 1, Breaks(t, k, b)
    PROVE  LastNewline(t, k) = b
  <1>1. \A c \in 0 .. k - 1 : Breaks(t, k, c) => c = b
    BY DEF Breaks
  <1>2. LastNewline(t, k) = CHOOSE c \in 0 .. k - 1 : Breaks(t, k, c)
    BY DEF LastNewline, Breaks
  <1> QED  BY <1>1, <1>2

(* A character begins a row below at most one more than the one before it. *)
LEMMA RowGrows ==
    ASSUME NEW t, NEW k \in Nat \ {0}
    PROVE  /\ Row(t, 1) = 0
           /\ Row(t, k) \in Nat
           /\ Row(t, k + 1) = IF Opens(t, k) THEN Row(t, k) + 1 ELSE Row(t, k)
  <1> DEFINE S == {b \in 1 .. k - 1 : Opens(t, b)}
             T == {b \in 1 .. (k + 1) - 1 : Opens(t, b)}
  <1>1. IsFiniteSet(S)
    <2>1. IsFiniteSet(1 .. k - 1)
      BY FS_Interval
    <2> QED  BY <2>1, FS_Subset
  <1>2. T = IF Opens(t, k) THEN S \cup {k} ELSE S
    OBVIOUS
  <1>3. k \notin S
    OBVIOUS
  <1>4. Row(t, k) = Cardinality(S) /\ Row(t, k + 1) = Cardinality(T)
    BY DEF Row
  <1>5. Row(t, 1) = 0
    <2>1. 1 .. 1 - 1 = {}
      OBVIOUS
    <2>2. {b \in 1 .. 1 - 1 : Opens(t, b)} = {}
      BY <2>1
    <2> QED  BY <2>2, FS_EmptySet DEF Row
  <1> HIDE DEF S, T
  <1> QED  BY <1>1, <1>2, <1>3, <1>4, <1>5, FS_CardinalityType, FS_AddElement

LEMMA RowsRise ==
    ASSUME NEW t, NEW k \in Nat, NEW N \in Nat, k <= N
    PROVE  Row(t, k) <= Row(t, N) /\ Row(t, N) <= N
  <1> DEFINE S == {b \in 1 .. k - 1 : Opens(t, b)}
             T == {b \in 1 .. N - 1 : Opens(t, b)}
  <1>1. S \subseteq T /\ T \subseteq 1 .. N - 1
    OBVIOUS
  <1>2. IsFiniteSet(1 .. N - 1) /\ Cardinality(1 .. N - 1) <= N
    BY FS_Interval
  <1>3. Row(t, k) = Cardinality(S) /\ Row(t, N) = Cardinality(T)
    BY DEF Row
  <1> HIDE DEF S, T
  <1>4. /\ IsFiniteSet(T) /\ Cardinality(T) <= Cardinality(1 .. N - 1)
        /\ Cardinality(S) <= Cardinality(T)
    BY <1>1, <1>2, FS_Subset
  <1>5. Cardinality(T) \in Nat /\ Cardinality(1 .. N - 1) \in Nat
    BY <1>2, <1>4, FS_CardinalityType
  <1> QED  BY <1>2, <1>3, <1>4, <1>5

LEMMA PlacedFirst ==
    ASSUME NEW t, t.x \in Nat, InReach(t)
    PROVE  Placed(t, 1) /\ Col(t, 1) = 0 /\ Row(t, 1) = 0
  <1>1. /\ 0 .. 1 - 1 = {0} /\ 1 .. 1 - 1 = {} /\ 0 + 1 .. 1 - 1 = {}
    OBVIOUS
  <1>2. Breaks(t, 1, 0)
    BY <1>1 DEF Breaks
  <1>3. LastNewline(t, 1) = 0
    BY <1>1, <1>2, BreaksAlone
  <1>4. Row(t, 1) = 0
    BY RowGrows
  <1>5. Col(t, 1) = 0
    <2>1. PerRow(t) \in Nat \ {0}
      BY MarginFacts
    <2>2. 1 - 0 - 1 = 0
      OBVIOUS
    <2> QED  BY <1>3, <2>1, <2>2 DEF Col
  <1> QED  BY <1>1, <1>2, <1>3, <1>4, <1>5 DEF Placed

(* The places of the characters before the next one, all different from    *)
(* its own.                                                                *)
LEMMA PlacedNext ==
    ASSUME NEW t, t.x \in Nat, InReach(t), NEW k \in Nat \ {0}, Placed(t, k)
    PROVE  /\ Placed(t, k + 1)
           /\ Col(t, k) \in 0 .. PerRow(t) - 1
           /\ Col(t, k + 1) = IF Opens(t, k) THEN 0 ELSE Col(t, k) + 1
           /\ Row(t, k + 1) = IF Opens(t, k) THEN Row(t, k) + 1 ELSE Row(t, k)
  <1> DEFINE P == PerRow(t)
             b == LastNewline(t, k)
             c == LastNewline(t, k + 1)
  <1>1. P \in Nat \ {0}
    BY MarginFacts
  <1>2. b \in 0 .. k - 1 /\ Breaks(t, k, b)
    BY DEF Placed
  <1>3. /\ c = IF Newline(t, k) THEN k ELSE b
        /\ Breaks(t, k + 1, c) /\ c \in 0 .. (k + 1) - 1
    <2>1. CASE Newline(t, k)
      <3>1. Breaks(t, k + 1, k) /\ k \in 0 .. (k + 1) - 1
        BY <2>1 DEF Breaks
      <3>2. c = k
        BY <3>1, BreaksAlone
      <3> QED  BY <2>1, <3>1, <3>2
    <2>2. CASE ~ Newline(t, k)
      <3>1. b \in 0 .. (k + 1) - 1
        BY <1>2
      <3>2. Breaks(t, k + 1, b)
        <4>1. \A v \in b + 1 .. (k + 1) - 1 : v \in b + 1 .. k - 1 \/ v = k
          BY <1>2
        <4> HIDE DEF b
        <4> QED  BY <1>2, <2>2, <3>1, <4>1 DEF Breaks
      <3>3. c = b
        <4> HIDE DEF b
        <4> QED  BY <3>1, <3>2, BreaksAlone
      <3> QED  BY <2>2, <3>1, <3>2, <3>3
    <2> QED  BY <2>1, <2>2
  <1>4. /\ Col(t, k) = (k - b - 1) % P
        /\ Col(t, k + 1) = ((k + 1) - c - 1) % P
    BY DEF Col
  <1> HIDE DEF P, b, c
  <1>5. ASSUME NEW a \in Nat, NEW pt \in Nat \ {0}
        PROVE  /\ a % pt \in 0 .. pt - 1
               /\ (a + 1) % pt = IF a % pt = pt - 1 THEN 0 ELSE (a % pt) + 1
    <2> DEFINE q == a \div pt
               r == a % pt
    <2>1. q \in Nat /\ r \in 0 .. pt - 1 /\ a = q * pt + r
      BY <1>5
    <2> HIDE DEF q, r
    <2>2. ASSUME NEW z \in Nat, NEW u \in 0 .. pt - 1  PROVE (z * pt + u) % pt = u
      BY <1>5, <2>2
    <2>3. r = pt - 1 => (a + 1) % pt = 0
      <3> HAVE r = pt - 1
      <3>1. a + 1 = (q + 1) * pt + 0 /\ q + 1 \in Nat /\ 0 \in 0 .. pt - 1
        BY <1>5, <2>1
      <3>2. ((q + 1) * pt + 0) % pt = 0
        BY <2>2, <3>1
      <3> QED  BY <3>1, <3>2
    <2>4. r # pt - 1 => (a + 1) % pt = r + 1
      <3> HAVE r # pt - 1
      <3>1. a + 1 = q * pt + (r + 1) /\ r + 1 \in 0 .. pt - 1
        BY <1>5, <2>1
      <3>2. (q * pt + (r + 1)) % pt = r + 1
        BY <2>1, <2>2, <3>1
      <3> QED  BY <3>1, <3>2
    <2>5. r \in 0 .. pt - 1
      BY <2>1
    <2> QED  BY <2>3, <2>4, <2>5 DEF r
  <1>6. /\ Col(t, k) \in 0 .. P - 1
        /\ Col(t, k + 1) = IF Opens(t, k) THEN 0 ELSE Col(t, k) + 1
    <2>1. k - b - 1 \in Nat
      BY <1>2
    <2>2. CASE Newline(t, k)
      <3>1. (k + 1) - c - 1 = 0
        BY <1>3, <2>2
      <3>2. 0 % P = 0
        BY <1>1
      <3> QED  BY <1>1, <1>4, <1>5, <2>1, <2>2, <3>1, <3>2 DEF Opens
    <2>3. CASE ~ Newline(t, k)
      <3>1. (k + 1) - c - 1 = (k - b - 1) + 1
        BY <1>2, <1>3, <2>3
      <3> QED  BY <1>1, <1>4, <1>5, <2>1, <2>3, <3>1 DEF Opens, P
    <2> QED  BY <2>2, <2>3
  <1>7. /\ Row(t, k) \in Nat
        /\ Row(t, k + 1) = IF Opens(t, k) THEN Row(t, k) + 1 ELSE Row(t, k)
    BY RowGrows
  <1>8. ASSUME NEW i \in 1 .. (k + 1) - 1
        PROVE  /\ Precedes(t, i, k + 1) /\ Row(t, i) \in Nat
               /\ Col(t, i) \in 0 .. PerRow(t) - 1
    <2>1. CASE i = k
      BY <1>6, <1>7, <2>1 DEF Precedes, P
    <2>2. CASE i \in 1 .. k - 1
      <3>1. /\ Precedes(t, i, k) /\ Row(t, i) \in Nat
            /\ Col(t, i) \in 0 .. PerRow(t) - 1
        BY <2>2 DEF Placed
      <3> QED  BY <1>1, <1>6, <1>7, <3>1 DEF Precedes, P
    <2> QED  BY <2>1, <2>2
  <1>9. Row(t, k + 1) \in 0 .. (k + 1) - 1
    BY <1>7 DEF Placed
  <1> QED  BY <1>3, <1>6, <1>7, <1>8, <1>9 DEF Placed, P, c

(* No two characters share a pixel.                                        *)
LEMMA CellsApart ==
    ASSUME NEW t, t.x \in Nat, t.y \in Nat, InReach(t), NEW k \in Nat \ {0}, Placed(t, k),
           NEW i \in 1 .. k - 1, NEW m \in VideoMemory, Cell(t, i, m)
    PROVE  ~ Cell(t, k, m)
  <1>1. /\ Precedes(t, i, k) /\ Row(t, i) \in Nat /\ Row(t, k) \in Nat
        /\ Col(t, i) \in Nat /\ Col(t, k) \in Nat
    <2>1. PerRow(t) \in Nat
      BY MarginFacts
    <2> QED  BY <2>1, PlacedNext DEF Placed
  <1>2. X(m) \in Int /\ Y(m) \in Int
    BY PlaceFacts, ScreenFacts
  <1>3. ASSUME NEW a \in Nat, NEW b \in Nat, NEW f \in Nat \ {0}, a < b
        PROVE  a * f \in Nat /\ b * f \in Nat /\ a * f + f <= b * f
    <2>1. (b - a - 1) * f \in Nat
      <3>1. b - a - 1 \in Nat
        BY <1>3
      <3> QED  BY <3>1
    <2>2. b * f = (b - a - 1) * f + a * f + f
      OBVIOUS
    <2> QED  BY <2>1, <2>2
  <1>4. CASE Row(t, i) < Row(t, k)
    <2>1. /\ Row(t, i) * FONT_HEIGHT \in Nat /\ Row(t, k) * FONT_HEIGHT \in Nat
          /\ Row(t, i) * FONT_HEIGHT + FONT_HEIGHT <= Row(t, k) * FONT_HEIGHT
      BY <1>1, <1>3, <1>4, FontFacts
    <2> DEFINE pt == Row(t, i) * FONT_HEIGHT
               q == Row(t, k) * FONT_HEIGHT
    <2>2. Y(m) - (t.y + pt) \in 0 .. FONT_HEIGHT - 1
      BY DEF Cell, Inside
    <2>3. Cell(t, k, m) => Y(m) - (t.y + q) \in 0 .. FONT_HEIGHT - 1
      BY DEF Cell, Inside
    <2> HIDE DEF pt, q
    <2>4. pt \in Nat /\ q \in Nat /\ pt + FONT_HEIGHT <= q
      BY <2>1 DEF pt, q
    <2> QED  BY <1>2, <2>2, <2>3, <2>4, FontFacts
  <1>5. CASE Col(t, i) < Col(t, k)
    <2>1. /\ Col(t, i) * FONT_WIDTH \in Nat /\ Col(t, k) * FONT_WIDTH \in Nat
          /\ Col(t, i) * FONT_WIDTH + FONT_WIDTH <= Col(t, k) * FONT_WIDTH
      BY <1>1, <1>3, <1>5, FontFacts
    <2> DEFINE pt == Col(t, i) * FONT_WIDTH
               q == Col(t, k) * FONT_WIDTH
    <2>2. X(m) - (t.x + pt) \in 0 .. FONT_WIDTH - 1
      BY DEF Cell, Inside
    <2>3. Cell(t, k, m) => X(m) - (t.x + q) \in 0 .. FONT_WIDTH - 1
      BY DEF Cell, Inside
    <2> HIDE DEF pt, q
    <2>4. pt \in Nat /\ q \in Nat /\ pt + FONT_WIDTH <= q
      BY <2>1 DEF pt, q
    <2> QED  BY <1>2, <2>2, <2>3, <2>4, FontFacts
  <1> QED  BY <1>1, <1>4, <1>5 DEF Precedes

(* The picture behind the first N - 1 characters of a string.              *)
Strings(t, base, N) ==
    [m \in VideoMemory |->
        LET over == {i \in 1 .. N - 1 : Cell(t, i, m)}
        IN  IF m \notin OnScreen \/ over = {} THEN base[m]
            ELSE IF \E i \in over : Inked(t, i, m) THEN t.fg ELSE t.bg]

(* fb_draw_string is at the N-th character, on what base was before it.    *)
StringDrawn(t, base, N) ==
    /\ Placed(t, N) /\ pixels = Strings(t, base, N)
    /\ \/ at = <<>> /\ N = 1
       \/ at = <<N, t.x + Col(t, N) * FONT_WIDTH, t.y + Row(t, N) * FONT_HEIGHT>>
StringCall(t) ==
    /\ t.x \in Nat /\ t.y \in Nat /\ t.str \in Seq(STRING) /\ InReach(t)

LEMMA StringBegins ==
    ASSUME NEW t, StringCall(t), NEW base, base = [m \in VideoMemory |-> base[m]],
           pixels' = base, at' = <<>>
    PROVE  StringDrawn(t, base, 1)'
  <1>1. Placed(t, 1)
    BY PlacedFirst DEF StringCall
  <1>2. \A m \in VideoMemory : {i \in 1 .. 1 - 1 : Cell(t, i, m)} = {}
    OBVIOUS
  <1>3. Strings(t, base, 1) = base
    BY <1>2 DEF Strings
  <1> QED  BY <1>1, <1>3 DEF StringDrawn

(* fb_draw_string's loop: each round draws a character or ends a row.      *)
LEMMA StringGoesOn ==
    ASSUME NEW t, StringCall(t), NEW base, NEW N \in 1 .. Len(t.str) + 1,
           StringDrawn(t, base, N), todo # <<>>, Head(todo) = t, StringStep
    PROVE  \/ N <= Len(t.str) /\ StringDrawn(t, base, N + 1)' /\ todo' = todo
           \/ N = Len(t.str) + 1 /\ CallDone /\ UNCHANGED pixels
  <1> DEFINE k == IF at = <<>> THEN 1 ELSE at[1]
             cx == IF at = <<>> THEN t.x ELSE at[2]
             cy == IF at = <<>> THEN t.y ELSE at[3]
             next == U(cx + FONT_WIDTH)
             last == Len(t.str)
  <1>1. /\ last \in Nat /\ N \in Nat \ {0} /\ t.x \in Nat /\ t.y \in Nat /\ InReach(t)
    BY DEF StringCall
  <1>2. /\ PerRow(t) \in Nat \ {0} /\ Col(t, N) \in 0 .. PerRow(t) - 1
        /\ Row(t, N) \in 0 .. N - 1 /\ Placed(t, N)
        /\ Placed(t, N + 1)
        /\ Col(t, N + 1) = IF Opens(t, N) THEN 0 ELSE Col(t, N) + 1
        /\ Row(t, N + 1) = IF Opens(t, N) THEN Row(t, N) + 1 ELSE Row(t, N)
    <2>1. Placed(t, N)
      BY DEF StringDrawn
    <2> QED  BY <1>1, <2>1, PlacedNext, MarginFacts DEF Placed
  <1>3. /\ k = N /\ cx = t.x + Col(t, N) * FONT_WIDTH
        /\ cy = t.y + Row(t, N) * FONT_HEIGHT
    <2>1. CASE at = <<>> /\ N = 1
      <3>1. Col(t, 1) = 0 /\ Row(t, 1) = 0 /\ 0 * FONT_WIDTH = 0 /\ 0 * FONT_HEIGHT = 0
        BY <1>1, PlacedFirst, FontFacts
      <3> QED  BY <1>1, <2>1, <3>1
    <2>2. CASE at = <<N, t.x + Col(t, N) * FONT_WIDTH, t.y + Row(t, N) * FONT_HEIGHT>>
      BY <2>2
    <2> QED  BY <2>1, <2>2 DEF StringDrawn
  <1>4. IF k > last THEN CallDone /\ UNCHANGED pixels
        ELSE /\ UNCHANGED todo
             /\ IF t.str[k] = "NL"
                THEN at' = <<k + 1, t.x, U(cy + FONT_HEIGHT)>> /\ UNCHANGED pixels
                ELSE /\ pixels' = fb_draw_char(pixels, cx, cy, t.str[k], t.fg, t.bg)
                     /\ at' = IF U(next + FONT_WIDTH) > Width
                              THEN <<k + 1, t.x, U(cy + FONT_HEIGHT)>>
                              ELSE <<k + 1, next, cy>>
    BY DEF StringStep
  <1> HIDE DEF k, cx, cy, next, last
  <1>5. CASE N > last
    BY <1>1, <1>3, <1>4, <1>5 DEF last
  <1>6. CASE N <= last
    <2>1. ~ (k > last)
      BY <1>1, <1>3, <1>6
    <2>2. /\ Col(t, N) * FONT_WIDTH \in Nat /\ cx \in Nat
          /\ next = cx + FONT_WIDTH /\ (Col(t, N) + 1) * FONT_WIDTH = Col(t, N) * FONT_WIDTH + FONT_WIDTH
          /\ U(next + FONT_WIDTH) > Width <=> Col(t, N) = PerRow(t) - 1
      <3>1. Col(t, N) \in Nat /\ Col(t, N) * FONT_WIDTH \in Nat
        BY <1>2, FontFacts
      <3>2. (Col(t, N) + 1) * FONT_WIDTH = Col(t, N) * FONT_WIDTH + FONT_WIDTH
        BY <3>1, FontFacts
      <3>3. /\ U(cx + FONT_WIDTH) = cx + FONT_WIDTH
            /\ U(U(cx + FONT_WIDTH) + FONT_WIDTH) = cx + FONT_WIDTH + FONT_WIDTH
            /\ cx + FONT_WIDTH + FONT_WIDTH > Width <=> Col(t, N) = PerRow(t) - 1
        BY <1>1, <1>2, <1>3, MarginFacts
      <3> QED  BY <1>1, <1>3, <3>1, <3>2, <3>3 DEF next
    <2>3. /\ Row(t, N) \in Nat /\ Row(t, N) * FONT_HEIGHT \in Nat
          /\ (Row(t, N) + 1) * FONT_HEIGHT = Row(t, N) * FONT_HEIGHT + FONT_HEIGHT
      <3>1. ASSUME NEW a \in Nat, NEW f \in Nat
            PROVE  a * f \in Nat /\ (a + 1) * f = a * f + f
        BY <3>1
      <3>2. Row(t, N) \in Nat
        BY <1>2
      <3> QED  BY <3>1, <3>2, FontFacts
    <2>4. at' = <<N + 1, t.x + Col(t, N + 1) * FONT_WIDTH, t.y + Row(t, N + 1) * FONT_HEIGHT>>
      <3>1. CASE Opens(t, N)
        <4>1. at' = <<k + 1, t.x, U(cy + FONT_HEIGHT)>>
          BY <1>3, <1>4, <2>1, <2>2, <3>1 DEF Opens, Newline
        <4>2. t.x + Col(t, N + 1) * FONT_WIDTH = t.x
          <5>1. Col(t, N + 1) = 0 /\ 0 * FONT_WIDTH = 0
            BY <1>2, <3>1, FontFacts
          <5> QED  BY <1>1, <5>1
        <4>3. t.y + Row(t, N + 1) * FONT_HEIGHT = U(cy + FONT_HEIGHT)
          <5>1. Row(t, N + 1) = Row(t, N) + 1
            BY <1>2, <3>1
          <5> DEFINE a == Row(t, N) * FONT_HEIGHT
          <5>2. Row(t, N + 1) * FONT_HEIGHT = a + FONT_HEIGHT
            BY <2>3, <5>1
          <5>3. a \in Nat /\ cy = t.y + a
            BY <1>3, <2>3
          <5> DEFINE b == Row(t, last + 1) * FONT_HEIGHT
          <5>4. b \in Nat /\ t.y + b < Wrap
            <6>1. Row(t, last + 1) \in Nat
              BY <1>1, RowGrows
            <6> QED  BY <1>1, <6>1, FontFacts DEF InReach, last
          <5>5. a + FONT_HEIGHT <= b
            <6>1. Row(t, N + 1) <= Row(t, last + 1)
              BY <1>1, <1>6, RowsRise
            <6>2. ASSUME NEW c \in Nat, NEW v \in Nat, NEW f \in Nat \ {0}, c <= v
                  PROVE  c * f <= v * f
              BY <6>2
            <6>3. Row(t, N + 1) \in Nat /\ Row(t, last + 1) \in Nat
              BY <1>1, RowGrows
            <6>4. Row(t, N + 1) * FONT_HEIGHT <= b
              BY <6>1, <6>2, <6>3, FontFacts
            <6> HIDE DEF a, b
            <6> QED  BY <5>2, <6>4
          <5> HIDE DEF a, b
          <5>6. cy + FONT_HEIGHT \in Nat /\ cy + FONT_HEIGHT < Wrap
            BY <1>1, <5>3, <5>4, <5>5, FontFacts, ScreenFacts
          <5>7. U(cy + FONT_HEIGHT) = cy + FONT_HEIGHT
            BY <5>6, ScreenFacts DEF U
          <5> QED  BY <1>1, <5>2, <5>3, <5>7, FontFacts
        <4> QED  BY <1>3, <4>1, <4>2, <4>3
      <3>2. CASE ~ Opens(t, N)
        <4>1. at' = <<k + 1, next, cy>>
          BY <1>3, <1>4, <2>1, <2>2, <3>2 DEF Opens, Newline
        <4>2. t.x + Col(t, N + 1) * FONT_WIDTH = next
          <5>1. Col(t, N + 1) = Col(t, N) + 1
            BY <1>2, <3>2
          <5> DEFINE a == Col(t, N) * FONT_WIDTH
          <5>2. Col(t, N + 1) * FONT_WIDTH = a + FONT_WIDTH
            BY <2>2, <5>1
          <5>3. a \in Nat /\ cx = t.x + a
            BY <1>3, <2>2
          <5> HIDE DEF a
          <5> QED  BY <1>1, <2>2, <5>2, <5>3, FontFacts
        <4> QED  BY <1>2, <1>3, <3>2, <4>1, <4>2
      <3> QED  BY <3>1, <3>2
    <2>5. pixels' = Strings(t, base, N + 1)
      <3>1. \A i : i \in 1 .. (N + 1) - 1 <=> i \in 1 .. N - 1 \/ i = N
        BY <1>1
      <3>2. pixels = Strings(t, base, N)
        BY DEF StringDrawn
      <3>3. CASE Newline(t, N)
        <4>1. pixels' = pixels
          BY <1>3, <1>4, <2>1, <3>3 DEF Newline
        <4>2. \A m \in VideoMemory : {i \in 1 .. (N + 1) - 1 : Cell(t, i, m)}
                                      = {i \in 1 .. N - 1 : Cell(t, i, m)}
          BY <3>1, <3>3 DEF Cell
        <4> QED  BY <3>2, <4>1, <4>2 DEF Strings
      <3>4. CASE ~ Newline(t, N)
        <4>1. pixels' = fb_draw_char(pixels, cx, cy, t.str[N], t.fg, t.bg)
          BY <1>3, <1>4, <2>1, <3>4 DEF Newline
        <4>2. ASSUME NEW m \in VideoMemory
              PROVE  fb_draw_char(pixels, cx, cy, t.str[N], t.fg, t.bg)[m]
                       = Strings(t, base, N + 1)[m]
          <5> DEFINE old == {i \in 1 .. N - 1 : Cell(t, i, m)}
                     new == {i \in 1 .. (N + 1) - 1 : Cell(t, i, m)}
          <5>1. fb_draw_char(pixels, cx, cy, t.str[N], t.fg, t.bg)[m]
                  = IF m \in OnScreen /\ Cell(t, N, m)
                    THEN IF Inked(t, N, m) THEN t.fg ELSE t.bg
                    ELSE pixels[m]
            BY <1>3, <3>4 DEF fb_draw_char, OnScreen, Cell, Inside, Inked
          <5>2. pixels[m] = IF m \notin OnScreen \/ old = {} THEN base[m]
                            ELSE IF \E i \in old : Inked(t, i, m) THEN t.fg ELSE t.bg
            BY <3>2 DEF Strings
          <5>3. Strings(t, base, N + 1)[m]
                  = IF m \notin OnScreen \/ new = {} THEN base[m]
                    ELSE IF \E i \in new : Inked(t, i, m) THEN t.fg ELSE t.bg
            BY DEF Strings
          <5>4. CASE Cell(t, N, m)
            <6>1. old = {}
              BY <1>1, <1>2, <5>4, CellsApart
            <6>2. new = {N}
              BY <3>1, <5>4, <6>1
            <6> HIDE DEF old, new
            <6> QED  BY <5>1, <5>2, <5>3, <5>4, <6>1, <6>2
          <5>5. CASE ~ Cell(t, N, m)
            <6>1. new = old
              BY <3>1, <5>5
            <6> HIDE DEF old, new
            <6> QED  BY <5>1, <5>2, <5>3, <5>5, <6>1
          <5> QED  BY <5>4, <5>5
        <4>3. /\ pixels' = [m \in VideoMemory |->
                               fb_draw_char(pixels, cx, cy, t.str[N], t.fg, t.bg)[m]]
              /\ Strings(t, base, N + 1)
                    = [m \in VideoMemory |-> Strings(t, base, N + 1)[m]]
          BY <4>1 DEF fb_draw_char, Strings
        <4> QED  BY <4>2, <4>3
      <3> QED  BY <3>3, <3>4
    <2>6. todo' = todo
      BY <1>4, <2>1
    <2> QED  BY <1>2, <1>6, <2>4, <2>5, <2>6 DEF StringDrawn, last
  <1> QED  BY <1>1, <1>5, <1>6 DEF last

(* A string that was asked for, drawn on an empty screen.                  *)
StringPart(t) ==
    InReach(t) =>
        \E N \in 1 .. Len(t.str) + 1 :
            \/ todo = <<t>> /\ StringDrawn(t, Blank, N)
            \/ /\ todo = <<>> /\ N = Len(t.str) + 1
               /\ pixels = Strings(t, Blank, N)

LEMMA StringPartBegins ==
    ASSUME NEW t \in StringRequests, todo' = <<t>>, at' = <<>>, pixels' = Blank
    PROVE  StringPart(t)'
  <1> SUFFICES ASSUME InReach(t) PROVE StringPart(t)'
    BY DEF StringPart
  <1>1. StringCall(t)
    BY ScreenFacts DEF StringRequests, Coordinates, StringCall
  <1>2. Blank = [m \in VideoMemory |-> Blank[m]]
    BY DEF Blank
  <1>3. StringDrawn(t, Blank, 1)'
    BY <1>1, <1>2, StringBegins
  <1>4. 1 \in 1 .. Len(t.str) + 1
    BY DEF StringRequests
  <1> QED  BY <1>3, <1>4 DEF StringPart

LEMMA StringPartGoesOn ==
    ASSUME asked \in StringRequests, StringPart(asked), StringStep
    PROVE  StringPart(asked)'
  <1>1. PICK t : t = asked
    OBVIOUS
  <1> DEFINE last == Len(t.str)
  <1>2. asked' = t
    BY <1>1 DEF StringStep
  <1> SUFFICES ASSUME InReach(t) PROVE StringPart(t)'
    BY <1>2 DEF StringPart
  <1>3. StringCall(t) /\ last \in Nat
    BY <1>1, ScreenFacts DEF StringRequests, Coordinates, StringCall
  <1>4. PICK N \in 1 .. last + 1 : todo = <<t>> /\ StringDrawn(t, Blank, N)
    BY <1>1 DEF StringPart, StringStep, Current
  <1>5. todo # <<>> /\ Head(todo) = t /\ Tail(todo) = <<>>
    BY <1>4
  <1>6. \/ N <= last /\ StringDrawn(t, Blank, N + 1)' /\ todo' = todo
        \/ N = last + 1 /\ CallDone /\ UNCHANGED pixels
    BY <1>3, <1>4, <1>5, StringGoesOn
  <1>7. CASE N <= last /\ StringDrawn(t, Blank, N + 1)' /\ todo' = todo
    <2>1. N + 1 \in 1 .. last + 1
      BY <1>3, <1>4, <1>7
    <2> QED  BY <1>4, <1>7, <2>1 DEF StringPart
  <1>8. CASE N = last + 1 /\ CallDone /\ UNCHANGED pixels
    <2>1. todo' = <<>> /\ pixels' = Strings(t, Blank, N)
      BY <1>4, <1>5, <1>8 DEF CallDone, StringDrawn
    <2> QED  BY <1>4, <1>8, <2>1 DEF StringPart
  <1> QED  BY <1>6, <1>7, <1>8

(* A string that has been drawn is laid out as its property says.          *)
LEMMA StringIsLaidOut ==
    ASSUME NEW t \in StringRequests, StringPart(t), todo = <<>>
    PROVE  IsLaidOut(t)
  <1> SUFFICES ASSUME InReach(t) PROVE IsLaidOut(t)
    BY DEF IsLaidOut, InReach
  <1>1. pixels = Strings(t, Blank, Len(t.str) + 1)
    BY DEF StringPart
  <1>2. (Len(t.str) + 1) - 1 = Len(t.str)
    BY DEF StringRequests
  <1> QED  BY <1>1, <1>2 DEF IsLaidOut, Strings, Blank

----------------------------------------------------------------------------
(* Windows.  The calls that wm_render_all still has to make are a list,    *)
(* told by its elements: the 0-th window is the desktop.                   *)
Listed(f, N) == N \in Nat /\ f = [i \in 1 .. N |-> f[i]]
Chained(h, f, N, g, k) == \A i \in 1 .. N + k : h[i] = IF i <= N THEN f[i] ELSE g[i - N]

(* A list's head and tail, by its elements.                                *)
LEMMA ListFacts ==
    ASSUME NEW f, NEW N, Listed(f, N)
    PROVE  /\ f \in Seq({f[i] : i \in 1 .. N}) /\ Len(f) = N
           /\ N = 0 => f = <<>>
           /\ N > 0 => /\ f # <<>> /\ Head(f) = f[1]
                       /\ Listed(Tail(f), N - 1) /\ \A i \in 1 .. N - 1 : Tail(f)[i] = f[i + 1]
  <1> DEFINE S == {f[i] : i \in 1 .. N}
  <1>1. N \in Nat /\ f \in [1 .. N -> S]
    <2>1. [i \in 1 .. N |-> f[i]] \in [1 .. N -> S]
      OBVIOUS
    <2> QED  BY <2>1 DEF Listed
  <1> HIDE DEF S
  <1>2. f \in Seq(S) /\ Len(f) = N
    BY <1>1
  <1>3. N = 0 => f = <<>>
    BY <1>2
  <1>4. ASSUME N > 0
        PROVE  /\ f # <<>> /\ Head(f) = f[1]
               /\ Listed(Tail(f), N - 1) /\ \A i \in 1 .. N - 1 : Tail(f)[i] = f[i + 1]
    <2>1. f # <<>>
      BY <1>2, <1>4
    <2>2. /\ Tail(f) \in Seq(S) /\ Len(Tail(f)) = N - 1
          /\ \A i \in 1 .. N - 1 : Tail(f)[i] = f[i + 1]
      BY <1>2, <2>1, HeadTailProperties
    <2>3. Tail(f) \in [1 .. N - 1 -> S] /\ N - 1 \in Nat
      BY <1>1, <1>4, <2>2, LenProperties
    <2>4. Tail(f) = [i \in 1 .. N - 1 |-> Tail(f)[i]]
      BY <2>3
    <2> QED  BY <1>2, <2>1, <2>2, <2>3, <2>4 DEF Listed
  <1> QED  BY <1>2, <1>3, <1>4 DEF S

(* One list behind another, by its elements.                               *)
LEMMA ListJoined ==
    ASSUME NEW N \in Nat, NEW k \in Nat, NEW f, Listed(f, N), NEW g, Listed(g, k),
           NEW h, h = f \o g
    PROVE  Listed(h, N + k) /\ Chained(h, f, N, g, k)
  <1> DEFINE S == {f[i] : i \in 1 .. N} \cup {g[i] : i \in 1 .. k}
  <1>1. f \in Seq(S) /\ Len(f) = N /\ g \in Seq(S) /\ Len(g) = k
    <2>1. [i \in 1 .. N |-> f[i]] \in [1 .. N -> S] /\ [i \in 1 .. k |-> g[i]] \in [1 .. k -> S]
      OBVIOUS
    <2>2. f \in [1 .. N -> S] /\ g \in [1 .. k -> S]
      BY <2>1 DEF Listed
    <2> HIDE DEF S
    <2> QED  BY <2>2
  <1> HIDE DEF S
  <1>2. /\ h \in Seq(S) /\ Len(h) = N + k
        /\ \A i \in 1 .. N + k : h[i] = IF i <= N THEN f[i] ELSE g[i - N]
    BY <1>1, ConcatProperties
  <1>3. h \in [1 .. N + k -> S]
    BY <1>2, LenProperties
  <1>4. h = [i \in 1 .. N + k |-> h[i]]
    BY <1>3
  <1> QED  BY <1>2, <1>4 DEF Listed, Chained

Count(t) == Least(Len(t.wins), WM_MAX_WINDOWS)
Made(t, N) == wm_create_window(t.wins[N])
WindowCalls(t, N) == IF N = 0 THEN <<Clear("desktop")>> ELSE draw_window(Made(t, N))
CallsOf(w) == 4 + w.rows * w.cols
CallCount(t, N) == IF N = 0 THEN 1 ELSE CallsOf(Made(t, N))
Queue(t, N, j) ==
    LET c == CallCount(t, N) - j
    IN  [i \in 1 .. c + (Count(t) - N) |->
            IF i <= c THEN WindowCalls(t, N)[j + i] ELSE Window(Made(t, N + (i - c)))]

LEMMA WindowFacts ==
    /\ WM_BORDER \in Nat /\ WM_TITLEBAR_HEIGHT \in Nat /\ TitleIndent \in Nat
    /\ WM_MAX_WINDOWS \in Nat /\ WM_TEXT_COLS \in Nat /\ WM_TEXT_ROWS \in Nat
    /\ WM_BORDER + FONT_HEIGHT <= WM_TITLEBAR_HEIGHT
  <1>1. /\ {WM_MAX_WINDOWS, WM_BORDER, WM_TEXT_COLS, WM_TEXT_ROWS, TitleIndent} \subseteq Nat
        /\ WM_TITLEBAR_HEIGHT \in Nat /\ WM_BORDER + FONT_HEIGHT <= WM_TITLEBAR_HEIGHT
    BY Zenon, WindowsAssumption
  <1> QED  BY <1>1

(* wm_create_window changes nothing but the size of the grid.              *)
LEMMA WindowMade ==
    ASSUME NEW w \in Windows, NEW v, v = wm_create_window(w)
    PROVE  /\ v.x = w.x /\ v.y = w.y /\ v.w = w.w /\ v.h = w.h
           /\ v.title = w.title /\ v.ch = w.ch
           /\ v.cols = Least(U(w.w - 2 * WM_BORDER) \div FONT_WIDTH, WM_TEXT_COLS)
           /\ v.rows = Least(U(w.h - WM_TITLEBAR_HEIGHT - WM_BORDER) \div FONT_HEIGHT,
                             WM_TEXT_ROWS)
           /\ v.cols \in Nat /\ v.rows \in Nat /\ v.rows * v.cols \in Nat
           /\ w.x \in Nat /\ w.y \in Nat /\ w.w \in Nat /\ w.h \in Nat
           /\ w.title \in Seq(STRING) /\ Len(w.title) \in Nat
  <1>1. /\ w.x \in Nat /\ w.y \in Nat /\ w.w \in Nat /\ w.h \in Nat
        /\ w.title \in Seq(STRING) /\ Len(w.title) \in Nat
    BY ScreenFacts DEF Windows, Coordinates
  <1> DEFINE c == Least(U(w.w - 2 * WM_BORDER) \div FONT_WIDTH, WM_TEXT_COLS)
             r == Least(U(w.h - WM_TITLEBAR_HEIGHT - WM_BORDER) \div FONT_HEIGHT,
                        WM_TEXT_ROWS)
  <1>2. ASSUME NEW a \in Int, NEW f \in Nat \ {0}, NEW b \in Nat
        PROVE  Least(U(a) \div f, b) \in Nat
    <2>1. U(a) \in Nat
      BY ScreenFacts DEF U
    <2>2. U(a) \div f \in Nat
      BY <2>1
    <2> QED  BY <2>2 DEF Least
  <1>3. c \in Nat /\ r \in Nat
    <2> DEFINE a == w.w - 2 * WM_BORDER
               b == w.h - WM_TITLEBAR_HEIGHT - WM_BORDER
    <2>1. a \in Int /\ b \in Int
      BY <1>1, WindowFacts
    <2> HIDE DEF a, b
    <2>2. /\ Least(U(a) \div FONT_WIDTH, WM_TEXT_COLS) \in Nat
          /\ Least(U(b) \div FONT_HEIGHT, WM_TEXT_ROWS) \in Nat
      BY <1>2, <2>1, FontFacts, WindowFacts
    <2> QED  BY <2>2 DEF a, b
  <1> HIDE DEF c, r
  <1>4. v = [w EXCEPT !.cols = c, !.rows = r]
    BY DEF wm_create_window, c, r
  <1>5. /\ v.x = w.x /\ v.y = w.y /\ v.w = w.w /\ v.h = w.h /\ v.title = w.title
        /\ v.ch = w.ch /\ v.cols = c /\ v.rows = r
    BY <1>4 DEF Windows
  <1>6. r * c \in Nat
    BY <1>3
  <1> QED  BY <1>1, <1>3, <1>5, <1>6 DEF c, r

(* draw_window's calls, one by one.                                        *)
LEMMA CallsListed ==
    ASSUME NEW w, w.rows \in Nat, w.cols \in Nat, w.rows * w.cols \in Nat
    PROVE  /\ Listed(draw_window(w), CallsOf(w)) /\ CallsOf(w) \in Nat
           /\ draw_window(w)[1] = FillRect(w.x, w.y, w.w, w.h, "border")
           /\ draw_window(w)[2]
                = FillRect(w.x + WM_BORDER, w.y + WM_BORDER, w.w - 2 * WM_BORDER,
                           WM_TITLEBAR_HEIGHT - WM_BORDER, "titlebar")
           /\ draw_window(w)[3] = String(TitleX(w), TitleY(w), w.title, "title", "titlebar")
           /\ draw_window(w)[4]
                = FillRect(w.x + WM_BORDER, w.y + WM_TITLEBAR_HEIGHT, w.w - 2 * WM_BORDER,
                           w.h - WM_TITLEBAR_HEIGHT - WM_BORDER, "paper")
           /\ \A k \in 1 .. w.rows * w.cols :
                 draw_window(w)[4 + k] = TextAt(w, (k - 1) \div w.cols, (k - 1) % w.cols)
  <1> DEFINE R == w.rows * w.cols
             a == FillRect(w.x, w.y, w.w, w.h, "border")
             b == FillRect(w.x + WM_BORDER, w.y + WM_BORDER, w.w - 2 * WM_BORDER,
                           WM_TITLEBAR_HEIGHT - WM_BORDER, "titlebar")
             c == String(TitleX(w), TitleY(w), w.title, "title", "titlebar")
             e == FillRect(w.x + WM_BORDER, w.y + WM_TITLEBAR_HEIGHT, w.w - 2 * WM_BORDER,
                           w.h - WM_TITLEBAR_HEIGHT - WM_BORDER, "paper")
             T(k) == TextAt(w, (k - 1) \div w.cols, (k - 1) % w.cols)
  <1>1. draw_window(w) = <<a, b, c, e>> \o [k \in 1 .. R |-> T(k)]
    BY DEF draw_window
  <1>2. R \in Nat
    OBVIOUS
  <1>3. CallsOf(w) = 4 + R
    BY DEF CallsOf
  <1> HIDE DEF R, a, b, c, e, T
  <1>4. PICK f : f = <<a, b, c, e>>
    OBVIOUS
  <1>5. Listed(f, 4) /\ f[1] = a /\ f[2] = b /\ f[3] = c /\ f[4] = e
    BY <1>4 DEF Listed
  <1>6. PICK g : g = [k \in 1 .. R |-> T(k)]
    OBVIOUS
  <1>7. Listed(g, R) /\ \A k \in 1 .. R : g[k] = T(k)
    BY <1>2, <1>6 DEF Listed
  <1>8. PICK h : h = f \o g
    OBVIOUS
  <1>9. draw_window(w) = h
    BY <1>1, <1>4, <1>6, <1>8
  <1>10. Listed(h, 4 + R) /\ \A i \in 1 .. 4 + R : h[i] = IF i <= 4 THEN f[i] ELSE g[i - 4]
    <2>1. Listed(h, 4 + R) /\ Chained(h, f, 4, g, R)
      BY <1>2, <1>5, <1>7, <1>8, ListJoined
    <2> QED  BY <2>1 DEF Chained
  <1>12. \A k \in 1 .. R : h[4 + k] = T(k)
    <2> TAKE k \in 1 .. R
    <2>1. 4 + k \in 1 .. 4 + R /\ ~ (4 + k <= 4) /\ (4 + k) - 4 = k
      BY <1>2
    <2> QED  BY <1>7, <1>10, <2>1
  <1>13. h[1] = a /\ h[2] = b /\ h[3] = c /\ h[4] = e
    <2>1. \A i \in {1, 2, 3, 4} : i \in 1 .. 4 + R /\ i <= 4
      BY <1>2
    <2>2. \A i \in {1, 2, 3, 4} : h[i] = f[i]
      BY <1>10, <2>1
    <2> QED  BY <1>5, <2>2
  <1>14. 4 + R \in Nat
    BY <1>2
  <1> QED  BY <1>3, <1>9, <1>10, <1>12, <1>13, <1>14 DEF R, a, b, c, e, T

(* What a request for windows holds.                                       *)
LEMMA RequestFacts ==
    ASSUME NEW t \in WindowRequests
    PROVE  /\ Count(t) \in Nat /\ Count(t) <= Len(t.wins) /\ t.wins \in Seq(Windows)
           /\ \A N \in 1 .. Count(t) : t.wins[N] \in Windows
           /\ \A N \in 0 .. Count(t) :
                 /\ CallCount(t, N) \in Nat \ {0}
                 /\ Listed(WindowCalls(t, N), CallCount(t, N))
  <1>1. t.wins \in Seq(Windows) /\ Len(t.wins) \in Nat
    BY DEF WindowRequests
  <1>2. Count(t) \in Nat /\ Count(t) <= Len(t.wins)
    BY <1>1, WindowFacts DEF Count, Least
  <1>3. \A N \in 1 .. Count(t) : t.wins[N] \in Windows
    BY <1>1, <1>2
  <1>4. ASSUME NEW N \in 0 .. Count(t)
        PROVE  /\ CallCount(t, N) \in Nat \ {0}
               /\ Listed(WindowCalls(t, N), CallCount(t, N))
    <2>1. CASE N = 0
      BY <2>1 DEF CallCount, WindowCalls, Listed
    <2>2. CASE N # 0
      <3>1. N \in 1 .. Count(t)
        BY <1>2, <2>2
      <3>2. PICK v : v = Made(t, N)
        OBVIOUS
      <3>3. v.rows \in Nat /\ v.cols \in Nat /\ v.rows * v.cols \in Nat
        BY <1>3, <3>1, <3>2, WindowMade DEF Made
      <3>4. Listed(draw_window(v), CallsOf(v)) /\ CallsOf(v) \in Nat
        BY <3>3, CallsListed
      <3>5. CallsOf(v) # 0
        BY <3>3 DEF CallsOf
      <3> QED  BY <2>2, <3>2, <3>4, <3>5 DEF CallCount, WindowCalls
    <2> QED  BY <2>1, <2>2
  <1> QED  BY <1>1, <1>2, <1>3, <1>4

(* wm_render_all begins with the desktop and no call made.                 *)
LEMMA QueueStarts ==
    ASSUME NEW t \in WindowRequests
    PROVE  wm_render_all(Created(t.wins)) = Queue(t, 0, 0)
  <1> DEFINE K == Count(t)
  <1>1. K \in Nat
    BY RequestFacts
  <1>2. PICK made : made = Created(t.wins)
    OBVIOUS
  <1>3. made = [k \in 1 .. K |-> Made(t, k)]
    BY <1>2 DEF Created, Count, Made
  <1> HIDE DEF K
  <1>4. Len(made) = K /\ \A k \in 1 .. K : made[k] = Made(t, k)
    BY <1>1, <1>3
  <1>5. PICK f : f = <<Clear("desktop")>>
    OBVIOUS
  <1>6. PICK g : g = [k \in 1 .. K |-> Window(made[k])]
    OBVIOUS
  <1>7. PICK h : h = f \o g
    OBVIOUS
  <1>8. wm_render_all(made) = h
    BY <1>4, <1>5, <1>6, <1>7 DEF wm_render_all
  <1>9. Listed(f, 1) /\ Listed(g, K)
    BY <1>1, <1>5, <1>6 DEF Listed
  <1>10. Listed(h, 1 + K) /\ Chained(h, f, 1, g, K)
    BY <1>1, <1>7, <1>9, ListJoined
  <1>11. h = [i \in 1 .. 1 + K |-> IF i <= 1 THEN f[i] ELSE g[i - 1]]
    BY <1>10 DEF Listed, Chained
  <1>12. ASSUME NEW i \in 1 .. 1 + K
         PROVE  (IF i <= 1 THEN f[i] ELSE g[i - 1])
                  = IF i <= 1 THEN f[i] ELSE Window(Made(t, 0 + (i - 1)))
    <2>1. CASE i <= 1
      BY <2>1
    <2>2. CASE ~ (i <= 1)
      <3>1. i - 1 \in 1 .. K /\ 0 + (i - 1) = i - 1
        BY <1>1, <2>2
      <3> QED  BY <1>4, <1>6, <2>2, <3>1
    <2> QED  BY <2>1, <2>2
  <1>13. Queue(t, 0, 0)
           = [i \in 1 .. 1 + K |-> IF i <= 1 THEN f[i] ELSE Window(Made(t, 0 + (i - 1)))]
    <2>1. CallCount(t, 0) - 0 = 1 /\ 1 + (Count(t) - 0) = 1 + K
      BY <1>1 DEF CallCount, K
    <2>2. WindowCalls(t, 0) = f /\ \A i \in 1 .. 1 + K : 0 + i = i
      BY <1>1, <1>5 DEF WindowCalls
    <2> QED  BY <2>1, <2>2 DEF Queue
  <1> QED  BY <1>2, <1>8, <1>11, <1>12, <1>13

(* The queue by its elements.                                              *)
LEMMA QueueListed ==
    ASSUME NEW t \in WindowRequests, NEW N \in 0 .. Count(t), NEW j \in 0 .. CallCount(t, N)
    PROVE  LET c == CallCount(t, N) - j
               h == Queue(t, N, j)
           IN  /\ c \in Nat /\ Count(t) - N \in Nat
               /\ Listed(h, c + (Count(t) - N))
               /\ \A i \in 1 .. c : h[i] = WindowCalls(t, N)[j + i]
               /\ \A i \in 1 .. Count(t) - N : h[c + i] = Window(Made(t, N + i))
  <1> DEFINE c == CallCount(t, N) - j
             h == Queue(t, N, j)
             r == Count(t) - N
  <1>1. c \in Nat /\ r \in Nat /\ Count(t) \in Nat /\ N \in Nat
    BY RequestFacts
  <1>2. h = [i \in 1 .. c + r |-> IF i <= c THEN WindowCalls(t, N)[j + i]
                                 ELSE Window(Made(t, N + (i - c)))]
    BY DEF Queue
  <1> HIDE DEF c, r, h
  <1>3. Listed(h, c + r)
    BY <1>1, <1>2 DEF Listed
  <1>4. \A i \in 1 .. c : h[i] = WindowCalls(t, N)[j + i]
    BY <1>1, <1>2
  <1>5. ASSUME NEW i \in 1 .. r
        PROVE  h[c + i] = Window(Made(t, N + i))
    <2>1. c + i \in 1 .. c + r /\ ~ (c + i <= c) /\ (c + i) - c = i
      BY <1>1
    <2> QED  BY <1>2, <2>1
  <1> QED  BY <1>1, <1>3, <1>4, <1>5 DEF c, r, h

LEMMA QueueIs ==
    ASSUME NEW t \in WindowRequests, NEW N \in 0 .. Count(t), NEW j \in 0 .. CallCount(t, N),
           NEW h, NEW c, NEW r, c = CallCount(t, N) - j, r = Count(t) - N,
           Listed(h, c + r),
           \A i \in 1 .. c : h[i] = WindowCalls(t, N)[j + i],
           \A i \in 1 .. r : h[c + i] = Window(Made(t, N + i))
    PROVE  h = Queue(t, N, j)
  <1>1. c \in Nat /\ r \in Nat
    BY RequestFacts
  <1>2. ASSUME NEW i \in 1 .. c + r
        PROVE  h[i] = IF i <= c THEN WindowCalls(t, N)[j + i]
                                ELSE Window(Made(t, N + (i - c)))
    <2>1. CASE i <= c
      BY <1>1, <2>1
    <2>2. CASE ~ (i <= c)
      <3>1. i - c \in 1 .. r /\ c + (i - c) = i
        BY <1>1, <2>2
      <3>2. h[c + (i - c)] = Window(Made(t, N + (i - c)))
        BY <3>1
      <3> QED  BY <2>2, <3>1, <3>2
    <2> QED  BY <2>1, <2>2
  <1>3. h = [i \in 1 .. c + r |-> h[i]]
    BY DEF Listed
  <1>4. Queue(t, N, j) = [i \in 1 .. c + r |-> IF i <= c THEN WindowCalls(t, N)[j + i]
                                              ELSE Window(Made(t, N + (i - c)))]
    BY DEF Queue
  <1> QED  BY <1>2, <1>3, <1>4

(* A call is taken off the queue.                                          *)
LEMMA QueueCalls ==
    ASSUME NEW t \in WindowRequests, NEW N \in 0 .. Count(t),
           NEW j \in 0 .. CallCount(t, N) - 1, NEW h, h = Queue(t, N, j)
    PROVE  h # <<>> /\ Head(h) = WindowCalls(t, N)[j + 1] /\ Tail(h) = Queue(t, N, j + 1)
  <1> DEFINE c == CallCount(t, N) - j
             r == Count(t) - N
  <1>1. /\ j \in 0 .. CallCount(t, N) /\ j + 1 \in 0 .. CallCount(t, N)
        /\ c - 1 = CallCount(t, N) - (j + 1) /\ c - 1 \in Nat /\ j \in Nat
    BY RequestFacts
  <1>2. /\ c \in Nat /\ r \in Nat /\ Listed(h, c + r)
        /\ \A i \in 1 .. c : h[i] = WindowCalls(t, N)[j + i]
        /\ \A i \in 1 .. r : h[c + i] = Window(Made(t, N + i))
    BY <1>1, QueueListed
  <1> HIDE DEF c, r
  <1>3. c + r > 0 /\ (c + r) - 1 = (c - 1) + r /\ 1 \in 1 .. c
    BY <1>1, <1>2
  <1>4. PICK u : u = Tail(h)
    OBVIOUS
  <1>5. /\ h # <<>> /\ Head(h) = h[1] /\ Listed(u, (c - 1) + r)
        /\ \A i \in 1 .. (c - 1) + r : u[i] = h[i + 1]
    BY <1>2, <1>3, <1>4, ListFacts
  <1>6. ASSUME NEW i \in 1 .. c - 1
        PROVE  u[i] = WindowCalls(t, N)[(j + 1) + i]
    <2>1. i + 1 \in 1 .. c /\ i \in 1 .. (c - 1) + r /\ j + (i + 1) = (j + 1) + i
      BY <1>1, <1>2
    <2>2. h[i + 1] = WindowCalls(t, N)[j + (i + 1)]
      BY <1>2, <2>1
    <2> QED  BY <1>5, <2>1, <2>2
  <1>7. ASSUME NEW i \in 1 .. r
        PROVE  u[(c - 1) + i] = Window(Made(t, N + i))
    <2>1. (c - 1) + i \in 1 .. (c - 1) + r /\ ((c - 1) + i) + 1 = c + i
      BY <1>1, <1>2
    <2>2. u[(c - 1) + i] = h[((c - 1) + i) + 1]
      BY <1>5, <2>1
    <2> QED  BY <1>2, <2>1, <2>2
  <1>8. PICK pt : pt = c - 1
    OBVIOUS
  <1>9. PICK e : e = j + 1
    OBVIOUS
  <1>10. u = Queue(t, N, e)
    <2>1. pt = CallCount(t, N) - e /\ r = Count(t) - N /\ e \in 0 .. CallCount(t, N)
      BY <1>1, <1>8, <1>9 DEF r
    <2>2. /\ Listed(u, pt + r) /\ \A i \in 1 .. pt : u[i] = WindowCalls(t, N)[e + i]
          /\ \A i \in 1 .. r : u[pt + i] = Window(Made(t, N + i))
      BY <1>5, <1>6, <1>7, <1>8, <1>9
    <2> QED  BY <2>1, <2>2, QueueIs
  <1>11. h[1] = WindowCalls(t, N)[j + 1]
    BY <1>2, <1>3
  <1> QED  BY <1>4, <1>5, <1>9, <1>10, <1>11

(* The next window is taken off the queue and its calls put on it.         *)
LEMMA QueueWindow ==
    ASSUME NEW t \in WindowRequests, NEW N \in 0 .. Count(t), N < Count(t),
           NEW h, h = Queue(t, N, CallCount(t, N))
    PROVE  /\ h # <<>> /\ Head(h) = Window(Made(t, N + 1))
           /\ draw_window(Made(t, N + 1)) \o Tail(h) = Queue(t, N + 1, 0)
  <1> DEFINE r == Count(t) - N
             e == CallCount(t, N + 1)
  <1>1. /\ Count(t) \in Nat /\ N \in Nat /\ N + 1 \in 0 .. Count(t)
        /\ CallCount(t, N) \in 0 .. CallCount(t, N) /\ CallCount(t, N) - CallCount(t, N) = 0
        /\ r \in Nat /\ r > 0 /\ 0 + r = r /\ Count(t) - (N + 1) = r - 1 /\ r - 1 \in Nat
    BY RequestFacts
  <1>2. e \in Nat /\ e - 0 = e /\ 0 \in 0 .. e /\ Listed(WindowCalls(t, N + 1), e)
    BY <1>1, RequestFacts
  <1>3. /\ Listed(h, r)
        /\ \A i \in 1 .. r : h[0 + i] = Window(Made(t, N + i))
    BY <1>1, QueueListed
  <1>4. \A i \in 1 .. r : h[i] = Window(Made(t, N + i))
    BY <1>3
  <1> HIDE DEF r, e
  <1>5. PICK u : u = Tail(h)
    OBVIOUS
  <1>6. h # <<>> /\ Head(h) = h[1] /\ Listed(u, r - 1) /\ \A i \in 1 .. r - 1 : u[i] = h[i + 1]
    BY <1>1, <1>3, <1>5, ListFacts
  <1>7. PICK f : f = WindowCalls(t, N + 1)
    OBVIOUS
  <1>8. f = draw_window(Made(t, N + 1))
    BY <1>1, <1>7 DEF WindowCalls
  <1>9. PICK v : v = f \o u
    OBVIOUS
  <1>10. PICK q \in Nat : q = r - 1
    BY <1>1
  <1>11. Listed(v, e + q) /\ Chained(v, f, e, u, q)
    BY <1>2, <1>6, <1>7, <1>9, <1>10, ListJoined
  <1>12. \A i \in 1 .. e : v[i] = WindowCalls(t, N + 1)[0 + i]
    <2> TAKE i \in 1 .. e
    <2>1. i \in 1 .. e + q /\ i <= e /\ 0 + i = i
      BY <1>2, <1>10
    <2> QED  BY <1>7, <1>11, <2>1 DEF Chained
  <1>13. \A i \in 1 .. q : v[e + i] = Window(Made(t, (N + 1) + i))
    <2> TAKE i \in 1 .. q
    <2>1. e + i \in 1 .. e + q /\ ~ (e + i <= e) /\ (e + i) - e = i
      BY <1>2, <1>10
    <2>2. v[e + i] = u[i]
      BY <1>11, <2>1 DEF Chained
    <2>3. i \in 1 .. r - 1 /\ i + 1 \in 1 .. r /\ N + (i + 1) = (N + 1) + i
      BY <1>1, <1>10
    <2>4. h[i + 1] = Window(Made(t, N + (i + 1)))
      BY <1>4, <2>3
    <2> QED  BY <1>6, <2>2, <2>3, <2>4
  <1>14. e = CallCount(t, N + 1) - 0 /\ q = Count(t) - (N + 1) /\ 0 \in 0 .. CallCount(t, N + 1)
    BY <1>1, <1>2, <1>10 DEF e
  <1>15. v = Queue(t, N + 1, 0)
    BY <1>1, <1>11, <1>12, <1>13, <1>14, QueueIs
  <1>16. h[1] = Window(Made(t, N + 1))
    BY <1>1, <1>4
  <1> QED  BY <1>5, <1>6, <1>8, <1>9, <1>15, <1>16

(* Behind the last call of the last window the queue is empty.             *)
LEMMA QueueEnds ==
    ASSUME NEW t \in WindowRequests, NEW h, h = Queue(t, Count(t), CallCount(t, Count(t)))
    PROVE  h = <<>>
  <1>1. Count(t) \in 0 .. Count(t)
    BY RequestFacts
  <1>2. /\ CallCount(t, Count(t)) \in 0 .. CallCount(t, Count(t))
        /\ (CallCount(t, Count(t)) - CallCount(t, Count(t))) + (Count(t) - Count(t)) = 0
    BY <1>1, RequestFacts
  <1>3. Listed(h, 0)
    BY <1>1, <1>2, QueueListed
  <1> QED  BY <1>3, ListFacts

----------------------------------------------------------------------------
(* What the calls of a window make of the picture that is there, base: its *)
(* border, title bar, title and paper, and i characters of its text.       *)
FilledBy(c, pic) == fb_fill_rect(pic, c.x, c.y, c.w, c.h, c.color)
Covered(pic, x, y, a, b, color) ==
    [m \in VideoMemory |-> IF m \in OnScreen /\ Inside(m, x, y, a, b) THEN color ELSE pic[m]]
Bordered(w, base) == Covered(base, w.x, w.y, w.w, w.h, "border")
Barred(w, base) ==
    Covered(Bordered(w, base), w.x + WM_BORDER, w.y + WM_BORDER, w.w - 2 * WM_BORDER,
            WM_TITLEBAR_HEIGHT - WM_BORDER, "titlebar")
TitleCall(w) == String(TitleX(w), TitleY(w), w.title, "title", "titlebar")
Titled(w, base) == Strings(TitleCall(w), Barred(w, base), Len(w.title) + 1)
Papered(w, base) ==
    Covered(Titled(w, base), w.x + WM_BORDER, w.y + WM_TITLEBAR_HEIGHT, w.w - 2 * WM_BORDER,
            w.h - WM_TITLEBAR_HEIGHT - WM_BORDER, "paper")
TextCell(v, q, m) ==
    Inside(m, v.x + WM_BORDER + ((q - 1) % v.cols) * FONT_WIDTH,
           v.y + WM_TITLEBAR_HEIGHT + ((q - 1) \div v.cols) * FONT_HEIGHT,
           FONT_WIDTH, FONT_HEIGHT)
Letter(v, m) ==
    IF <<(X(m) - v.x - WM_BORDER) % FONT_WIDTH,
         (Y(m) - v.y - WM_TITLEBAR_HEIGHT) % FONT_HEIGHT>> \in Glyph(v.ch)
    THEN "text" ELSE "paper"
Lettered(v, base, i) ==
    [m \in VideoMemory |->
        IF m \in OnScreen /\ \E q \in 1 .. i : TextCell(v, q, m)
        THEN Letter(v, m) ELSE Papered(v, base)[m]]

LEMMA NoWrap == ASSUME NEW a \in Nat, a < Wrap PROVE U(a) = a
  BY ScreenFacts DEF U

(* fb_fill_rect covers a rectangle that does not reach the end of its      *)
(* coordinates.                                                            *)
LEMMA Filled ==
    ASSUME NEW x \in Nat, NEW y \in Nat, NEW a \in Nat, NEW b \in Nat,
           x + a < Wrap, y + b < Wrap, NEW color, NEW pic,
           NEW c, c = FillRect(x, y, a, b, color)
    PROVE  c.op = "fill" /\ FilledBy(c, pic) = Covered(pic, x, y, a, b, color)
  <1>1. U(x) = x /\ U(y) = y /\ U(a) = a /\ U(b) = b /\ U(y + b) = y + b
    BY ScreenFacts, NoWrap
  <1>2. c = [op |-> "fill", x |-> x, y |-> y, w |-> a, h |-> b, color |-> color]
    BY <1>1 DEF FillRect
  <1>3. ASSUME NEW m \in VideoMemory
        PROVE  (/\ x <= X(m) /\ X(m) < Width /\ X(m) - x < a
                /\ y <= Y(m) /\ Y(m) < U(y + b))
               <=> m \in OnScreen /\ Inside(m, x, y, a, b)
    <2>1. X(m) \in Nat /\ Y(m) \in Nat
      BY PlaceFacts, ScreenFacts
    <2>2. m \in OnScreen <=> X(m) < Width
      BY DEF OnScreen
    <2> QED  BY <1>1, <2>1, <2>2 DEF Inside
  <1> QED  BY <1>2, <1>3 DEF FilledBy, fb_fill_rect, Covered

Fitting(c, x, y, a, b, color) ==
    /\ x \in Nat /\ y \in Nat /\ a \in Nat /\ b \in Nat
    /\ x + a < Wrap /\ y + b < Wrap /\ c = FillRect(x, y, a, b, color)
LEMMA FittingDone ==
    ASSUME NEW c, NEW x, NEW y, NEW a, NEW b, NEW color, Fitting(c, x, y, a, b, color),
           NEW pic
    PROVE  c.op = "fill" /\ FilledBy(c, pic) = Covered(pic, x, y, a, b, color)
  <1>1. /\ x \in Nat /\ y \in Nat /\ a \in Nat /\ b \in Nat
        /\ x + a < Wrap /\ y + b < Wrap /\ c = FillRect(x, y, a, b, color)
    BY DEF Fitting
  <1> QED  BY <1>1, Filled

(* The corner of what lies inside of a frame stays in reach.               *)
Framing(x, z, b, c, w, a) ==
    /\ x \in Nat /\ b \in Nat /\ c \in Nat /\ w \in Nat
    /\ x + w < Wrap /\ z = x + b /\ a = w - b - c
LEMMA InsideInReach ==
    ASSUME NEW x, NEW z, NEW b, NEW c, NEW w, NEW a, Framing(x, z, b, c, w, a)
    PROVE  z + a < Wrap
  <1>1. PICK y \in Nat : y = x
    BY DEF Framing
  <1>2. PICK e \in Nat : e = w
    BY DEF Framing
  <1>3. b \in Nat /\ c \in Nat /\ y + e < Wrap /\ z = y + b /\ a = e - b - c
    BY <1>1, <1>2 DEF Framing
  <1> QED  BY <1>3, ScreenFacts

(* Where the parts of a roomy window lie, with nothing wrapping round.     *)
LEMMA RoomyFacts ==
    ASSUME NEW w \in Windows, Roomy(w)
    PROVE  /\ w.x \in Nat /\ w.y \in Nat /\ w.w \in Nat /\ w.h \in Nat
           /\ w.x + w.w < Wrap /\ w.y + w.h < Wrap
           /\ w.w - 2 * WM_BORDER \in Nat /\ w.w >= 2 * WM_BORDER
           /\ WM_TITLEBAR_HEIGHT - WM_BORDER \in Nat
           /\ w.h - WM_TITLEBAR_HEIGHT - WM_BORDER \in Nat
           /\ w.h >= WM_TITLEBAR_HEIGHT + WM_BORDER + FONT_HEIGHT
           /\ TitleX(w) \in Nat /\ TitleX(w) = w.x + WM_BORDER + TitleIndent
           /\ TitleX(w) <= Width
           /\ TitleY(w) \in Nat /\ TitleY(w) >= w.y + WM_BORDER
           /\ TitleY(w) + FONT_HEIGHT <= w.y + WM_TITLEBAR_HEIGHT
           /\ TitleY(w) + FONT_HEIGHT < Wrap
           /\ Len(w.title) \in Nat /\ FONT_WIDTH * Len(w.title) \in Nat
           /\ TitleX(w) + FONT_WIDTH * Len(w.title) <= Width
           /\ TitleX(w) + FONT_WIDTH * Len(w.title) + WM_BORDER <= w.x + w.w
           /\ \A k \in 1 .. Len(w.title) : w.title[k] # "NL"
  <1>1. /\ w.x \in Nat /\ w.y \in Nat /\ w.w \in Nat /\ w.h \in Nat
        /\ Len(w.title) \in Nat
    BY WindowMade
  <1> DEFINE pt == FONT_WIDTH * Len(w.title)
  <1>2. pt \in Nat
    BY <1>1, FontFacts
  <1>3. /\ w.x + w.w < Wrap /\ w.y + w.h < Wrap
        /\ w.w >= 2 * WM_BORDER + FONT_WIDTH
        /\ w.h >= WM_TITLEBAR_HEIGHT + WM_BORDER + FONT_HEIGHT
        /\ TitleIndent + pt + 2 * WM_BORDER <= w.w
        /\ TitleX(w) + pt <= Width
        /\ \A k \in 1 .. Len(w.title) : w.title[k] # "NL"
    BY DEF Roomy
  <1> HIDE DEF pt
  <1> DEFINE e == WM_TITLEBAR_HEIGHT - WM_BORDER - FONT_HEIGHT
             f == e \div 2
  <1>4. e \in Nat /\ f \in Nat /\ f <= e
    <2>1. e \in Nat
      BY FontFacts, WindowFacts
    <2> HIDE DEF e
    <2> QED  BY <2>1
  <1>5. TitleX(w) = w.x + WM_BORDER + TitleIndent /\ TitleY(w) = w.y + WM_BORDER + f
    BY DEF TitleX, TitleY
  <1>6. e = WM_TITLEBAR_HEIGHT - WM_BORDER - FONT_HEIGHT
    OBVIOUS
  <1> HIDE DEF e, f
  <1>7. /\ TitleX(w) \in Nat /\ TitleX(w) <= Width /\ TitleX(w) + pt + WM_BORDER <= w.x + w.w
        /\ TitleY(w) \in Nat /\ TitleY(w) >= w.y + WM_BORDER
        /\ TitleY(w) + FONT_HEIGHT <= w.y + WM_TITLEBAR_HEIGHT
        /\ TitleY(w) + FONT_HEIGHT < Wrap
    <2>1. TitleX(w) \in Nat /\ TitleX(w) + pt + WM_BORDER <= w.x + w.w
      <3>1. TitleIndent + pt + 2 * WM_BORDER <= w.w
        BY <1>3
      <3>2. TitleX(w) = w.x + WM_BORDER + TitleIndent /\ TitleX(w) \in Nat
        BY <1>1, <1>5, WindowFacts
      <3>3. TitleX(w) + pt + WM_BORDER <= w.x + w.w
        <4>1. ASSUME NEW x \in Nat, NEW a \in Nat, NEW b \in Nat, NEW i \in Nat,
                     i + pt + 2 * b <= a
              PROVE  x + b + i + pt + b <= x + a
          BY <1>2, <4>1
        <4>2. w.x + WM_BORDER + TitleIndent + pt + WM_BORDER <= w.x + w.w
          BY <1>1, <3>1, <4>1, WindowFacts
        <4> QED  BY <3>2, <4>2
      <3> QED  BY <3>2, <3>3
    <2>2. TitleX(w) <= Width
      BY <1>2, <1>3, <2>1, ScreenFacts
    <2>3. TitleY(w) \in Nat /\ TitleY(w) >= w.y + WM_BORDER
      BY <1>1, <1>4, <1>5, WindowFacts
    <2>4. TitleY(w) + FONT_HEIGHT <= w.y + WM_TITLEBAR_HEIGHT
      BY <1>1, <1>4, <1>5, <1>6, FontFacts, WindowFacts
    <2>5. TitleY(w) + FONT_HEIGHT < Wrap
      <3>1. Wrap \in Nat /\ w.y + WM_TITLEBAR_HEIGHT <= w.y + w.h
        BY <1>1, <1>3, FontFacts, WindowFacts, ScreenFacts
      <3>2. w.y + w.h < Wrap
        BY <1>3
      <3> QED  BY <1>1, <2>3, <2>4, <3>1, <3>2, FontFacts, WindowFacts
    <2> QED  BY <2>1, <2>2, <2>3, <2>4, <2>5
  <1>8. /\ w.w - 2 * WM_BORDER \in Nat /\ w.w >= 2 * WM_BORDER
        /\ WM_TITLEBAR_HEIGHT - WM_BORDER \in Nat
        /\ w.h - WM_TITLEBAR_HEIGHT - WM_BORDER \in Nat
    <2>1. w.w >= 2 * WM_BORDER + FONT_WIDTH
      BY <1>3
    <2>2. w.w - 2 * WM_BORDER \in Nat /\ w.w >= 2 * WM_BORDER
      BY <1>1, <2>1, FontFacts, WindowFacts
    <2>3. w.h >= WM_TITLEBAR_HEIGHT + WM_BORDER + FONT_HEIGHT
      BY <1>3
    <2>4. w.h - WM_TITLEBAR_HEIGHT - WM_BORDER \in Nat
      BY <1>1, <2>3, FontFacts, WindowFacts
    <2>5. WM_TITLEBAR_HEIGHT - WM_BORDER \in Nat
      BY FontFacts, WindowFacts
    <2> QED  BY <2>2, <2>4, <2>5
  <1> QED  BY <1>1, <1>2, <1>3, <1>5, <1>7, <1>8 DEF pt

(* A title has one row.                                                    *)
LEMMA TitleInOneRow ==
    ASSUME NEW w \in Windows, Roomy(w), NEW t, t = TitleCall(w)
    PROVE  /\ StringCall(t) /\ t.op = "string" /\ t.x = TitleX(w) /\ t.y = TitleY(w)
           /\ t.str = w.title /\ t.fg = "title" /\ t.bg = "titlebar"
           /\ \A k \in 1 .. Len(w.title) :
                 ~ Newline(t, k) /\ Row(t, k) = 0 /\ Col(t, k) = k - 1
  <1> DEFINE N == Len(w.title)
             P == PerRow(t)
  <1>1. /\ t.op = "string" /\ t.x = TitleX(w) /\ t.y = TitleY(w)
        /\ t.str = w.title /\ t.fg = "title" /\ t.bg = "titlebar"
    <2>1. U(TitleX(w)) = TitleX(w) /\ U(TitleY(w)) = TitleY(w)
      BY RoomyFacts, NoWrap, ScreenFacts, FontFacts
    <2> QED  BY <2>1 DEF TitleCall, String
  <1>2. /\ t.x \in Nat /\ t.y \in Nat /\ t.str \in Seq(STRING) /\ N \in Nat
        /\ t.x + 2 * FONT_WIDTH < Wrap /\ t.x + FONT_WIDTH * N <= Width
        /\ \A k \in 1 .. N : ~ Newline(t, k)
    BY <1>1, RoomyFacts, WindowMade, FontFacts, ScreenFacts DEF Newline
  <1>3. N > 0 => P \in Nat /\ N <= P
    <2> HAVE N > 0
    <2>1. CASE t.x + 2 * FONT_WIDTH > Width
      <3>1. P = 1
        BY <2>1 DEF PerRow
      <3>2. ~ (N >= 2)
        <4> SUFFICES ASSUME N >= 2 PROVE FALSE
          OBVIOUS
        <4>1. ASSUME NEW a \in Nat, NEW f \in Nat, a >= 2
              PROVE  f * a >= 2 * f
          BY <4>1
        <4> HIDE DEF N
        <4>2. FONT_WIDTH * N >= 2 * FONT_WIDTH /\ FONT_WIDTH * N \in Nat
          BY <1>2, <4>1, FontFacts
        <4>3. PICK pt \in Nat : pt = FONT_WIDTH * N
          BY <4>2
        <4>4. t.x + pt <= Width /\ pt >= 2 * FONT_WIDTH /\ t.x \in Nat
          BY <1>2, <4>2, <4>3
        <4> QED  BY <2>1, <4>4, FontFacts, ScreenFacts
      <3> QED  BY <1>2, <3>1, <3>2
    <2>2. CASE ~ (t.x + 2 * FONT_WIDTH > Width)
      <3>1. P = (Width - t.x) \div FONT_WIDTH
        BY <2>2 DEF PerRow
      <3>2. ASSUME NEW e \in Nat, NEW f \in Nat \ {0}, NEW a \in Nat, f * a <= e
            PROVE  e \div f \in Nat /\ a <= e \div f
        <4> DEFINE q == e \div f
        <4>1. q \in Nat /\ e < (q + 1) * f
          BY <3>2
        <4> HIDE DEF q
        <4>2. f * a < (q + 1) * f
          BY <3>2, <4>1
        <4>3. a < q + 1
          BY <3>2, <4>1, <4>2
        <4> QED  BY <3>2, <4>1, <4>3 DEF q
      <3>3. Width - t.x \in Nat /\ FONT_WIDTH * N <= Width - t.x
        <4> DEFINE pt == FONT_WIDTH * N
        <4>1. pt \in Nat
          BY <1>2, FontFacts
        <4> HIDE DEF pt
        <4>2. t.x + pt <= Width
          BY <1>2 DEF pt
        <4>3. Width - t.x \in Nat /\ pt <= Width - t.x
          BY <1>2, <4>1, <4>2, ScreenFacts
        <4> QED  BY <4>3 DEF pt
      <3> HIDE DEF N, P
      <3> QED  BY <1>2, <3>1, <3>2, <3>3, FontFacts
    <2> QED  BY <2>1, <2>2
  <1> HIDE DEF N, P
  <1>4. ASSUME NEW k \in 1 .. N
        PROVE  Col(t, k) = k - 1
    <2>1. \A c \in 0 + 1 .. k - 1 : ~ Newline(t, c)
      BY <1>2
    <2>2. Breaks(t, k, 0) /\ 0 \in 0 .. k - 1
      BY <1>2, <2>1 DEF Breaks
    <2>3. LastNewline(t, k) = 0
      BY <1>2, <2>2, BreaksAlone
    <2>4. k - 0 - 1 = k - 1 /\ k - 1 \in Nat /\ k - 1 < P /\ P \in Nat
      BY <1>2, <1>3
    <2>5. (k - 1) % P = k - 1
      BY <2>4
    <2> QED  BY <2>3, <2>4, <2>5 DEF Col, P
  <1>5. \A b \in 1 .. N - 1 : ~ Opens(t, b)
    <2> TAKE b \in 1 .. N - 1
    <2>1. b \in 1 .. N /\ b - 1 # P - 1 /\ N > 0
      BY <1>2, <1>3
    <2> QED  BY <1>2, <1>4, <2>1 DEF Opens, P
  <1>6. \A k \in 1 .. N : Row(t, k) = 0
    <2> TAKE k \in 1 .. N
    <2>1. {b \in 1 .. k - 1 : Opens(t, b)} = {}
      BY <1>2, <1>5
    <2> QED  BY <2>1, FS_EmptySet DEF Row
  <1>7. Row(t, N + 1) \in 0 .. 1
    <2>1. CASE N = 0
      BY <2>1, RowGrows
    <2>2. CASE N # 0
      <3>1. N \in 1 .. N /\ N \in Nat \ {0}
        BY <1>2, <2>2
      <3> QED  BY <1>6, <3>1, RowGrows
    <2> QED  BY <2>1, <2>2
  <1>8. t.y + Row(t, N + 1) * FONT_HEIGHT < Wrap
    <2>1. 0 * FONT_HEIGHT = 0 /\ 1 * FONT_HEIGHT = FONT_HEIGHT
      BY FontFacts
    <2>2. Row(t, N + 1) * FONT_HEIGHT \in {0, FONT_HEIGHT}
      BY <1>7, <2>1
    <2> QED  BY <1>1, <2>2, RoomyFacts, FontFacts, ScreenFacts
  <1>9. StringCall(t)
    BY <1>1, <1>2, <1>8 DEF StringCall, InReach, N
  <1> QED  BY <1>1, <1>2, <1>4, <1>6, <1>9 DEF N

(* Where a number stands between the multiples of another one.             *)
IsAt(a, f, c, r) == a = c * f + r
LEMMA Multiples ==
    ASSUME NEW f \in Nat \ {0}, NEW c \in Nat, NEW r \in 0 .. f - 1, NEW a,
           IsAt(a, f, c, r)
    PROVE  a \in Nat /\ a \div f = c /\ a % f = r
  <1>1. c * f \in Nat /\ a \in Nat /\ a = c * f + r
    BY DEF IsAt
  <1> QED  BY <1>1

LEMMA BetweenMultiples ==
    ASSUME NEW f \in Nat \ {0}, NEW a \in Nat
    PROVE  /\ a \div f \in Nat /\ a % f \in 0 .. f - 1
           /\ (a \div f) * f \in Nat /\ a = (a \div f) * f + (a % f)
  OBVIOUS

LEMMA MultiplesRise ==
    ASSUME NEW f \in Nat \ {0}, NEW a \in Nat, NEW b \in Nat, a < b
    PROVE  a * f \in Nat /\ b * f \in Nat /\ a * f + f <= b * f
  <1>1. b - a - 1 \in Nat /\ (b - a - 1) * f \in Nat
    <2>1. b - a - 1 \in Nat
      OBVIOUS
    <2> QED  BY <2>1
  <1>2. b * f = (b - a - 1) * f + a * f + f
    OBVIOUS
  <1> QED  BY <1>1, <1>2

(* The grid of cols by rows cells: q names the one that a place is in.     *)
InCell(q, x, y, cols, f, h) ==
    /\ x - ((q - 1) % cols) * f \in 0 .. f - 1
    /\ y - ((q - 1) \div cols) * h \in 0 .. h - 1
CellOffsets(q, x, y, cols, f, h) ==
    /\ x % f = x - ((q - 1) % cols) * f
    /\ y % h = y - ((q - 1) \div cols) * h
OnGrid(x, y, cols, rows, f, h) == x \in 0 .. cols * f - 1 /\ y \in 0 .. rows * h - 1

LEMMA InMultiples ==
    ASSUME NEW g \in Nat \ {0}, NEW N \in Nat, NEW c \in 0 .. N - 1, NEW z \in Int,
           z - c * g \in 0 .. g - 1
    PROVE  z \in 0 .. N * g - 1 /\ z % g = z - c * g
  <1>1. PICK r \in 0 .. g - 1 : r = z - c * g
    OBVIOUS
  <1>2. c * g \in Nat /\ N * g \in Nat /\ c * g + g <= N * g
    BY MultiplesRise
  <1>3. PICK pt \in Nat : pt = c * g
    BY <1>2
  <1>4. z = pt + r
    BY <1>1, <1>3
  <1>5. z % g = r
    <2>1. IsAt(z, g, c, r) /\ c \in Nat
      BY <1>3, <1>4 DEF IsAt
    <2> QED  BY <1>1, <2>1, Multiples
  <1>6. PICK u \in Nat : u = N * g
    BY <1>2
  <1>7. z \in 0 .. u - 1
    BY <1>1, <1>2, <1>3, <1>4, <1>6
  <1> QED  BY <1>1, <1>5, <1>6, <1>7

LEMMA GridPlaces ==
    ASSUME NEW cols \in Nat, NEW rows \in Nat, NEW N, N = rows * cols, NEW q \in 1 .. N
    PROVE  (q - 1) % cols \in 0 .. cols - 1 /\ (q - 1) \div cols \in 0 .. rows - 1
  <1>0. N \in Nat /\ N = rows * cols
    OBVIOUS
  <1>1. cols # 0
    <2>1. rows * 0 = 0
      OBVIOUS
    <2> QED  BY <1>0, <2>1
  <1>2. PICK a \in Nat : a = q - 1
    BY <1>0
  <1>3. a \div cols \in Nat /\ a % cols \in 0 .. cols - 1 /\ a = (a \div cols) * cols + (a % cols)
    BY <1>1, BetweenMultiples
  <1>4. PICK b \in Nat : b = a \div cols
    BY <1>3
  <1>5. b < rows
    <2> SUFFICES ASSUME rows <= b PROVE FALSE
      BY <1>4
    <2>1. rows * cols <= b * cols
      OBVIOUS
    <2>2. b * cols \in Nat /\ b * cols <= a /\ a < rows * cols
      BY <1>0, <1>2, <1>3, <1>4
    <2> QED  BY <1>0, <2>1, <2>2
  <1> QED  BY <1>2, <1>3, <1>4, <1>5

LEMMA GridCells ==
    ASSUME NEW f \in Nat \ {0}, NEW h \in Nat \ {0}, NEW cols \in Nat, NEW rows \in Nat,
           NEW x \in Int, NEW y \in Int, NEW N, N = rows * cols, NEW q \in 1 .. N,
           InCell(q, x, y, cols, f, h)
    PROVE  OnGrid(x, y, cols, rows, f, h) /\ CellOffsets(q, x, y, cols, f, h)
  <1>1. PICK c \in 0 .. cols - 1 : c = (q - 1) % cols
    BY GridPlaces
  <1>2. PICK r \in 0 .. rows - 1 : r = (q - 1) \div cols
    BY GridPlaces
  <1>3. x - c * f \in 0 .. f - 1 /\ y - r * h \in 0 .. h - 1
    BY <1>1, <1>2 DEF InCell
  <1>4. x \in 0 .. cols * f - 1 /\ x % f = x - c * f
    BY <1>3, InMultiples
  <1>5. y \in 0 .. rows * h - 1 /\ y % h = y - r * h
    BY <1>3, InMultiples
  <1> QED  BY <1>1, <1>2, <1>4, <1>5 DEF OnGrid, CellOffsets

LEMMA GridCovered ==
    ASSUME NEW f \in Nat \ {0}, NEW h \in Nat \ {0}, NEW cols \in Nat, NEW rows \in Nat,
           NEW x \in Int, NEW y \in Int, NEW N, N = rows * cols,
           OnGrid(x, y, cols, rows, f, h)
    PROVE  \E q \in 1 .. N : InCell(q, x, y, cols, f, h)
  <1>0. /\ N \in Nat /\ cols * f \in Nat /\ rows * h \in Nat
        /\ x \in 0 .. cols * f - 1 /\ y \in 0 .. rows * h - 1
    BY DEF OnGrid
  <1>1. x \in Nat /\ y \in Nat
    BY <1>0
  <1>2. ASSUME NEW g \in Nat \ {0}, NEW k \in Nat, NEW z \in Nat, z < k * g
        PROVE  z \div g \in 0 .. k - 1 /\ z - (z \div g) * g \in 0 .. g - 1
    <2>1. PICK b \in Nat : b = z \div g
      BY BetweenMultiples
    <2>2. z = b * g + (z % g) /\ z % g \in 0 .. g - 1 /\ b * g \in Nat /\ k * g \in Nat
      <3>1. z = b * g + (z % g) /\ z % g \in 0 .. g - 1 /\ b * g \in Nat
        BY <2>1, BetweenMultiples
      <3>2. k * g \in Nat
        OBVIOUS
      <3> QED  BY <3>1, <3>2
    <2>3. b < k
      <3> SUFFICES ASSUME k <= b PROVE FALSE
        BY <2>1
      <3>1. k * g <= b * g
        OBVIOUS
      <3> QED  BY <1>2, <2>2, <3>1
    <2>4. z - b * g = z % g
      <3>1. PICK pt \in Nat : pt = b * g
        BY <2>2
      <3>2. PICK r \in 0 .. g - 1 : r = z % g
        BY <2>2
      <3> QED  BY <2>2, <3>1, <3>2
    <2> QED  BY <2>1, <2>2, <2>3, <2>4
  <1>3. PICK c \in 0 .. cols - 1 : c = x \div f /\ x - c * f \in 0 .. f - 1
    <2>1. x < cols * f
      BY <1>0, <1>1
    <2>2. x \div f \in 0 .. cols - 1 /\ x - (x \div f) * f \in 0 .. f - 1
      BY <1>1, <1>2, <2>1
    <2> QED  BY <2>2
  <1>4. PICK r \in 0 .. rows - 1 : r = y \div h /\ y - r * h \in 0 .. h - 1
    <2>1. y < rows * h
      BY <1>0, <1>1
    <2>2. y \div h \in 0 .. rows - 1 /\ y - (y \div h) * h \in 0 .. h - 1
      BY <1>1, <1>2, <2>1
    <2> QED  BY <2>2
  <1>5. PICK a \in Nat : a = r * cols + c
    <2>1. r * cols \in Nat
      BY <1>3, <1>4
    <2> QED  BY <1>3, <2>1
  <1>6. a \div cols = r /\ a % cols = c
    <2>1. cols \in Nat \ {0} /\ r \in Nat /\ IsAt(a, cols, r, c)
      BY <1>3, <1>4, <1>5 DEF IsAt
    <2> QED  BY <1>3, <1>5, <2>1, Multiples
  <1>7. a < rows * cols
    <2>1. r * cols \in Nat /\ r * cols + cols <= rows * cols
      BY <1>3, <1>4, MultiplesRise
    <2> QED  BY <1>0, <1>3, <1>5, <2>1
  <1>8. PICK q \in 1 .. rows * cols : q = a + 1
    BY <1>0, <1>7
  <1>9. q - 1 = a
    BY <1>8
  <1> QED  BY <1>3, <1>4, <1>6, <1>8, <1>9 DEF InCell

(* A title is drawn as TitleAt says.                                       *)
LEMMA TitleShown ==
    ASSUME NEW w \in Windows, Roomy(w), NEW base, NEW m \in VideoMemory,
           NEW x, NEW y, x = X(m) - TitleX(w), y = Y(m) - TitleY(w)
    PROVE  Titled(w, base)[m]
             = IF m \in OnScreen /\ x \in 0 .. FONT_WIDTH * Len(w.title) - 1
                  /\ y \in 0 .. FONT_HEIGHT - 1
               THEN TitleAt(w, x, y) ELSE Barred(w, base)[m]
  <1> DEFINE N == Len(w.title)
  <1>1. PICK t : t = TitleCall(w)
    OBVIOUS
  <1> DEFINE over == {i \in 1 .. N : Cell(t, i, m)}
  <1>2. N \in Nat /\ TitleX(w) \in Nat /\ TitleY(w) \in Nat /\ FONT_WIDTH * N \in Nat
    BY RoomyFacts
  <1>3. X(m) \in Nat /\ Y(m) \in Nat /\ x \in Int /\ y \in Int
    BY <1>2, PlaceFacts, ScreenFacts
  <1>4. Titled(w, base)[m]
          = IF m \notin OnScreen \/ over = {} THEN Barred(w, base)[m]
            ELSE IF \E i \in over : Inked(t, i, m) THEN "title" ELSE "titlebar"
    <2>1. (N + 1) - 1 = N
      BY <1>2
    <2>2. t.fg = "title" /\ t.bg = "titlebar"
      BY <1>1, TitleInOneRow
    <2> QED  BY <1>1, <2>1, <2>2 DEF Titled, Strings
  <1>5. ASSUME NEW i \in 1 .. N
        PROVE  /\ Cell(t, i, m) <=> x - (i - 1) * FONT_WIDTH \in 0 .. FONT_WIDTH - 1
                                    /\ y \in 0 .. FONT_HEIGHT - 1
               /\ Inked(t, i, m) <=> <<x - (i - 1) * FONT_WIDTH, y>> \in Glyph(w.title[i])
    <2>1. /\ t.x = TitleX(w) /\ t.y = TitleY(w) /\ t.str = w.title
          /\ ~ Newline(t, i) /\ Row(t, i) = 0 /\ Col(t, i) = i - 1
      BY <1>1, TitleInOneRow
    <2>2. (i - 1) * FONT_WIDTH \in Int /\ 0 * FONT_HEIGHT = 0
      BY <1>2, FontFacts
    <2> DEFINE pt == (i - 1) * FONT_WIDTH
    <2>3. pt \in Int
      BY <2>2
    <2> HIDE DEF pt
    <2>4. /\ X(m) - (TitleX(w) + pt) = x - pt
          /\ Y(m) - (TitleY(w) + 0) = y
      BY <1>2, <1>3, <2>3
    <2> QED  BY <2>1, <2>2, <2>4 DEF Cell, Inked, Inside, pt
  <1> HIDE DEF N
  <1>6. ASSUME NEW i \in over
        PROVE  /\ x \in 0 .. FONT_WIDTH * N - 1 /\ y \in 0 .. FONT_HEIGHT - 1
               /\ x \div FONT_WIDTH = i - 1 /\ x % FONT_WIDTH = x - (i - 1) * FONT_WIDTH
    <2>1. i \in 1 .. N /\ x - (i - 1) * FONT_WIDTH \in 0 .. FONT_WIDTH - 1
          /\ y \in 0 .. FONT_HEIGHT - 1
      BY <1>5
    <2>2. PICK r \in 0 .. FONT_WIDTH - 1 : r = x - (i - 1) * FONT_WIDTH
      BY <2>1
    <2>3. PICK c \in Nat : c = i - 1 /\ c < N
      BY <1>2, <2>1
    <2>4. c * FONT_WIDTH \in Nat /\ N * FONT_WIDTH \in Nat
          /\ c * FONT_WIDTH + FONT_WIDTH <= N * FONT_WIDTH
      BY <1>2, <2>3, FontFacts, MultiplesRise
    <2>5. PICK pt \in Nat : pt = c * FONT_WIDTH
      BY <2>4
    <2>6. x = pt + r
      BY <1>3, <2>2, <2>3, <2>5
    <2>7. IsAt(x, FONT_WIDTH, c, r)
      BY <2>5, <2>6 DEF IsAt
    <2>8. x \div FONT_WIDTH = c /\ x % FONT_WIDTH = r
      BY <2>3, <2>7, FontFacts, Multiples
    <2>9. N * FONT_WIDTH = FONT_WIDTH * N
      BY <1>2, FontFacts
    <2>10. PICK q \in Nat : q = FONT_WIDTH * N /\ pt + FONT_WIDTH <= q
      BY <2>4, <2>5, <2>9
    <2>11. x \in 0 .. q - 1
      BY <2>2, <2>6, <2>10, FontFacts
    <2> QED  BY <2>1, <2>2, <2>3, <2>8, <2>10, <2>11
  <1>7. ASSUME x \in 0 .. FONT_WIDTH * N - 1, y \in 0 .. FONT_HEIGHT - 1
        PROVE  x \div FONT_WIDTH + 1 \in over
    <2>1. x \in Nat /\ x < N * FONT_WIDTH
      <3>1. N * FONT_WIDTH = FONT_WIDTH * N
        BY <1>2, FontFacts
      <3> QED  BY <1>2, <1>7, <3>1
    <2>2. PICK c \in Nat : c = x \div FONT_WIDTH
      BY <2>1, FontFacts, BetweenMultiples
    <2>3. PICK pt \in Nat : pt = c * FONT_WIDTH /\ x = pt + (x % FONT_WIDTH)
      BY <2>1, <2>2, FontFacts, BetweenMultiples
    <2>4. PICK r \in 0 .. FONT_WIDTH - 1 : r = x % FONT_WIDTH
      BY <2>1, FontFacts, BetweenMultiples
    <2>5. c < N
      <3> SUFFICES ASSUME N <= c PROVE FALSE
        BY <1>2, <2>2
      <3>1. ASSUME NEW a \in Nat, NEW b \in Nat, NEW f \in Nat, a <= b
            PROVE  a * f \in Nat /\ a * f <= b * f
        BY <3>1
      <3>2. N * FONT_WIDTH \in Nat /\ N * FONT_WIDTH <= pt
        BY <1>2, <2>3, <3>1, FontFacts
      <3> QED  BY <2>1, <2>3, <2>4, <3>2
    <2>6. PICK i \in 1 .. N : i = c + 1 /\ i - 1 = c
      BY <1>2, <2>2, <2>5
    <2>7. x - (i - 1) * FONT_WIDTH \in 0 .. FONT_WIDTH - 1
      <3>1. x - pt \in 0 .. FONT_WIDTH - 1
        BY <2>3, <2>4
      <3> QED  BY <2>3, <2>6, <3>1
    <2>8. Cell(t, i, m)
      BY <1>5, <1>7, <2>7
    <2> QED  BY <2>2, <2>6, <2>8
  <1>8. TitleAt(w, x, y)
          = IF x \in 0 .. FONT_WIDTH * N - 1 /\ y \in 0 .. FONT_HEIGHT - 1
               /\ <<x % FONT_WIDTH, y>> \in Glyph(w.title[(x \div FONT_WIDTH) + 1])
            THEN "title" ELSE "titlebar"
    BY DEF TitleAt, N
  <1>9. CASE x \in 0 .. FONT_WIDTH * N - 1 /\ y \in 0 .. FONT_HEIGHT - 1
    <2>1. PICK k \in over : k = x \div FONT_WIDTH + 1
      BY <1>7, <1>9
    <2>2. \A i \in over : i = k
      <3> TAKE i \in over
      <3>1. i \in Int /\ k \in Int /\ i - 1 = k - 1
        BY <1>2, <1>6, <2>1
      <3> QED  BY <3>1
    <2>3. k \in 1 .. N /\ x % FONT_WIDTH = x - (k - 1) * FONT_WIDTH
      BY <1>6, <2>1
    <2>4. Inked(t, k, m) <=> <<x % FONT_WIDTH, y>> \in Glyph(w.title[k])
      BY <1>5, <2>3
    <2>5. (\E i \in over : Inked(t, i, m)) <=> Inked(t, k, m)
      BY <2>1, <2>2
    <2> HIDE DEF over
    <2> QED  BY <1>4, <1>8, <1>9, <2>1, <2>4, <2>5 DEF N
  <1>10. CASE ~ (x \in 0 .. FONT_WIDTH * N - 1 /\ y \in 0 .. FONT_HEIGHT - 1)
    <2>1. over = {}
      BY <1>6, <1>10
    <2> HIDE DEF over
    <2> QED  BY <1>4, <1>10, <2>1 DEF N
  <1> QED  BY <1>9, <1>10

(* The text grid fits into the paper.                                      *)
LEMMA GridFits ==
    ASSUME NEW w \in Windows, Roomy(w), NEW v, v = wm_create_window(w)
    PROVE  /\ v.cols \in Nat /\ v.rows \in Nat
           /\ v.cols * FONT_WIDTH \in Nat /\ v.rows * FONT_HEIGHT \in Nat
           /\ v.cols * FONT_WIDTH <= w.w - 2 * WM_BORDER
           /\ v.rows * FONT_HEIGHT <= w.h - WM_TITLEBAR_HEIGHT - WM_BORDER
  <1>1. ASSUME NEW a \in Nat, a < Wrap, NEW f \in Nat \ {0}, NEW b \in Nat,
               NEW c, c = Least(U(a) \div f, b)
        PROVE  c \in Nat /\ c * f \in Nat /\ c * f <= a
    <2>1. U(a) = a
      BY <1>1, NoWrap
    <2>2. PICK q \in Nat : q = a \div f
      BY BetweenMultiples
    <2>3. q * f \in Nat /\ q * f <= a
      <3>1. a = q * f + (a % f) /\ a % f \in 0 .. f - 1 /\ q * f \in Nat
        BY <2>2, BetweenMultiples
      <3> QED  BY <3>1
    <2>4. c \in Nat /\ c <= q
      BY <1>1, <2>1, <2>2 DEF Least
    <2>5. c * f \in Nat /\ c * f <= q * f
      BY <2>4
    <2> QED  BY <2>3, <2>4, <2>5
  <1>2. PICK a \in Nat : a = w.w - 2 * WM_BORDER /\ a < Wrap
    <2>1. PICK a \in Nat : a = w.w - 2 * WM_BORDER
      BY RoomyFacts
    <2>2. w.w \in Nat /\ w.w < Wrap
      BY RoomyFacts, ScreenFacts
    <2>3. a < Wrap
      BY <2>1, <2>2, WindowFacts, ScreenFacts
    <2> QED  BY <2>1, <2>3
  <1>3. PICK b \in Nat : b = w.h - WM_TITLEBAR_HEIGHT - WM_BORDER /\ b < Wrap
    <2>1. PICK b \in Nat : b = w.h - WM_TITLEBAR_HEIGHT - WM_BORDER
      BY RoomyFacts
    <2>2. w.h \in Nat /\ w.h < Wrap
      BY RoomyFacts, ScreenFacts
    <2>3. b < Wrap
      BY <2>1, <2>2, WindowFacts, ScreenFacts
    <2> QED  BY <2>1, <2>3
  <1>4. /\ v.cols = Least(U(a) \div FONT_WIDTH, WM_TEXT_COLS)
        /\ v.rows = Least(U(b) \div FONT_HEIGHT, WM_TEXT_ROWS)
    BY <1>2, <1>3, WindowMade
  <1>5. v.cols \in Nat /\ v.cols * FONT_WIDTH \in Nat /\ v.cols * FONT_WIDTH <= a
    BY <1>1, <1>2, <1>4, FontFacts, WindowFacts
  <1>6. v.rows \in Nat /\ v.rows * FONT_HEIGHT \in Nat /\ v.rows * FONT_HEIGHT <= b
    BY <1>1, <1>3, <1>4, FontFacts, WindowFacts
  <1> QED  BY <1>2, <1>3, <1>5, <1>6

(* The q-th character of a window's text is drawn in its cell.             *)
TextCall(v, q, c) ==
    /\ q \in 1 .. v.rows * v.cols
    /\ c = TextAt(v, (q - 1) \div v.cols, (q - 1) % v.cols)
LetterAt(v, q, c, pic, m) ==
    /\ c.op = "char"
    /\ fb_draw_char(pic, c.x, c.y, c.c, c.fg, c.bg)[m]
         = IF m \in OnScreen /\ TextCell(v, q, m) THEN Letter(v, m) ELSE pic[m]
LetterDrawn(v, q, c, pic) ==
    /\ c.op = "char"
    /\ fb_draw_char(pic, c.x, c.y, c.c, c.fg, c.bg)
         = [m \in VideoMemory |->
              IF m \in OnScreen /\ TextCell(v, q, m) THEN Letter(v, m) ELSE pic[m]]

LEMMA TextDrawn ==
    ASSUME NEW w \in Windows, Roomy(w), NEW v, v = wm_create_window(w),
           NEW q, NEW pic, NEW m \in VideoMemory, NEW c, TextCall(v, q, c)
    PROVE  LetterAt(v, q, c, pic, m)
  <1> q \in 1 .. v.rows * v.cols /\ c = TextAt(v, (q - 1) \div v.cols, (q - 1) % v.cols)
    BY DEF TextCall
  <1> DEFINE col == (q - 1) % v.cols
             row == (q - 1) \div v.cols
             x == X(m) - v.x - WM_BORDER
             y == Y(m) - v.y - WM_TITLEBAR_HEIGHT
  <1>1. /\ v.x = w.x /\ v.y = w.y /\ v.ch = w.ch /\ w.x \in Nat /\ w.y \in Nat
        /\ X(m) \in Nat /\ Y(m) \in Nat
    <2>1. v.x = w.x /\ v.y = w.y /\ v.ch = w.ch /\ w.x \in Nat /\ w.y \in Nat
      BY WindowMade
    <2> QED  BY <2>1, PlaceFacts, ScreenFacts
  <1>2. x \in Int /\ y \in Int
    BY <1>1, WindowFacts
  <1>3. v.cols \in Nat /\ v.rows \in Nat
    BY GridFits
  <1>4. col \in 0 .. v.cols - 1 /\ row \in 0 .. v.rows - 1
    <2>1. PICK N : N = v.rows * v.cols
      OBVIOUS
    <2> QED  BY <1>3, <2>1, GridPlaces
  <1> HIDE DEF x, y, col, row
  <1>5. PICK pt \in Nat : pt = col * FONT_WIDTH /\ pt + FONT_WIDTH <= w.w - 2 * WM_BORDER
    <2>1. /\ col * FONT_WIDTH \in Nat /\ v.cols * FONT_WIDTH \in Nat
          /\ col * FONT_WIDTH + FONT_WIDTH <= v.cols * FONT_WIDTH
      BY <1>3, <1>4, FontFacts, MultiplesRise
    <2>2. v.cols * FONT_WIDTH <= w.w - 2 * WM_BORDER
      BY GridFits
    <2>3. PICK a \in Nat : a = w.w - 2 * WM_BORDER
      BY RoomyFacts
    <2> QED  BY <2>1, <2>2, <2>3, FontFacts
  <1>6. PICK r \in Nat : r = row * FONT_HEIGHT /\ r + FONT_HEIGHT <= w.h - WM_TITLEBAR_HEIGHT - WM_BORDER
    <2>1. /\ row * FONT_HEIGHT \in Nat /\ v.rows * FONT_HEIGHT \in Nat
          /\ row * FONT_HEIGHT + FONT_HEIGHT <= v.rows * FONT_HEIGHT
      BY <1>3, <1>4, FontFacts, MultiplesRise
    <2>2. v.rows * FONT_HEIGHT <= w.h - WM_TITLEBAR_HEIGHT - WM_BORDER
      BY GridFits
    <2>3. PICK a \in Nat : a = w.h - WM_TITLEBAR_HEIGHT - WM_BORDER
      BY RoomyFacts
    <2> QED  BY <2>1, <2>2, <2>3, FontFacts
  <1>7. /\ U(w.x + WM_BORDER + pt) = w.x + WM_BORDER + pt
        /\ U(w.y + WM_TITLEBAR_HEIGHT + r) = w.y + WM_TITLEBAR_HEIGHT + r
    <2>1. /\ w.x \in Nat /\ w.y \in Nat /\ w.w \in Nat /\ w.h \in Nat
          /\ w.x + w.w < Wrap /\ w.y + w.h < Wrap
      BY RoomyFacts
    <2>2. PICK a \in Nat : a = w.x + WM_BORDER + pt /\ a < Wrap
      BY <1>5, <2>1, WindowFacts, FontFacts, ScreenFacts
    <2>3. PICK b \in Nat : b = w.y + WM_TITLEBAR_HEIGHT + r /\ b < Wrap
      BY <1>6, <2>1, WindowFacts, FontFacts, ScreenFacts
    <2> QED  BY <2>2, <2>3, NoWrap
  <1>8. c = [op |-> "char", x |-> w.x + WM_BORDER + pt, y |-> w.y + WM_TITLEBAR_HEIGHT + r,
             c |-> v.ch, fg |-> "text", bg |-> "paper"]
    BY <1>1, <1>5, <1>6, <1>7 DEF TextAt, Char, col, row
  <1>9. /\ X(m) - (w.x + WM_BORDER + pt) = x - pt
        /\ Y(m) - (w.y + WM_TITLEBAR_HEIGHT + r) = y - r
    BY <1>1, <1>5, <1>6, WindowFacts DEF x, y
  <1>10. TextCell(v, q, m) <=> x - pt \in 0 .. FONT_WIDTH - 1 /\ y - r \in 0 .. FONT_HEIGHT - 1
    BY <1>1, <1>5, <1>6, <1>9 DEF TextCell, Inside, col, row
  <1>11. m \in OnScreen <=> X(m) < Width
    BY DEF OnScreen
  <1>12. fb_draw_char(pic, c.x, c.y, c.c, c.fg, c.bg)[m]
           = IF m \in OnScreen /\ TextCell(v, q, m)
             THEN IF <<x - pt, y - r>> \in Glyph(v.ch) THEN "text" ELSE "paper"
             ELSE pic[m]
    BY <1>8, <1>9, <1>10, <1>11 DEF fb_draw_char
  <1>13. TextCell(v, q, m) => x % FONT_WIDTH = x - pt /\ y % FONT_HEIGHT = y - r
    <2> HAVE TextCell(v, q, m)
    <2>1. InCell(q, x, y, v.cols, FONT_WIDTH, FONT_HEIGHT)
      BY <1>5, <1>6, <1>10 DEF InCell, col, row
    <2>2. PICK N : N = v.rows * v.cols
      OBVIOUS
    <2>3. q \in 1 .. N
      BY <2>2
    <2>4. CellOffsets(q, x, y, v.cols, FONT_WIDTH, FONT_HEIGHT)
      BY <1>2, <1>3, <2>1, <2>2, <2>3, FontFacts, GridCells
    <2> QED  BY <1>5, <1>6, <2>4 DEF CellOffsets, col, row
  <1>14. TextCell(v, q, m) => Letter(v, m) = IF <<x - pt, y - r>> \in Glyph(v.ch)
                                            THEN "text" ELSE "paper"
    BY <1>13 DEF Letter, x, y
  <1> QED  BY <1>8, <1>12, <1>14 DEF LetterAt

LEMMA LettersDrawn ==
    ASSUME NEW w \in Windows, Roomy(w), NEW v, v = wm_create_window(w),
           NEW q, NEW c, TextCall(v, q, c), NEW pic
    PROVE  LetterDrawn(v, q, c, pic)
  <1>1. \A m \in VideoMemory : LetterAt(v, q, c, pic, m)
    BY TextDrawn
  <1>2. 0 \in VideoMemory
    BY ScreenFacts DEF VideoMemory
  <1>3. fb_draw_char(pic, c.x, c.y, c.c, c.fg, c.bg)
          = [m \in VideoMemory |-> fb_draw_char(pic, c.x, c.y, c.c, c.fg, c.bg)[m]]
    BY DEF fb_draw_char
  <1> QED  BY <1>1, <1>2, <1>3 DEF LetterDrawn, LetterAt

(* A window whose calls have all been made.                                *)
LEMMA WindowShown ==
    ASSUME NEW w \in Windows, Roomy(w), NEW v, v = wm_create_window(w), NEW base,
           NEW m \in VideoMemory
    PROVE  Lettered(v, base, v.rows * v.cols)[m]
             = IF m \in OnScreen /\ Over(w, m) THEN View(w, X(m) - w.x, Y(m) - w.y)
               ELSE base[m]
  <1> DEFINE x == X(m) - w.x
             y == Y(m) - w.y
             R == v.rows * v.cols
  <1>1. /\ v.x = w.x /\ v.y = w.y /\ v.w = w.w /\ v.h = w.h
        /\ v.title = w.title /\ v.ch = w.ch
    BY WindowMade
  <1>2. /\ Bordered(v, base) = Bordered(w, base) /\ Barred(v, base) = Barred(w, base)
        /\ TitleX(v) = TitleX(w) /\ TitleY(v) = TitleY(w)
        /\ Titled(v, base) = Titled(w, base) /\ Papered(v, base) = Papered(w, base)
    <2>1. Bordered(v, base) = Bordered(w, base) /\ TitleX(v) = TitleX(w) /\ TitleY(v) = TitleY(w)
      BY <1>1 DEF Bordered, TitleX, TitleY
    <2>2. Barred(v, base) = Barred(w, base) /\ TitleCall(v) = TitleCall(w)
      BY <1>1, <2>1 DEF Barred, TitleCall
    <2>3. Titled(v, base) = Titled(w, base)
      BY <1>1, <2>2 DEF Titled
    <2> QED  BY <1>1, <2>1, <2>2, <2>3 DEF Papered
  <1>3. /\ X(m) \in Nat /\ Y(m) \in Nat /\ w.x \in Nat /\ w.y \in Nat
        /\ w.w \in Nat /\ w.h \in Nat
    BY WindowMade, PlaceFacts, ScreenFacts
  <1>4. /\ x \in Int /\ y \in Int
        /\ Over(w, m) <=> x \in 0 .. w.w - 1 /\ y \in 0 .. w.h - 1
    BY <1>3 DEF Over, Inside
  <1>5. PICK a \in Nat : a = w.w - 2 * WM_BORDER
    BY RoomyFacts
  <1>6. PICK b \in Nat : b = w.h - WM_TITLEBAR_HEIGHT - WM_BORDER
    BY RoomyFacts
  <1> HIDE DEF R
  <1> DEFINE framed == x - WM_BORDER \in 0 .. a - 1
             bar == framed /\ y \in WM_BORDER .. WM_TITLEBAR_HEIGHT - 1
             paper == framed /\ y - WM_TITLEBAR_HEIGHT \in 0 .. b - 1
             tx == x - WM_BORDER - TitleIndent
             ty == y - (TitleY(w) - w.y)
             title == tx \in 0 .. FONT_WIDTH * Len(w.title) - 1 /\ ty \in 0 .. FONT_HEIGHT - 1
             gx == x - WM_BORDER
             gy == y - WM_TITLEBAR_HEIGHT
             grid == gx \in 0 .. v.cols * FONT_WIDTH - 1 /\ gy \in 0 .. v.rows * FONT_HEIGHT - 1
  \* Which of the layers are there.
  <1>7. /\ Inside(m, w.x + WM_BORDER, w.y + WM_BORDER, w.w - 2 * WM_BORDER,
                  WM_TITLEBAR_HEIGHT - WM_BORDER) <=> bar
        /\ Inside(m, w.x + WM_BORDER, w.y + WM_TITLEBAR_HEIGHT, w.w - 2 * WM_BORDER,
                  w.h - WM_TITLEBAR_HEIGHT - WM_BORDER) <=> paper
    BY <1>3, <1>4, <1>5, <1>6, WindowFacts, FontFacts DEF Inside
  <1>8. (\E q \in 1 .. R : TextCell(v, q, m)) <=> grid
    <2>1. v.cols \in Nat /\ v.rows \in Nat
      BY GridFits
    <2>2. gx \in Int /\ gy \in Int
      BY <1>4, WindowFacts
    <2>3. R = v.rows * v.cols
      BY DEF R
    <2>4. ASSUME NEW q \in 1 .. R
          PROVE  TextCell(v, q, m) <=> InCell(q, gx, gy, v.cols, FONT_WIDTH, FONT_HEIGHT)
      <3>1. (q - 1) % v.cols \in 0 .. v.cols - 1 /\ (q - 1) \div v.cols \in 0 .. v.rows - 1
        BY <2>1, <2>3, GridPlaces
      <3>2. PICK c \in Int : c = ((q - 1) % v.cols) * FONT_WIDTH
        BY <2>1, <3>1, FontFacts
      <3>3. PICK r \in Int : r = ((q - 1) \div v.cols) * FONT_HEIGHT
        BY <2>1, <3>1, FontFacts
      <3>4. /\ X(m) - (w.x + WM_BORDER + c) = gx - c
            /\ Y(m) - (w.y + WM_TITLEBAR_HEIGHT + r) = gy - r
        BY <1>3, <3>2, <3>3, WindowFacts
      <3> HIDE DEF gx, gy
      <3> QED  BY <1>1, <3>2, <3>3, <3>4 DEF TextCell, Inside, InCell
    <2>5. grid <=> OnGrid(gx, gy, v.cols, v.rows, FONT_WIDTH, FONT_HEIGHT)
      BY DEF OnGrid
    <2> HIDE DEF gx, gy, grid
    <2>6. \A q \in 1 .. R : InCell(q, gx, gy, v.cols, FONT_WIDTH, FONT_HEIGHT) => grid
      BY <2>1, <2>2, <2>3, <2>5, FontFacts, GridCells
    <2>7. grid => \E q \in 1 .. R : InCell(q, gx, gy, v.cols, FONT_WIDTH, FONT_HEIGHT)
      BY <2>1, <2>2, <2>3, <2>5, FontFacts, GridCovered
    <2> QED  BY <2>4, <2>6, <2>7
  <1>9. /\ grid => paper
        /\ title => bar
        /\ ~ (bar /\ paper)
        /\ bar \/ paper => Over(w, m)
        /\ bar <=> Framed(w, x, y) /\ y < WM_TITLEBAR_HEIGHT
        /\ paper <=> Framed(w, x, y) /\ ~ (y < WM_TITLEBAR_HEIGHT)
    <2>1. grid => paper
      BY <1>4, <1>5, <1>6, GridFits, WindowFacts
    <2>2. title => bar
      <3>1. PICK pt \in Nat : pt = FONT_WIDTH * Len(w.title)
        BY RoomyFacts
      <3>2. /\ pt + TitleIndent + 2 * WM_BORDER <= w.w /\ TitleY(w) \in Nat
            /\ TitleY(w) >= w.y + WM_BORDER
            /\ TitleY(w) + FONT_HEIGHT <= w.y + WM_TITLEBAR_HEIGHT
        <4>1. TitleIndent + pt + 2 * WM_BORDER <= w.w
          BY <3>1 DEF Roomy
        <4> QED  BY <1>3, <3>1, <4>1, RoomyFacts, WindowFacts
      <3>3. PICK u \in Int : u = TitleY(w) - w.y /\ u >= WM_BORDER
                             /\ u + FONT_HEIGHT <= WM_TITLEBAR_HEIGHT
        BY <1>3, <3>2, WindowFacts, FontFacts
      <3>4. title <=> tx \in 0 .. pt - 1 /\ y - u \in 0 .. FONT_HEIGHT - 1
        BY <3>1, <3>3
      <3>5. a >= pt + TitleIndent
        BY <1>3, <1>5, <3>2, WindowFacts
      <3> HIDE DEF x, y, title
      <3>6. title => framed
        BY <1>4, <3>1, <3>4, <3>5, WindowFacts
      <3>7. title => y \in WM_BORDER .. WM_TITLEBAR_HEIGHT - 1
        BY <1>4, <3>3, <3>4, WindowFacts, FontFacts
      <3> QED  BY <3>6, <3>7
    <2>3. /\ ~ (bar /\ paper)
          /\ bar \/ paper => Over(w, m)
      BY <1>3, <1>4, <1>5, <1>6, WindowFacts, FontFacts
    <2>4. Framed(w, x, y) <=> framed /\ y \in WM_BORDER .. w.h - WM_BORDER - 1
      BY <1>3, <1>4, <1>5, WindowFacts DEF Framed
    <2>5. w.h - WM_BORDER \in Int /\ b = w.h - WM_BORDER - WM_TITLEBAR_HEIGHT
          /\ w.h >= WM_TITLEBAR_HEIGHT + WM_BORDER
      BY <1>3, <1>6, WindowFacts
    <2> HIDE DEF framed, x, y
    <2>6. bar <=> Framed(w, x, y) /\ y < WM_TITLEBAR_HEIGHT
      BY <1>3, <1>4, <2>4, <2>5, WindowFacts, FontFacts
    <2>7. paper <=> Framed(w, x, y) /\ ~ (y < WM_TITLEBAR_HEIGHT)
      BY <1>3, <1>4, <2>4, <2>5, WindowFacts, FontFacts
    <2> QED  BY <2>1, <2>2, <2>3, <2>6, <2>7
  <1>10. tx = X(m) - TitleX(w) /\ ty = Y(m) - TitleY(w)
    <2>1. /\ TitleX(w) = w.x + WM_BORDER + TitleIndent /\ TitleY(w) \in Nat
          /\ WM_BORDER \in Nat /\ TitleIndent \in Nat
      BY RoomyFacts, WindowFacts
    <2> QED  BY <1>3, <2>1
  \* What the layers show.
  <1>11. Papered(v, base)[m]
           = IF m \in OnScreen /\ paper THEN "paper" ELSE Titled(w, base)[m]
    BY <1>2, <1>7 DEF Papered, Covered
  <1>12. Titled(w, base)[m]
           = IF m \in OnScreen /\ title THEN TitleAt(w, tx, ty) ELSE Barred(w, base)[m]
    BY <1>10, TitleShown
  <1>13. Barred(w, base)[m]
           = IF m \in OnScreen /\ bar THEN "titlebar" ELSE Bordered(w, base)[m]
    BY <1>7 DEF Barred, Covered
  <1>14. Bordered(w, base)[m] = IF m \in OnScreen /\ Over(w, m) THEN "border" ELSE base[m]
    BY DEF Bordered, Covered, Over
  <1>15. Lettered(v, base, v.rows * v.cols)[m]
           = IF m \in OnScreen /\ grid THEN Letter(v, m) ELSE Papered(v, base)[m]
    BY <1>8 DEF Lettered, R
  <1>16. ~ title => TitleAt(w, tx, ty) = "titlebar"
    BY DEF TitleAt
  <1>17. paper => ContentAt(w, gx, gy) = IF grid THEN Letter(v, m) ELSE "paper"
    <2>1. /\ paper => gx \in Nat /\ gy \in Nat
          /\ paper => (grid <=> gx < v.cols * FONT_WIDTH /\ gy < v.rows * FONT_HEIGHT)
      BY <1>4, <1>5, <1>6, GridFits, WindowFacts
    <2>2. Letter(v, m) = IF <<gx % FONT_WIDTH, gy % FONT_HEIGHT>> \in Glyph(w.ch)
                         THEN "text" ELSE "paper"
      BY <1>1 DEF Letter
    <2>3. ContentAt(w, gx, gy)
            = IF /\ gx < v.cols * FONT_WIDTH /\ gy < v.rows * FONT_HEIGHT
                 /\ <<gx % FONT_WIDTH, gy % FONT_HEIGHT>> \in Glyph(w.ch)
              THEN "text" ELSE "paper"
      BY DEF ContentAt
    <2> HIDE DEF gx, gy
    <2> QED  BY <2>1, <2>2, <2>3
  <1>18. View(w, x, y) = IF ~ Framed(w, x, y) THEN "border"
                         ELSE IF y < WM_TITLEBAR_HEIGHT THEN TitleAt(w, tx, ty)
                         ELSE ContentAt(w, gx, gy)
    BY DEF View
  <1> HIDE DEF framed, bar, paper, title, grid, tx, ty, gx, gy, x, y
  <1>19. Lettered(v, base, v.rows * v.cols)[m]
           = IF m \in OnScreen /\ Over(w, m) THEN View(w, x, y) ELSE base[m]
    BY <1>9, <1>11, <1>12, <1>13, <1>14, <1>15, <1>16, <1>17, <1>18
  <1> QED  BY <1>19 DEF x, y

----------------------------------------------------------------------------
(* The windows that were asked for.  pic shows the first N of them; the    *)
(* window v, on what base was before it, has made j of its calls.          *)
ShowsUpTo(t, N, pic) ==
    /\ pic = [m \in VideoMemory |-> pic[m]]
    /\ \A m \in VideoMemory :
          /\ m \notin OnScreen => pic[m] = "untouched"
          /\ m \in OnScreen =>
                /\ (\A i \in 1 .. N : ~ Over(t.wins[i], m)) => pic[m] = "desktop"
                /\ \A i \in 1 .. N :
                      Over(t.wins[i], m) /\ (\A j \in 1 .. N : j > i => ~ Over(t.wins[j], m)) =>
                          pic[m] = View(t.wins[i], X(m) - t.wins[i].x, Y(m) - t.wins[i].y)
WindowStage(v, base, j) ==
    \/ j = 0 /\ at = <<>> /\ pixels = base
    \/ j = 1 /\ at = <<>> /\ pixels = Bordered(v, base)
    \/ j = 2 /\ \E k \in 1 .. Len(v.title) + 1 :
                   StringDrawn(TitleCall(v), Barred(v, base), k)
    \/ j = 3 /\ at = <<>> /\ pixels = Titled(v, base)
    \/ j >= 4 /\ at = <<>> /\ pixels = Lettered(v, base, j - 4)
Desktop == Covered(Blank, 0, 0, Width, Height, "desktop")
WindowsDrawn(t, N, j) ==
    /\ todo = Queue(t, N, j)
    /\ N = 0 => at = <<>> /\ pixels = IF j = 0 THEN Blank ELSE Desktop
    /\ N # 0 => \E base : ShowsUpTo(t, N - 1, base) /\ WindowStage(Made(t, N), base, j)
AllRoomy(t) == \A k \in 1 .. Count(t) : Roomy(t.wins[k])
WindowsPart(t) ==
    AllRoomy(t) =>
        \E N \in 0 .. Count(t) : \E j \in 0 .. CallCount(t, N) : WindowsDrawn(t, N, j)

(* A call of a window that is made at once.                                *)
LEMMA StageGoesOn ==
    ASSUME NEW w \in Windows, Roomy(w), NEW v, v = wm_create_window(w),
           NEW j \in 0 .. CallsOf(v) - 1, NEW base, WindowStage(v, base, j),
           todo # <<>>, Head(todo) = draw_window(v)[j + 1], DrawAtOnce
    PROVE  WindowStage(v, base, j + 1)' /\ CallDone /\ j # 2
  <1>1. PICK c : c = Head(todo)
    OBVIOUS
  <1>2. PICK pic : pic = pixels
    OBVIOUS
  <1>3. /\ c.op \in {"fill", "rect", "char"} /\ CallDone /\ at' = <<>>
        /\ c.op = "fill" => pixels' = FilledBy(c, pic)
        /\ c.op = "char" => pixels' = fb_draw_char(pic, c.x, c.y, c.c, c.fg, c.bg)
    BY <1>2, <1>1 DEF DrawAtOnce, Current, CallDone, FilledBy
  <1>4. /\ v.x = w.x /\ v.y = w.y /\ v.w = w.w /\ v.h = w.h /\ v.title = w.title
        /\ v.rows \in Nat /\ v.cols \in Nat /\ v.rows * v.cols \in Nat
    BY WindowMade
  <1>5. /\ w.x \in Nat /\ w.y \in Nat /\ w.w \in Nat /\ w.h \in Nat
        /\ w.x + w.w < Wrap /\ w.y + w.h < Wrap /\ Len(w.title) \in Nat
    BY RoomyFacts
  <1>6. PICK a \in Nat : a = w.w - 2 * WM_BORDER
    BY RoomyFacts
  <1>7. PICK b \in Nat : b = w.h - WM_TITLEBAR_HEIGHT - WM_BORDER
    BY RoomyFacts
  <1>8. PICK e \in Nat : e = WM_TITLEBAR_HEIGHT - WM_BORDER
    BY RoomyFacts
  <1>9. CASE j = 0
    <2>1. c = FillRect(w.x, w.y, w.w, w.h, "border")
      BY <1>1, <1>4, <1>9, CallsListed
    <2>2. c.op = "fill" /\ FilledBy(c, pic) = Covered(pic, w.x, w.y, w.w, w.h, "border")
      BY <1>5, <2>1, FittingDone DEF Fitting
    <2>3. pic = base
      BY <1>2, <1>9 DEF WindowStage
    <2>4. pixels' = Bordered(v, base)
      BY <1>3, <1>4, <2>2, <2>3 DEF Bordered
    <2> QED  BY <1>3, <1>9, <2>4 DEF WindowStage
  <1>10. CASE j = 1
    <2>1. c = FillRect(w.x + WM_BORDER, w.y + WM_BORDER, a, e, "titlebar")
      <3>1. 1 + 1 = 2
        OBVIOUS
      <3> QED  BY <1>1, <1>4, <1>6, <1>8, <1>10, <3>1, CallsListed
    <2>2. PICK x \in Nat : x = w.x + WM_BORDER /\ x + a < Wrap
      <3>1. PICK x \in Nat : x = w.x + WM_BORDER
        BY <1>5, WindowFacts
      <3>2. a = w.w - WM_BORDER - WM_BORDER
        BY <1>5, <1>6, WindowFacts
      <3>3. Framing(w.x, x, WM_BORDER, WM_BORDER, w.w, a)
        BY <1>5, <3>1, <3>2, WindowFacts DEF Framing
      <3> QED  BY <3>1, <3>3, InsideInReach
    <2>3. PICK y \in Nat : y = w.y + WM_BORDER /\ y + e < Wrap
      <3>1. w.h >= WM_TITLEBAR_HEIGHT
        BY <1>5, RoomyFacts, WindowFacts, FontFacts
      <3>2. PICK y \in Nat : y = w.y + WM_BORDER
        BY <1>5, WindowFacts
      <3>3. y + e < Wrap
        BY <1>5, <1>8, <3>1, <3>2, WindowFacts, ScreenFacts
      <3> QED  BY <3>2, <3>3
    <2>4. c.op = "fill" /\ FilledBy(c, pic) = Covered(pic, x, y, a, e, "titlebar")
      BY <1>6, <1>7, <1>8, <2>1, <2>2, <2>3, FittingDone DEF Fitting
    <2>5. pic = Bordered(v, base)
      BY <1>2, <1>10 DEF WindowStage
    <2>6. pixels' = Barred(v, base)
      BY <1>3, <1>4, <1>6, <1>8, <2>2, <2>3, <2>4, <2>5 DEF Barred
    <2>7. PICK bar : bar = Barred(v, base)
      OBVIOUS
    <2>8. bar = [m \in VideoMemory |-> bar[m]]
      BY <2>7 DEF Barred, Covered
    <2>9. PICK t : t = TitleCall(w)
      OBVIOUS
    <2>10. t = TitleCall(v)
      BY <1>4, <2>9 DEF TitleCall, TitleX, TitleY
    <2>11. StringCall(t)
      BY <2>9, TitleInOneRow
    <2>12. StringDrawn(t, bar, 1)'
      BY <1>3, <2>6, <2>7, <2>8, <2>11, StringBegins
    <2>13. 1 \in 1 .. Len(v.title) + 1
      BY <1>4, <1>5
    <2> QED  BY <1>3, <1>10, <2>7, <2>10, <2>12, <2>13 DEF WindowStage
  <1>11. j # 2
    <2> SUFFICES ASSUME j = 2 PROVE FALSE
      OBVIOUS
    <2>1. 2 + 1 = 3
      OBVIOUS
    <2>2. c = TitleCall(v)
      BY <1>1, <1>4, <2>1, CallsListed DEF TitleCall
    <2> QED  BY <1>3, <2>2 DEF TitleCall, String
  <1>12. CASE j = 3
    <2>1. c = FillRect(w.x + WM_BORDER, w.y + WM_TITLEBAR_HEIGHT, a, b, "paper")
      <3>1. 3 + 1 = 4
        OBVIOUS
      <3> QED  BY <1>1, <1>4, <1>6, <1>7, <1>12, <3>1, CallsListed
    <2>2. PICK x \in Nat : x = w.x + WM_BORDER /\ x + a < Wrap
      <3>1. PICK x \in Nat : x = w.x + WM_BORDER
        BY <1>5, WindowFacts
      <3>2. a = w.w - WM_BORDER - WM_BORDER
        BY <1>5, <1>6, WindowFacts
      <3>3. Framing(w.x, x, WM_BORDER, WM_BORDER, w.w, a)
        BY <1>5, <3>1, <3>2, WindowFacts DEF Framing
      <3> QED  BY <3>1, <3>3, InsideInReach
    <2>3. PICK y \in Nat : y = w.y + WM_TITLEBAR_HEIGHT /\ y + b < Wrap
      <3>1. PICK y \in Nat : y = w.y + WM_TITLEBAR_HEIGHT
        BY <1>5, WindowFacts
      <3>2. Framing(w.y, y, WM_TITLEBAR_HEIGHT, WM_BORDER, w.h, b)
        BY <1>5, <1>7, <3>1, WindowFacts DEF Framing
      <3> QED  BY <3>1, <3>2, InsideInReach
    <2>4. c.op = "fill" /\ FilledBy(c, pic) = Covered(pic, x, y, a, b, "paper")
      BY <1>6, <1>7, <1>8, <2>1, <2>2, <2>3, FittingDone DEF Fitting
    <2>5. pic = Titled(v, base)
      BY <1>2, <1>12 DEF WindowStage
    <2>6. pixels' = Papered(v, base)
      BY <1>3, <1>4, <1>6, <1>7, <2>2, <2>3, <2>4, <2>5 DEF Papered
    <2>7. Lettered(v, base, 0) = Papered(v, base)
      <3>1. 1 .. 0 = {}
        OBVIOUS
      <3> QED  BY <3>1 DEF Lettered, Papered, Covered
    <2>8. (3 + 1) - 4 = 0 /\ 3 + 1 >= 4
      OBVIOUS
    <2> QED  BY <1>3, <1>12, <2>6, <2>7, <2>8 DEF WindowStage
  <1>13. CASE j >= 4
    <2>1. PICK q \in 1 .. v.rows * v.cols : q = j - 3
      BY <1>4, <1>13 DEF CallsOf
    <2>2. j + 1 = 4 + q /\ j - 4 = q - 1 /\ (j + 1) - 4 = q /\ j + 1 >= 4
      BY <1>4, <1>13, <2>1
    <2>3. c = TextAt(v, (q - 1) \div v.cols, (q - 1) % v.cols)
      BY <1>1, <1>4, <2>2, CallsListed
    <2>4. pic = Lettered(v, base, q - 1)
      BY <1>2, <1>13, <2>2 DEF WindowStage
    <2>5. TextCall(v, q, c)
      BY <2>3 DEF TextCall
    <2>6. LetterDrawn(v, q, c, pic)
      BY <2>5, LettersDrawn
    <2>7. pixels' = [m \in VideoMemory |->
                       IF m \in OnScreen /\ TextCell(v, q, m) THEN Letter(v, m) ELSE pic[m]]
      BY <1>3, <2>6 DEF LetterDrawn
    <2>8. \A i : i \in 1 .. q <=> i \in 1 .. q - 1 \/ i = q
      BY <1>4, <2>1
    <2>9. ASSUME NEW m \in VideoMemory
          PROVE  (IF m \in OnScreen /\ TextCell(v, q, m) THEN Letter(v, m) ELSE pic[m])
                   = Lettered(v, base, q)[m]
      BY <2>4, <2>8 DEF Lettered
    <2>10. pixels' = Lettered(v, base, q)
      <3>1. Lettered(v, base, q) = [m \in VideoMemory |-> Lettered(v, base, q)[m]]
        BY DEF Lettered
      <3> QED  BY <2>7, <2>9, <3>1
    <2> QED  BY <1>3, <1>11, <2>2, <2>10 DEF WindowStage
  <1>14. j \in Nat
    OBVIOUS
  <1> QED  BY <1>3, <1>9, <1>10, <1>11, <1>12, <1>13, <1>14

(* The title of a window, drawn character by character.                    *)
LEMMA TitleGoesOn ==
    ASSUME NEW w \in Windows, Roomy(w), NEW v, v = wm_create_window(w), NEW base,
           WindowStage(v, base, 2), todo # <<>>, Head(todo) = TitleCall(v), StringStep
    PROVE  \/ WindowStage(v, base, 2)' /\ todo' = todo
           \/ WindowStage(v, base, 3)' /\ CallDone
  <1>1. PICK t : t = TitleCall(w)
    OBVIOUS
  <1>2. t = TitleCall(v) /\ v.title = w.title
    <2>1. v.x = w.x /\ v.y = w.y /\ v.title = w.title
      BY WindowMade
    <2> QED  BY <1>1, <2>1 DEF TitleCall, TitleX, TitleY
  <1>3. StringCall(t) /\ t.str = v.title
    BY <1>1, <1>2, TitleInOneRow
  <1>4. PICK bar : bar = Barred(v, base)
    OBVIOUS
  <1>5. PICK N : N = Len(v.title)
    OBVIOUS
  <1>6. N \in Nat
    BY <1>2, <1>5, RoomyFacts
  <1>7. PICK k \in 1 .. N + 1 : StringDrawn(t, bar, k)
    BY <1>2, <1>4, <1>5 DEF WindowStage
  <1>8. \/ k <= N /\ StringDrawn(t, bar, k + 1)' /\ todo' = todo
        \/ k = N + 1 /\ CallDone /\ UNCHANGED pixels
    BY <1>2, <1>3, <1>5, <1>7, StringGoesOn
  <1>9. CASE k <= N /\ StringDrawn(t, bar, k + 1)' /\ todo' = todo
    <2>1. k + 1 \in 1 .. N + 1
      BY <1>6, <1>9
    <2> QED  BY <1>2, <1>4, <1>5, <1>9, <2>1 DEF WindowStage
  <1>10. CASE k = N + 1 /\ CallDone /\ UNCHANGED pixels
    <2>1. pixels' = Strings(t, bar, N + 1)
      BY <1>7, <1>10 DEF StringDrawn
    <2>2. pixels' = Titled(v, base)
      BY <1>2, <1>4, <1>5, <2>1 DEF Titled
    <2> QED  BY <1>10, <2>2 DEF WindowStage, CallDone
  <1> QED  BY <1>8, <1>9, <1>10

(* Which calls those of a window are.                                      *)
LEMMA CallOps ==
    ASSUME NEW v, v.rows \in Nat, v.cols \in Nat, v.rows * v.cols \in Nat,
           NEW j \in 1 .. CallsOf(v), NEW c, c = draw_window(v)[j]
    PROVE  /\ c.op \in {"fill", "string", "char"}
           /\ c.op = "string" <=> j = 3
           /\ j = 3 => c = TitleCall(v)
  <1>1. PICK k \in Nat : k = v.rows * v.cols
    OBVIOUS
  <1>2. j \in {1, 2, 3, 4} \/ \E i \in 1 .. k : j = 4 + i
    <2>1. j \in 1 .. 4 + k
      BY <1>1 DEF CallsOf
    <2>2. (j - 4 \in 1 .. k /\ j = 4 + (j - 4)) \/ j \in {1, 2, 3, 4}
      BY <2>1
    <2> QED  BY <2>2
  <1>3. j \in {1, 2, 4} => c.op = "fill"
    <2>1. \A x, y, a, b, color : FillRect(x, y, a, b, color).op = "fill"
      BY DEF FillRect
    <2>2. PICK calls : calls = draw_window(v)
      OBVIOUS
    <2>3. /\ \E x, y, a, b, color : calls[1] = FillRect(x, y, a, b, color)
          /\ \E x, y, a, b, color : calls[2] = FillRect(x, y, a, b, color)
          /\ \E x, y, a, b, color : calls[4] = FillRect(x, y, a, b, color)
      BY <2>2, CallsListed, Zenon
    <2>4. calls[1].op = "fill" /\ calls[2].op = "fill" /\ calls[4].op = "fill"
      BY <2>1, <2>3
    <2> QED  BY <2>2, <2>4
  <1>4. j = 3 => c = TitleCall(v) /\ c.op = "string"
    BY CallsListed DEF TitleCall, String
  <1>5. (\E i \in 1 .. k : j = 4 + i) => c.op = "char" /\ j # 3
    <2>1. ASSUME NEW i \in 1 .. k, j = 4 + i PROVE c.op = "char" /\ j # 3
      <3>1. \A row, col : TextAt(v, row, col).op = "char"
        BY DEF TextAt, Char
      <3>2. draw_window(v)[4 + i] = TextAt(v, (i - 1) \div v.cols, (i - 1) % v.cols)
        BY <1>1, CallsListed
      <3>3. j # 3
        BY <2>1
      <3> QED  BY <2>1, <3>1, <3>2, <3>3
    <2> QED  BY <2>1
  <1> QED  BY <1>2, <1>3, <1>4, <1>5

(* The desktop, before there is any window on it.                          *)
LEMMA DesktopDrawn ==
    ASSUME NEW c, c = Clear("desktop")
    PROVE  /\ c.op = "fill" /\ FilledBy(c, Blank) = Desktop
           /\ \A t : ShowsUpTo(t, 0, Desktop)
  <1>1. Fitting(c, 0, 0, Width, Height, "desktop")
    <2>1. Width \in Nat /\ Height \in Nat /\ 0 + Width < Wrap /\ 0 + Height < Wrap
      BY ScreenFacts
    <2> QED  BY <2>1 DEF Fitting, Clear
  <1>2. c.op = "fill" /\ FilledBy(c, Blank) = Desktop
    BY <1>1, FittingDone DEF Desktop
  <1>3. ASSUME NEW m \in VideoMemory
        PROVE  Desktop[m] = IF m \in OnScreen THEN "desktop" ELSE "untouched"
    <2>1. m \in OnScreen => Inside(m, 0, 0, Width, Height)
      BY PlaceFacts, ScreenFacts DEF OnScreen, Inside
    <2> QED  BY <2>1 DEF Desktop, Covered, Blank
  <1>4. Desktop = [m \in VideoMemory |-> Desktop[m]]
    BY DEF Desktop, Covered
  <1>5. \A t : ShowsUpTo(t, 0, Desktop)
    <2> TAKE t
    <2>1. 1 .. 0 = {}
      OBVIOUS
    <2> QED  BY <1>3, <1>4, <2>1 DEF ShowsUpTo
  <1> QED  BY <1>2, <1>5

(* A window that has made all of its calls lies over those before it.      *)
LEMMA StageEnds ==
    ASSUME NEW t \in WindowRequests, AllRoomy(t), NEW N \in 1 .. Count(t),
           NEW base, ShowsUpTo(t, N - 1, base),
           WindowStage(Made(t, N), base, CallCount(t, N))
    PROVE  at = <<>> /\ ShowsUpTo(t, N, pixels)
  <1>1. PICK w : w = t.wins[N]
    OBVIOUS
  <1>2. PICK v : v = wm_create_window(w)
    OBVIOUS
  <1>3. PICK pic : pic = pixels
    OBVIOUS
  <1>4. w \in Windows /\ Roomy(w) /\ N \in Nat /\ N # 0
    BY <1>1, RequestFacts DEF AllRoomy
  <1>5. v.rows \in Nat /\ v.cols \in Nat /\ v.rows * v.cols \in Nat
    BY <1>2, <1>4, WindowMade
  <1>6. CallCount(t, N) = 4 + v.rows * v.cols
    BY <1>1, <1>2, <1>4 DEF CallCount, CallsOf, Made
  <1>7. at = <<>> /\ pic = Lettered(v, base, v.rows * v.cols)
    <2>1. PICK k \in Nat : k = v.rows * v.cols
      BY <1>5
    <2>2. WindowStage(v, base, 4 + k)
      BY <1>1, <1>2, <1>6, <2>1 DEF Made
    <2>3. ~ (4 + k = 0 \/ 4 + k = 1 \/ 4 + k = 2 \/ 4 + k = 3) /\ (4 + k) - 4 = k
      BY <2>1
    <2> QED  BY <1>3, <2>1, <2>2, <2>3 DEF WindowStage
  <1>8. \A m \in VideoMemory :
           pic[m] = IF m \in OnScreen /\ Over(w, m) THEN View(w, X(m) - w.x, Y(m) - w.y)
                    ELSE base[m]
    BY <1>2, <1>4, <1>7, WindowShown
  <1>9. pic = [m \in VideoMemory |-> pic[m]]
    BY <1>7 DEF Lettered
  <1>10. \A i : i \in 1 .. N <=> i \in 1 .. N - 1 \/ i = N
    BY <1>4
  <1>11. ASSUME NEW m \in VideoMemory, m \in OnScreen
         PROVE  /\ (\A i \in 1 .. N : ~ Over(t.wins[i], m)) => pic[m] = "desktop"
                /\ \A i \in 1 .. N :
                      Over(t.wins[i], m) /\ (\A j \in 1 .. N : j > i => ~ Over(t.wins[j], m)) =>
                         pic[m] = View(t.wins[i], X(m) - t.wins[i].x, Y(m) - t.wins[i].y)
    <2>1. CASE Over(w, m)
      <3>1. \A i \in 1 .. N - 1 : N > i
        BY <1>4
      <3>2. N \in 1 .. N /\ pic[m] = View(w, X(m) - w.x, Y(m) - w.y)
        BY <1>4, <1>8, <1>11, <2>1
      <3> QED  BY <1>1, <1>10, <2>1, <3>1, <3>2
    <2>2. CASE ~ Over(w, m)
      <3>1. pic[m] = base[m]
        BY <1>8, <2>2
      <3>2. ~ Over(t.wins[N], m)
        BY <1>1, <2>2
      <3> QED  BY <1>10, <1>11, <3>1, <3>2 DEF ShowsUpTo
    <2> QED  BY <2>1, <2>2
  <1>12. ASSUME NEW m \in VideoMemory, m \notin OnScreen
         PROVE  pic[m] = "untouched"
    BY <1>8, <1>12 DEF ShowsUpTo
  <1> QED  BY <1>3, <1>7, <1>9, <1>11, <1>12 DEF ShowsUpTo

(* All the calls behind N windows have been made.                          *)
LEMMA CallsEnd ==
    ASSUME NEW t \in WindowRequests, AllRoomy(t), NEW N \in 0 .. Count(t),
           WindowsDrawn(t, N, CallCount(t, N))
    PROVE  at = <<>> /\ ShowsUpTo(t, N, pixels)
  <1>1. CASE N = 0
    <2>1. CallCount(t, N) # 0
      BY RequestFacts
    <2>2. PICK pic : pic = pixels
      OBVIOUS
    <2>3. at = <<>> /\ pic = Desktop
      BY <1>1, <2>1, <2>2 DEF WindowsDrawn
    <2>4. ShowsUpTo(t, 0, pic)
      BY <2>3, DesktopDrawn
    <2> QED  BY <1>1, <2>2, <2>3, <2>4
  <1>2. CASE N # 0
    <2>1. N \in 1 .. Count(t)
      BY <1>2, RequestFacts
    <2>2. PICK base : /\ ShowsUpTo(t, N - 1, base)
                      /\ WindowStage(Made(t, N), base, CallCount(t, N))
      BY <1>2 DEF WindowsDrawn
    <2> QED  BY <2>1, <2>2, StageEnds
  <1> QED  BY <1>1, <1>2

(* The windows' part of the invariant, when they have just been asked for. *)
LEMMA WindowsBegin ==
    ASSUME NEW t \in WindowRequests, todo' = wm_render_all(Created(t.wins)),
           at' = <<>>, pixels' = Blank
    PROVE  WindowsPart(t)'
  <1>1. todo' = Queue(t, 0, 0)
    BY QueueStarts
  <1>2. 0 \in 0 .. Count(t) /\ 0 \in 0 .. CallCount(t, 0)
    BY RequestFacts
  <1>3. WindowsDrawn(t, 0, 0)'
    BY <1>1 DEF WindowsDrawn
  <1> QED  BY <1>2, <1>3 DEF WindowsPart

(* The calls for one window, or for the desktop, go on.                    *)
LEMMA CallsGoOn ==
    ASSUME NEW t \in WindowRequests, AllRoomy(t), NEW N \in 0 .. Count(t),
           NEW j \in 0 .. CallCount(t, N) - 1, WindowsDrawn(t, N, j),
           DrawWindow \/ DrawAtOnce \/ StringStep \/ LineStep
    PROVE  WindowsDrawn(t, N, j)' \/ WindowsDrawn(t, N, j + 1)'
  <1>1. PICK h : h = todo
    OBVIOUS
  <1>2. h = Queue(t, N, j)
    BY <1>1 DEF WindowsDrawn
  <1>3. h # <<>> /\ Head(h) = WindowCalls(t, N)[j + 1] /\ Tail(h) = Queue(t, N, j + 1)
    BY <1>2, QueueCalls
  <1>4. PICK c : c = Head(h)
    OBVIOUS
  <1>5. /\ DrawWindow => c.op = "window"
        /\ StringStep => c.op = "string"
        /\ LineStep => c.op = "line"
        /\ DrawAtOnce => c.op \in {"fill", "rect", "char"}
    BY <1>1, <1>4 DEF DrawWindow, StringStep, LineStep, DrawAtOnce, Current
  <1>6. CallDone => todo' = Queue(t, N, j + 1) /\ at' = <<>>
    BY <1>1, <1>3 DEF CallDone
  <1>7. CASE N = 0
    <2>1. j = 0 /\ c = Clear("desktop") /\ CallCount(t, N) = 1
      BY <1>3, <1>4, <1>7 DEF CallCount, WindowCalls
    <2>2. c.op = "fill" /\ FilledBy(c, Blank) = Desktop
      BY <2>1, DesktopDrawn
    <2>3. DrawAtOnce /\ pixels = Blank
      BY <1>5, <1>7, <2>1, <2>2 DEF WindowsDrawn
    <2>4. CallDone /\ pixels' = FilledBy(c, Blank)
      BY <1>1, <1>4, <2>2, <2>3 DEF DrawAtOnce, FilledBy
    <2> QED  BY <1>6, <1>7, <2>1, <2>2, <2>4 DEF WindowsDrawn
  <1>8. CASE N # 0
    <2>1. PICK base : ShowsUpTo(t, N - 1, base) /\ WindowStage(Made(t, N), base, j)
      BY <1>8 DEF WindowsDrawn
    <2>2. PICK w \in Windows : w = t.wins[N] /\ Roomy(w)
      BY <1>8, RequestFacts DEF AllRoomy
    <2>3. PICK v : v = wm_create_window(w)
      OBVIOUS
    <2>4. v = Made(t, N) /\ CallCount(t, N) = CallsOf(v)
      BY <1>8, <2>2, <2>3 DEF Made, CallCount
    <2>5. v.rows \in Nat /\ v.cols \in Nat /\ v.rows * v.cols \in Nat /\ CallsOf(v) \in Nat
      BY <2>2, <2>3, WindowMade, CallsListed
    <2>6. c = draw_window(v)[j + 1] /\ j + 1 \in 1 .. CallsOf(v) /\ j \in Nat
      BY <1>3, <1>4, <1>8, <2>4, <2>5 DEF WindowCalls
    <2>7. /\ c.op \in {"fill", "string", "char"}
          /\ c.op = "string" <=> j = 2
          /\ j = 2 => c = TitleCall(v)
      <3>1. PICK k \in 1 .. CallsOf(v) : k = j + 1 /\ (k = 3 <=> j = 2)
        BY <2>6
      <3> QED  BY <2>5, <2>6, <3>1, CallOps
    <2>8. CASE j = 2
      <3>1. StringStep
        BY <1>5, <2>7, <2>8
      <3>2. todo # <<>> /\ Head(todo) = TitleCall(v) /\ WindowStage(v, base, 2)
        BY <1>1, <1>3, <1>4, <2>1, <2>4, <2>7, <2>8
      <3>3. \/ WindowStage(v, base, 2)' /\ todo' = todo
            \/ WindowStage(v, base, 3)' /\ CallDone
        BY <2>2, <2>3, <3>1, <3>2, TitleGoesOn
      <3>4. CASE WindowStage(v, base, 2)' /\ todo' = todo
        BY <1>1, <1>2, <1>8, <2>1, <2>4, <2>8, <3>4 DEF WindowsDrawn
      <3>5. CASE WindowStage(v, base, 3)' /\ CallDone
        <4>1. 2 + 1 = 3
          OBVIOUS
        <4> QED  BY <1>6, <1>8, <2>1, <2>4, <2>8, <3>5, <4>1 DEF WindowsDrawn
      <3> QED  BY <3>3, <3>4, <3>5
    <2>9. CASE j # 2
      <3>1. DrawAtOnce
        BY <1>5, <2>7, <2>9
      <3>2. /\ todo # <<>> /\ Head(todo) = draw_window(v)[j + 1] /\ WindowStage(v, base, j)
            /\ j \in 0 .. CallsOf(v) - 1
        BY <1>1, <1>3, <1>4, <2>1, <2>4, <2>6
      <3>3. WindowStage(v, base, j + 1)' /\ CallDone
        BY <2>2, <2>3, <3>1, <3>2, StageGoesOn
      <3> QED  BY <1>6, <1>8, <2>1, <2>4, <3>3 DEF WindowsDrawn
    <2> QED  BY <2>8, <2>9
  <1> QED  BY <1>7, <1>8

(* Every call keeps it.                                                    *)
LEMMA WindowsGoOn ==
    ASSUME asked \in WindowRequests, WindowsPart(asked),
           DrawWindow \/ DrawAtOnce \/ StringStep \/ LineStep
    PROVE  WindowsPart(asked)'
  <1>1. PICK t \in WindowRequests : t = asked
    OBVIOUS
  <1>2. asked' = t
    BY <1>1 DEF DrawWindow, DrawAtOnce, StringStep, LineStep
  <1> SUFFICES ASSUME AllRoomy(t) PROVE WindowsPart(t)'
    BY <1>2 DEF WindowsPart
  <1>3. PICK N \in 0 .. Count(t) :
          \E j \in 0 .. CallCount(t, N) : WindowsDrawn(t, N, j)
    BY <1>1 DEF WindowsPart
  <1>4. PICK j \in 0 .. CallCount(t, N) : WindowsDrawn(t, N, j)
    BY <1>3
  <1>5. Count(t) \in Nat /\ N \in Nat /\ j \in Nat /\ CallCount(t, N) \in Nat \ {0}
    BY RequestFacts
  <1>6. CASE j # CallCount(t, N)
    <2>1. j \in 0 .. CallCount(t, N) - 1 /\ j + 1 \in 0 .. CallCount(t, N)
      BY <1>5, <1>6
    <2>2. WindowsDrawn(t, N, j)' \/ WindowsDrawn(t, N, j + 1)'
      BY <1>4, <2>1, CallsGoOn
    <2> QED  BY <2>1, <2>2 DEF WindowsPart
  <1>7. CASE j = CallCount(t, N) /\ N # Count(t)
    <2>1. PICK h : h = todo
      OBVIOUS
    <2>2. h = Queue(t, N, CallCount(t, N))
      BY <1>4, <1>7, <2>1 DEF WindowsDrawn
    <2>3. N < Count(t) /\ N + 1 \in 0 .. Count(t) /\ (N + 1) - 1 = N /\ N + 1 # 0
      BY <1>5, <1>7
    <2>4. /\ h # <<>> /\ Head(h) = Window(Made(t, N + 1))
          /\ draw_window(Made(t, N + 1)) \o Tail(h) = Queue(t, N + 1, 0)
      BY <2>2, <2>3, QueueWindow
    <2>5. Head(h).op = "window" /\ Head(h).win = Made(t, N + 1)
      BY <2>4 DEF Window
    <2>6. DrawWindow
      BY <2>1, <2>5 DEF DrawAtOnce, StringStep, LineStep, Current
    <2>7. todo' = Queue(t, N + 1, 0) /\ UNCHANGED <<pixels, at>>
      BY <2>1, <2>4, <2>5, <2>6 DEF DrawWindow
    <2>8. PICK pic : pic = pixels
      OBVIOUS
    <2>9. at = <<>> /\ ShowsUpTo(t, N, pic)
      BY <1>4, <1>7, <2>8, CallsEnd
    <2>10. WindowStage(Made(t, N + 1), pic, 0)'
      BY <2>7, <2>8, <2>9 DEF WindowStage
    <2>11. WindowsDrawn(t, N + 1, 0)'
      BY <2>3, <2>7, <2>9, <2>10 DEF WindowsDrawn
    <2>12. 0 \in 0 .. CallCount(t, N + 1)
      BY <2>3, RequestFacts
    <2> QED  BY <2>3, <2>11, <2>12 DEF WindowsPart
  <1>8. CASE j = CallCount(t, N) /\ N = Count(t)
    <2>1. PICK h : h = todo
      OBVIOUS
    <2>2. h = Queue(t, Count(t), CallCount(t, Count(t)))
      BY <1>4, <1>8, <2>1 DEF WindowsDrawn
    <2>3. h = <<>>
      BY <2>2, QueueEnds
    <2> QED  BY <2>1, <2>3 DEF DrawWindow, DrawAtOnce, StringStep, LineStep, Current
  <1> QED  BY <1>6, <1>7, <1>8

(* When there is nothing left to do, all windows are shown.                *)
LEMMA WindowsAreShown ==
    ASSUME NEW t \in WindowRequests, WindowsPart(t), todo = <<>>
    PROVE  ShowsWindows(t)
  <1>1. Count(t) = Least(Len(t.wins), WM_MAX_WINDOWS) /\ Count(t) \in Nat
    BY RequestFacts DEF Count
  <1> SUFFICES ASSUME AllRoomy(t) PROVE ShowsWindows(t)
    BY <1>1 DEF ShowsWindows, AllRoomy
  <1>2. PICK N \in 0 .. Count(t) :
          \E j \in 0 .. CallCount(t, N) : WindowsDrawn(t, N, j)
    BY DEF WindowsPart
  <1>3. PICK j \in 0 .. CallCount(t, N) : WindowsDrawn(t, N, j)
    BY <1>2
  <1>4. PICK h : h = todo
    OBVIOUS
  <1>5. h = Queue(t, N, j) /\ h = <<>>
    BY <1>3, <1>4 DEF WindowsDrawn
  <1>6. j = CallCount(t, N)
    <2> SUFFICES ASSUME j # CallCount(t, N) PROVE FALSE
      OBVIOUS
    <2>1. j \in 0 .. CallCount(t, N) - 1
      BY RequestFacts
    <2> QED  BY <1>5, <2>1, QueueCalls
  <1>7. N = Count(t)
    <2> SUFFICES ASSUME N # Count(t) PROVE FALSE
      OBVIOUS
    <2>1. N < Count(t)
      BY <1>1
    <2> QED  BY <1>5, <1>6, <2>1, QueueWindow
  <1>8. ShowsUpTo(t, Count(t), pixels)
    BY <1>3, <1>6, <1>7, CallsEnd
  <1> QED  BY <1>1, <1>8 DEF ShowsUpTo, ShowsWindows

----------------------------------------------------------------------------
(* Every request, while it is carried out.                                 *)
RectPart(t) ==
    \/ todo = <<t>> /\ pixels = Blank
    \/ todo = <<>> /\ pixels = fb_draw_rect(Blank, t.x, t.y, t.w, t.h, t.color)
DrawInv ==
    /\ at # <<>> => todo # <<>> /\ Head(todo).op \in {"string", "line"}
    /\ \/ asked = Nothing /\ todo = <<>> /\ pixels = Blank
       \/ asked \in RectRequests /\ RectPart(asked)
       \/ asked \in LineRequests /\ LinePart(asked)
       \/ asked \in StringRequests /\ StringPart(asked)
       \/ asked \in WindowRequests /\ WindowsPart(asked)

(* A request establishes the invariant.                                    *)
LEMMA CallsBegin ==
    ASSUME DrawInv, CallDraw
    PROVE  DrawInv'
  <1>1. asked = Nothing /\ todo = <<>> /\ pixels = Blank /\ at = <<>>
    <2>1. asked = Nothing
      BY DEF CallDraw
    <2>2. Nothing \notin RectRequests \cup LineRequests \cup StringRequests \cup WindowRequests
      BY DEF Nothing, RectRequests, LineRequests, StringRequests, WindowRequests
    <2> QED  BY <2>1, <2>2 DEF DrawInv
  <1>2. PICK t \in Requests : t = asked'
    BY DEF CallDraw
  <1>3. /\ todo' = IF t.op = "windows" THEN wm_render_all(Created(t.wins)) ELSE <<t>>
        /\ pixels' = Blank /\ at' = <<>>
    BY <1>1, <1>2 DEF CallDraw, Blank
  <1>4. t \in RectRequests \cup LineRequests \cup StringRequests \cup WindowRequests
    BY RequestsAssumption
  <1>5. CASE t \in RectRequests
    <2>1. todo' = <<t>>
      BY <1>3, <1>5 DEF RectRequests
    <2>2. RectPart(t)'
      BY <1>3, <2>1 DEF RectPart, Blank
    <2> QED  BY <1>2, <1>3, <1>5, <2>2 DEF DrawInv
  <1>6. CASE t \in LineRequests
    <2>1. todo' = <<t>>
      BY <1>3, <1>6 DEF LineRequests
    <2>2. LinePart(t)'
      BY <1>3, <1>6, <2>1, LineBegins
    <2> QED  BY <1>2, <1>3, <1>6, <2>2 DEF DrawInv
  <1>7. CASE t \in StringRequests
    <2>1. todo' = <<t>>
      BY <1>3, <1>7 DEF StringRequests
    <2>2. StringPart(t)'
      BY <1>3, <1>7, <2>1, StringPartBegins
    <2> QED  BY <1>2, <1>3, <1>7, <2>2 DEF DrawInv
  <1>8. CASE t \in WindowRequests
    <2>1. todo' = wm_render_all(Created(t.wins))
      BY <1>3, <1>8 DEF WindowRequests
    <2>2. WindowsPart(t)'
      BY <1>3, <1>8, <2>1, WindowsBegin
    <2> QED  BY <1>2, <1>3, <1>8, <2>2 DEF DrawInv
  <1> QED  BY <1>4, <1>5, <1>6, <1>7, <1>8

(* Carrying it out keeps the invariant.                                    *)
LEMMA CallsAreCarriedOut ==
    ASSUME DrawInv, DrawWindow \/ DrawAtOnce \/ StringStep \/ LineStep
    PROVE  DrawInv'
  <1>1. asked' = asked /\ todo # <<>>
    BY DEF DrawWindow, DrawAtOnce, StringStep, LineStep, Current
  <1>2. at' # <<>> => todo' # <<>> /\ Head(todo').op \in {"string", "line"}
    <2>1. CASE DrawWindow
      BY <2>1 DEF DrawInv, DrawWindow, Current
    <2>2. CASE DrawAtOnce
      BY <2>2 DEF DrawAtOnce, CallDone
    <2>3. CASE StringStep
      <3>1. (todo' = todo /\ todo # <<>> /\ Head(todo).op = "string") \/ at' = <<>>
        BY <2>3 DEF StringStep, CallDone, Current
      <3> QED  BY <3>1
    <2>4. CASE LineStep
      <3>1. (todo' = todo /\ todo # <<>> /\ Head(todo).op = "line") \/ at' = <<>>
        BY <2>4 DEF LineStep, CallDone, Current
      <3> QED  BY <3>1
    <2> QED  BY <2>1, <2>2, <2>3, <2>4
  <1>3. CASE asked \in RectRequests /\ RectPart(asked)
    <2>1. PICK t \in RectRequests : t = asked
      BY <1>3
    <2>2. todo = <<t>> /\ pixels = Blank
      BY <1>1, <1>3, <2>1 DEF RectPart
    <2>3. Head(todo) = t /\ Tail(todo) = <<>> /\ t.op = "rect"
      BY <2>2 DEF RectRequests
    <2>4. DrawAtOnce
      BY <2>3 DEF DrawWindow, StringStep, LineStep, Current
    <2>5. todo' = <<>> /\ pixels' = fb_draw_rect(Blank, t.x, t.y, t.w, t.h, t.color)
      BY <2>2, <2>3, <2>4 DEF DrawAtOnce, CallDone
    <2>6. RectPart(t)'
      BY <2>5 DEF RectPart, Blank, fb_draw_rect
    <2> QED  BY <1>1, <1>2, <2>1, <2>6 DEF DrawInv
  <1>4. CASE asked \in LineRequests /\ LinePart(asked)
    <2>1. todo = <<asked>> /\ asked.op = "line"
      BY <1>1, <1>4 DEF LinePart, LineRequests
    <2>2. LineStep
      BY <2>1 DEF DrawWindow, StringStep, DrawAtOnce, Current
    <2> QED  BY <1>1, <1>2, <1>4, <2>2, LineGoesOn DEF DrawInv
  <1>5. CASE asked \in StringRequests /\ StringPart(asked)
    <2>1. PICK t \in StringRequests : t = asked
      BY <1>5
    <2>2. StringPart(t)'
      <3>1. CASE StringStep
        BY <1>1, <1>5, <2>1, <3>1, StringPartGoesOn
      <3>2. CASE ~ StringStep
        <4>1. ~ InReach(t)
          <5> SUFFICES ASSUME InReach(t) PROVE FALSE
            OBVIOUS
          <5>1. todo = <<t>> /\ t.op = "string"
            BY <1>1, <1>5, <2>1 DEF StringPart, StringRequests
          <5> QED  BY <3>2, <5>1 DEF DrawWindow, DrawAtOnce, LineStep, Current
        <4> QED  BY <4>1 DEF StringPart
      <3> QED  BY <3>1, <3>2
    <2> QED  BY <1>1, <1>2, <2>1, <2>2 DEF DrawInv
  <1>6. CASE asked \in WindowRequests /\ WindowsPart(asked)
    BY <1>1, <1>2, <1>6, WindowsGoOn DEF DrawInv
  <1> QED  BY <1>1, <1>3, <1>4, <1>5, <1>6 DEF DrawInv

(* Drawing keeps its invariant: every request is at one of its loops'      *)
(* places, with the picture that belongs there.                            *)
THEOREM DrawingInvariant == DrawSpec => []DrawInv
  <1>1. DrawInit => DrawInv
    BY DEF DrawInit, DrawInv
  <1>2. DrawInv /\ [DrawNext]_drawVars => DrawInv'
    <2> SUFFICES ASSUME DrawInv, [DrawNext]_drawVars PROVE DrawInv'
      OBVIOUS
    <2>1. CASE CallDraw
      BY <2>1, CallsBegin
    <2>2. CASE DrawWindow \/ DrawAtOnce \/ StringStep \/ LineStep
      BY <2>2, CallsAreCarriedOut
    <2>3. CASE ReturnDraw
      <3>1. todo = <<>> /\ todo' = <<>> /\ at' = at /\ asked' = Nothing /\ pixels' = Blank
        BY <2>3 DEF ReturnDraw, Drawn
      <3>2. at = <<>>
        BY <3>1 DEF DrawInv
      <3> QED  BY <3>1, <3>2 DEF DrawInv, Blank, Nothing
    <2>4. CASE UNCHANGED drawVars
      BY <2>4 DEF drawVars, DrawInv, RectPart, LinePart, LineDrawn, AtTrack, StringPart,
                  StringDrawn, WindowsPart, WindowsDrawn, WindowStage
    <2> QED  BY <2>1, <2>2, <2>3, <2>4 DEF DrawNext
  <1> QED  BY <1>1, <1>2, PTL DEF DrawSpec

(* Whatever is asked for, outlines, lines, strings and windows are drawn   *)
(* as their properties say, pixel by pixel, and nothing else is written.   *)
THEOREM PicturesAreRight == DrawSpec => []DrawsWhatWasAsked
  <1>1. DrawInv => DrawsWhatWasAsked
    <2> SUFFICES ASSUME DrawInv, Drawn PROVE DrawsWhatWasAsked
      BY DEF DrawsWhatWasAsked
    <2>1. asked # Nothing /\ todo = <<>>
      BY DEF Drawn
    <2>2. CASE asked \in RectRequests /\ RectPart(asked)
      <3>1. PICK t \in RectRequests : t = asked
        BY <2>2
      <3>2. pixels = fb_draw_rect(Blank, t.x, t.y, t.w, t.h, t.color) /\ t.op = "rect"
        BY <2>1, <2>2, <3>1 DEF RectPart, RectRequests
      <3>3. IsOutline(t)
        BY <3>2, OutlineDrawn
      <3> QED  BY <3>1, <3>2, <3>3 DEF DrawsWhatWasAsked
    <2>3. CASE asked \in LineRequests /\ LinePart(asked)
      <3>1. PICK t \in LineRequests : t = asked
        BY <2>3
      <3>2. IsLine(t) /\ t.op = "line"
        BY <2>1, <2>3, <3>1, LineIsDrawn DEF LineRequests
      <3> QED  BY <3>1, <3>2 DEF DrawsWhatWasAsked
    <2>4. CASE asked \in StringRequests /\ StringPart(asked)
      <3>1. PICK t \in StringRequests : t = asked
        BY <2>4
      <3>2. IsLaidOut(t) /\ t.op = "string"
        BY <2>1, <2>4, <3>1, StringIsLaidOut DEF StringRequests
      <3> QED  BY <3>1, <3>2 DEF DrawsWhatWasAsked
    <2>5. CASE asked \in WindowRequests /\ WindowsPart(asked)
      <3>1. PICK t \in WindowRequests : t = asked
        BY <2>5
      <3>2. ShowsWindows(t) /\ t.op = "windows"
        BY <2>1, <2>5, <3>1, WindowsAreShown DEF WindowRequests
      <3> QED  BY <3>1, <3>2 DEF DrawsWhatWasAsked
    <2> QED  BY <2>1, <2>2, <2>3, <2>4, <2>5 DEF DrawInv
  <1> QED  BY <1>1, DrawingInvariant, PTL

----------------------------------------------------------------------------
(* kernel/kprintf.c.  The recursive functions of the model first: that     *)
(* they exist, and what every step of them does.                           *)

(* Every set of numbers has a least one; induction is by it.               *)
LEMMA LeastNatural ==
    ASSUME NEW T \in SUBSET Nat, T # {}
    PROVE  \E x \in T : \A y \in T : x <= y
  <1>1. \E x \in T : \A y \in T : ~ (<<y, x>> \in OpToRel(<, Nat))
    BY NatLessThanWellFounded, WFMin
  <1>2. PICK x \in T : \A y \in T : ~ (<<y, x>> \in OpToRel(<, Nat))
    BY <1>1
  <1>3. ASSUME NEW y \in T PROVE x <= y
    <2>1. x \in Nat /\ y \in Nat
      OBVIOUS
    <2>2. ~ (y < x)
      BY <1>2, <2>1 DEF OpToRel
    <2> QED  BY <2>1, <2>2
  <1> QED  BY <1>3

(* What holds at 0 and goes on to every next number up to N holds up to N: *)
(* T is the set of numbers that it holds for.                              *)
LEMMA UpTo ==
    ASSUME NEW N \in Nat, NEW T, 0 \in T,
           \A k \in 1 .. N : k - 1 \in T => k \in T
    PROVE  \A k \in 0 .. N : k \in T
  <1> SUFFICES ASSUME NEW k \in 0 .. N, k \notin T PROVE FALSE
    OBVIOUS
  <1> DEFINE Bad == {i \in 0 .. N : i \notin T}
  <1>1. Bad \in SUBSET Nat /\ Bad # {}
    OBVIOUS
  <1>2. PICK x \in Bad : \A y \in Bad : x <= y
    BY <1>1, LeastNatural
  <1>3. x \in 1 .. N /\ x \notin T
    OBVIOUS
  <1>4. x - 1 \in T
    BY <1>2, <1>3
  <1> QED  BY <1>3, <1>4

(* f goes on from a by g; such a function exists.                          *)
GoesOn(f, N, V, a, g) ==
    f \in [0 .. N -> V] /\ f[0] = a /\ \A k \in 1 .. N : f[k] = g[<<k, f[k - 1]>>]

LEMMA Recursion ==
    ASSUME NEW N \in Nat, NEW V, NEW a \in V, NEW g \in [(1 .. N) \X V -> V]
    PROVE  \E f : GoesOn(f, N, V, a, g)
  <1> DEFINE T == {m \in 0 .. N : \E f : GoesOn(f, m, V, a, g)}
  <1>1. 0 \in T
    <2> DEFINE f == [k \in 0 .. 0 |-> a]
    <2>1. GoesOn(f, 0, V, a, g)
      BY DEF GoesOn
    <2> HIDE DEF f
    <2> QED  BY <2>1
  <1>2. ASSUME NEW m \in 1 .. N, m - 1 \in T PROVE m \in T
    <2>1. PICK f : GoesOn(f, m - 1, V, a, g)
      BY <1>2
    <2>. f \in [0 .. m - 1 -> V] /\ f[0] = a
         /\ \A k \in 1 .. m - 1 : f[k] = g[<<k, f[k - 1]>>]
      BY <2>1 DEF GoesOn
    <2> DEFINE h == [k \in 0 .. m |-> IF k = m THEN g[<<m, f[m - 1]>>] ELSE f[k]]
    <2>2. f[m - 1] \in V /\ <<m, f[m - 1]>> \in (1 .. N) \X V
      OBVIOUS
    <2>3. g[<<m, f[m - 1]>>] \in V
      BY <2>2
    <2>4. h \in [0 .. m -> V]
      BY <2>3
    <2>5. h[0] = a
      OBVIOUS
    <2>6. ASSUME NEW k \in 1 .. m PROVE h[k] = g[<<k, h[k - 1]>>]
      <3>1. k \in 0 .. m /\ k - 1 \in 0 .. m /\ k - 1 # m /\ h[k - 1] = f[k - 1]
        OBVIOUS
      <3>2. CASE k = m
        BY <3>1, <3>2
      <3>3. CASE k # m
        <4>1. k \in 1 .. m - 1 /\ h[k] = f[k]
          BY <3>1, <3>3
        <4> QED  BY <3>1, <4>1
      <3> QED  BY <3>2, <3>3
    <2> HIDE DEF h
    <2>7. GoesOn(h, m, V, a, g)
      BY <2>4, <2>5, <2>6 DEF GoesOn
    <2> QED  BY <2>7
  <1> HIDE DEF T
  <1>3. N \in T
    BY <1>1, <1>2, UpTo
  <1> QED  BY <1>3 DEF T

(* The digits, and the numbers that they stand for.                        *)
DigitChars == {Numerals[k] : k \in 1 .. 16}

LEMMA NumeralFacts ==
    /\ \A k \in 1 .. 16 : Numerals[k] \in DigitChars /\ ValueOf(Numerals[k]) = k - 1
    /\ \A k \in 1 .. 16 : Numerals[k] = "0" => k = 1
    /\ DOMAIN Numerals = 1 .. 16 /\ "0" \in Figures /\ ValueOf("0") = 0
    /\ Figures \subseteq DigitChars /\ \A c \in DigitChars : ValueOf(c) \in 0 .. 15
    /\ "%" \notin Figures /\ "-" \notin Figures /\ NUL \notin Figures
  <1>1. \A k, m \in 1 .. 16 : Numerals[k] = Numerals[m] => k = m
    BY DEF Numerals
  <1>2. \A k \in 1 .. 16 : ValueOf(Numerals[k]) = k - 1
    BY <1>1 DEF ValueOf
  <1>3. Numerals[1] = "0" /\ DOMAIN Numerals = 1 .. 16
    BY DEF Numerals
  <1>4. Figures \subseteq DigitChars
    BY DEF Figures, DigitChars
  <1>5. "%" \notin Figures /\ "-" \notin Figures /\ NUL \notin Figures
    BY DEF Figures, Numerals, NUL
  <1>6. \A c \in DigitChars : ValueOf(c) \in 0 .. 15
    BY <1>2 DEF DigitChars
  <1>7. \A k \in 1 .. 16 : Numerals[k] = "0" => k = 1
    BY <1>1, <1>3
  <1>8. "0" \in Figures
    BY <1>3 DEF Figures
  <1>9. ValueOf("0") = 0
    BY <1>2, <1>3
  <1> QED  BY <1>2, <1>3, <1>4, <1>5, <1>6, <1>7, <1>8, <1>9 DEF DigitChars

LEMMA ValueChain ==
    ASSUME NEW f \in Seq(DigitChars), NEW base \in Nat
    PROVE  \E v \in [0 .. Len(f) -> Nat] :
               /\ v[0] = 0 /\ Value(f, base) = v[Len(f)]
               /\ \A k \in 1 .. Len(f) : v[k] = v[k - 1] * base + ValueOf(f[k])
  <1> DEFINE IsIt(h) == h = [k \in 0 .. Len(f) |->
                                IF k = 0 THEN 0 ELSE h[k - 1] * base + ValueOf(f[k])]
             v == CHOOSE h : IsIt(h)
             g == [y \in (1 .. Len(f)) \X Nat |-> y[2] * base + ValueOf(f[y[1]])]
  <1>1. Value(f, base) = v[Len(f)]
    BY DEF Value
  <1>2. Len(f) \in Nat /\ \A k \in 1 .. Len(f) : ValueOf(f[k]) \in Nat
    BY LenProperties, ElementOfSeq, NumeralFacts
  <1>3. g \in [(1 .. Len(f)) \X Nat -> Nat]
    BY <1>2
  <1>4. \A k \in 1 .. Len(f), x \in Nat : g[<<k, x>>] = x * base + ValueOf(f[k])
    OBVIOUS
  <1> HIDE DEF g
  <1>a. 0 \in Nat
    OBVIOUS
  <1>b. PICK h : GoesOn(h, Len(f), Nat, 0, g)
    BY <1>2, <1>3, <1>a, Recursion
  <1>5. /\ h \in [0 .. Len(f) -> Nat] /\ h[0] = 0
        /\ \A k \in 1 .. Len(f) : h[k] = g[<<k, h[k - 1]>>]
    BY <1>b DEF GoesOn
  <1>6. ASSUME NEW k \in 1 .. Len(f) PROVE h[k] = h[k - 1] * base + ValueOf(f[k])
    <2>1. k - 1 \in 0 .. Len(f)
      BY <1>2
    <2>2. h[k - 1] \in Nat
      BY <1>5, <2>1
    <2>3. g[<<k, h[k - 1]>>] = h[k - 1] * base + ValueOf(f[k])
      BY <1>4, <2>2, Zenon
    <2> QED  BY <1>5, <2>3, Zenon
  <1>7. IsIt(h)
    BY <1>2, <1>5, <1>6
  <1> HIDE DEF IsIt
  <1>8. IsIt(v)
    BY <1>7
  <1> HIDE DEF v
  <1>9. v = [k \in 0 .. Len(f) |-> IF k = 0 THEN 0 ELSE v[k - 1] * base + ValueOf(f[k])]
    BY <1>8 DEF IsIt
  <1>10. v[0] = 0 /\ \A k \in 1 .. Len(f) : v[k] = v[k - 1] * base + ValueOf(f[k])
    BY <1>2, <1>9
  <1>11. \A k \in 0 .. Len(f) : k \in {i \in 0 .. Len(f) : v[i] \in Nat}
    <2>1. 0 \in {i \in 0 .. Len(f) : v[i] \in Nat}
      BY <1>2, <1>10
    <2>2. ASSUME NEW k \in 1 .. Len(f), k - 1 \in {i \in 0 .. Len(f) : v[i] \in Nat}
          PROVE  k \in {i \in 0 .. Len(f) : v[i] \in Nat}
      <3>1. v[k - 1] \in Nat /\ ValueOf(f[k]) \in Nat /\ k \in 0 .. Len(f)
        BY <1>2, <2>2
      <3>2. v[k - 1] * base + ValueOf(f[k]) \in Nat
        BY <3>1
      <3>3. v[k] = v[k - 1] * base + ValueOf(f[k])
        BY <1>10, Zenon
      <3> QED  BY <3>1, <3>2, <3>3
    <2> QED  BY <1>2, <2>1, <2>2, UpTo
  <1>12. v \in [0 .. Len(f) -> Nat]
    BY <1>9, <1>11
  <1> QED  BY <1>1, <1>10, <1>12

(* What is left of a number after the rounds of uint_to_str.               *)
LEMMA DividedChain ==
    ASSUME NEW v \in Nat, NEW base \in Nat \ {0}
    PROVE  /\ Divided(v, base) \in [0 .. TmpDigits -> Nat] /\ Divided(v, base)[0] = v
           /\ \A k \in 1 .. TmpDigits :
                  Divided(v, base)[k] = Divided(v, base)[k - 1] \div base
  <1> DEFINE IsIt(h) == h = [k \in 0 .. TmpDigits |-> IF k = 0 THEN v ELSE h[k - 1] \div base]
             val == CHOOSE h : IsIt(h)
             g == [y \in (1 .. TmpDigits) \X Nat |-> y[2] \div base]
  <1>1. Divided(v, base) = val
    BY DEF Divided
  <1>2. TmpDigits \in Nat /\ \A x \in Nat : x \div base \in Nat
    BY TmpAssumption, Division
  <1>3. g \in [(1 .. TmpDigits) \X Nat -> Nat]
    BY <1>2
  <1>4. \A k \in 1 .. TmpDigits, x \in Nat : g[<<k, x>>] = x \div base
    OBVIOUS
  <1> HIDE DEF g
  <1>5. PICK h : GoesOn(h, TmpDigits, Nat, v, g)
    BY <1>2, <1>3, Recursion
  <1>6. /\ h \in [0 .. TmpDigits -> Nat] /\ h[0] = v
        /\ \A k \in 1 .. TmpDigits : h[k] = g[<<k, h[k - 1]>>]
    BY <1>5 DEF GoesOn
  <1>7. ASSUME NEW k \in 1 .. TmpDigits PROVE h[k] = h[k - 1] \div base
    <2>1. k - 1 \in 0 .. TmpDigits
      BY <1>2
    <2>2. h[k - 1] \in Nat
      BY <1>6, <2>1
    <2>3. g[<<k, h[k - 1]>>] = h[k - 1] \div base
      BY <1>4, <2>2, Zenon
    <2> QED  BY <1>6, <2>3, Zenon
  <1>8. IsIt(h)
    BY <1>2, <1>6, <1>7
  <1> HIDE DEF IsIt
  <1>9. IsIt(val)
    BY <1>8
  <1> HIDE DEF val
  <1>10. val = [k \in 0 .. TmpDigits |-> IF k = 0 THEN v ELSE val[k - 1] \div base]
    BY <1>9 DEF IsIt
  <1>11. val[0] = v /\ \A k \in 1 .. TmpDigits : val[k] = val[k - 1] \div base
    <2>1. 0 \in 0 .. TmpDigits /\ \A k \in 1 .. TmpDigits : k \in 0 .. TmpDigits /\ k # 0
      BY <1>2
    <2>2. \A k \in 0 .. TmpDigits : val[k] = IF k = 0 THEN v ELSE val[k - 1] \div base
      BY <1>10, Zenon
    <2> QED  BY <2>1, <2>2, Zenon
  <1> DEFINE T == {i \in 0 .. TmpDigits : val[i] \in Nat}
  <1>12. \A k \in 0 .. TmpDigits : k \in T
    <2>1. 0 \in T
      BY <1>2, <1>11
    <2>2. ASSUME NEW k \in 1 .. TmpDigits, k - 1 \in T PROVE k \in T
      <3>1. val[k - 1] \in Nat /\ k \in 0 .. TmpDigits
        BY <1>2, <2>2
      <3>2. val[k] \in Nat
        BY <1>2, <1>11, <3>1, Zenon
      <3> QED  BY <3>1, <3>2
    <2> HIDE DEF T
    <2> QED  BY <1>2, <2>1, <2>2, UpTo
  <1>13. val \in [0 .. TmpDigits -> Nat]
    BY <1>10, <1>12
  <1> QED  BY <1>1, <1>11, <1>13

(* Smaller numbers and greater bases leave less.                           *)
LEMMA DividedOrder ==
    ASSUME NEW v \in Nat, NEW w \in Nat, v <= w, NEW base \in Nat, base >= 10
    PROVE  Divided(v, base)[TmpDigits] <= Divided(w, 10)[TmpDigits]
  <1> DEFINE f == Divided(v, base)
             g == Divided(w, 10)
             T == {i \in 0 .. TmpDigits : f[i] <= g[i]}
  <1>1. TmpDigits \in Nat /\ base \in Nat \ {0} /\ 10 \in Nat \ {0}
    BY TmpAssumption
  <1>2. /\ f \in [0 .. TmpDigits -> Nat] /\ f[0] = v
        /\ g \in [0 .. TmpDigits -> Nat] /\ g[0] = w
        /\ \A k \in 1 .. TmpDigits : f[k] = f[k - 1] \div base
        /\ \A k \in 1 .. TmpDigits : g[k] = g[k - 1] \div 10
    <2>1. /\ f \in [0 .. TmpDigits -> Nat] /\ f[0] = v
          /\ \A k \in 1 .. TmpDigits : f[k] = f[k - 1] \div base
      BY <1>1, DividedChain
    <2>2. /\ g \in [0 .. TmpDigits -> Nat] /\ g[0] = w
          /\ \A k \in 1 .. TmpDigits : g[k] = g[k - 1] \div 10
      BY <1>1, DividedChain
    <2> QED  BY <2>1, <2>2
  <1> HIDE DEF f, g
  <1>3. 0 \in T
    BY <1>1, <1>2
  <1>4. ASSUME NEW k \in 1 .. TmpDigits, k - 1 \in T PROVE k \in T
    <2> DEFINE a == f[k - 1]
               b == g[k - 1]
    <2>1. a \in Nat /\ b \in Nat /\ a <= b /\ k \in 0 .. TmpDigits
      BY <1>1, <1>2, <1>4
    <2>2. f[k] = a \div base /\ g[k] = b \div 10
      BY <1>2
    <2> HIDE DEF a, b
    <2>3. a \div base <= b \div 10
      <3>1. /\ a \div base \in Nat /\ b \div 10 \in Nat /\ a % base \in 0 .. base - 1
            /\ a = (a \div base) * base + (a % base) /\ b % 10 \in 0 .. 9
            /\ b = (b \div 10) * 10 + (b % 10)
        BY <1>1, <2>1, Division
      <3> DEFINE q == a \div base
                 r == b \div 10
      <3>2. q * 10 <= q * base
        <4>1. \A x \in Nat : x * 10 <= x * base
          <5> TAKE x \in Nat
          <5>1. PICK c \in Nat : base = 10 + c
            <6>1. base - 10 \in Nat /\ base = 10 + (base - 10)
              OBVIOUS
            <6> QED  BY <6>1
          <5>2. x * base = x * 10 + x * c /\ x * c \in Nat
            BY <5>1
          <5> QED  BY <5>2
        <4> QED  BY <3>1, <4>1
      <3>3. q \in Nat /\ r \in Nat /\ q * base \in Nat /\ q * base <= a /\ b < r * 10 + 10
        BY <1>1, <3>1
      <3> HIDE DEF q, r
      <3>4. q <= r
        BY <2>1, <3>2, <3>3
      <3> QED  BY <3>4 DEF q, r
    <2> QED  BY <2>1, <2>2, <2>3
  <1>5. TmpDigits \in T
    <2> HIDE DEF T
    <2>1. \A k \in 0 .. TmpDigits : k \in T
      BY <1>1, <1>3, <1>4, UpTo
    <2> QED  BY <1>1, <2>1
  <1> QED  BY <1>5 DEF f, g

(* uint_to_str makes the numeral of every word.                            *)
LEMMA NumeralMade ==
    ASSUME NEW v \in 0 .. WordSize - 1, NEW base \in {10, 16}
    PROVE  uint_to_str(v, base) \in Seq(DigitChars) /\ IsNumeral(uint_to_str(v, base), base, v)
  <1> DEFINE val == Divided(v, base)
             Stops(N) == (val[N] = 0 \/ N = TmpDigits) /\ \A k \in 1 .. N - 1 : val[k] # 0
             digits == CHOOSE N \in 1 .. TmpDigits : Stops(N)
             ds == [k \in 1 .. digits |-> Numerals[(val[digits - k] % base) + 1]]
  <1>1. /\ v \in Nat /\ base \in Nat \ {0} /\ base >= 10 /\ base <= 16
        /\ TmpDigits \in Nat \ {0} /\ WordSize - 1 \in Nat /\ v <= WordSize - 1
    BY WordSizeAssumption, TmpAssumption
  <1>2. uint_to_str(v, base) = ds
    BY DEF uint_to_str
  <1>3. /\ val \in [0 .. TmpDigits -> Nat] /\ val[0] = v
        /\ \A k \in 1 .. TmpDigits : val[k] = val[k - 1] \div base
    BY <1>1, DividedChain
  <1>4. val[TmpDigits] = 0
    <2>1. val[TmpDigits] <= Divided(WordSize - 1, 10)[TmpDigits]
      BY <1>1, DividedOrder
    <2>2. val[TmpDigits] \in Nat
      BY <1>1, <1>3
    <2> QED  BY <2>1, <2>2, TmpAssumption
  <1> HIDE DEF val
  <1>5. \E N \in 1 .. TmpDigits : Stops(N)
    <2> DEFINE T == {i \in 1 .. TmpDigits : val[i] = 0}
    <2>1. T \in SUBSET Nat /\ T # {}
      BY <1>1, <1>4
    <2>2. PICK x \in T : \A y \in T : x <= y
      BY <2>1, LeastNatural
    <2>3. x \in 1 .. TmpDigits /\ val[x] = 0
      OBVIOUS
    <2>4. ASSUME NEW k \in 1 .. x - 1 PROVE val[k] # 0
      <3>1. k \in 1 .. TmpDigits /\ ~ (x <= k)
        BY <1>1, <2>3
      <3>2. k \notin T
        BY <2>2, <3>1
      <3> QED  BY <3>1, <3>2
    <2> QED  BY <2>3, <2>4
  <1>6. digits \in 1 .. TmpDigits /\ Stops(digits)
    BY <1>5
  <1> HIDE DEF digits
  <1>a. digits \in 1 .. TmpDigits
    BY <1>6
  <1>7. val[digits] = 0
    BY <1>4, <1>6
  <1>8. /\ digits \in Nat \ {0} /\ digits - 1 \in 0 .. TmpDigits /\ digits \in 0 .. TmpDigits
        /\ \A k \in 1 .. digits : digits - k \in 0 .. TmpDigits /\ val[digits - k] \in Nat
    BY <1>1, <1>3, <1>6
  <1>9. ASSUME NEW k \in 1 .. digits
        PROVE  /\ (val[digits - k] % base) + 1 \in 1 .. 16 /\ ds[k] \in DigitChars
               /\ ValueOf(ds[k]) = val[digits - k] % base
    <2>1. val[digits - k] % base \in 0 .. base - 1
      BY <1>1, <1>8, Division
    <2>2. (val[digits - k] % base) + 1 \in 1 .. 16
      BY <1>1, <2>1
    <2>3. ((val[digits - k] % base) + 1) - 1 = val[digits - k] % base
      BY <2>1
    <2> QED  BY <2>2, <2>3, NumeralFacts
  <1>10. ds \in Seq(DigitChars) /\ Len(ds) = digits
    BY <1>8, <1>9
  <1>11. ds # <<>>
    BY <1>8, <1>10
  <1>12. ASSUME ds[1] = "0" PROVE Len(ds) = 1
    <2> SUFFICES ASSUME digits > 1 PROVE FALSE
      BY <1>8, <1>10
    <2>1. 1 \in 1 .. digits /\ digits - 1 \in 1 .. digits - 1 /\ digits \in 1 .. TmpDigits
      BY <1>6, <1>8
    <2>2. val[digits - 1] # 0 /\ val[digits - 1] \in Nat
      BY <1>6, <1>8, <2>1
    <2>3. val[digits - 1] \div base = 0
      BY <1>3, <1>7, <2>1
    <2>4. /\ val[digits - 1] = (val[digits - 1] \div base) * base + (val[digits - 1] % base)
          /\ val[digits - 1] % base \in 0 .. base - 1
      BY <1>1, <2>2, Division
    <2>5. val[digits - 1] % base # 0
      <3> DEFINE last == val[digits - 1]
                 q == last \div base
      <3>1. last \in Nat /\ last # 0 /\ last = q * base + (last % base) /\ q = 0
        BY <2>2, <2>3, <2>4
      <3> HIDE DEF last, q
      <3>2. 0 * base = 0
        BY <1>1
      <3>3. last = 0 + (last % base)
        BY <3>1, <3>2
      <3>4. last % base # 0
        BY <3>1, <3>3
      <3> QED  BY <3>4 DEF last
    <2>6. ds[1] = Numerals[(val[digits - 1] % base) + 1]
      BY <2>1
    <2>7. (val[digits - 1] % base) + 1 \in 1 .. 16
      BY <1>9, <2>1
    <2>8. (val[digits - 1] % base) + 1 = 1
      BY <1>12, <2>6, <2>7, NumeralFacts
    <2> QED  BY <2>4, <2>5, <2>8
  <1>13. \A k \in DOMAIN ds : \E m \in DOMAIN Numerals : ds[k] = Numerals[m]
    BY <1>9, NumeralFacts
  <1> HIDE DEF ds
  <1>14. Value(ds, base) = v
    <2>1. PICK sum \in [0 .. digits -> Nat] :
              /\ sum[0] = 0 /\ Value(ds, base) = sum[digits]
              /\ \A k \in 1 .. digits : sum[k] = sum[k - 1] * base + ValueOf(ds[k])
      BY <1>1, <1>10, ValueChain
    <2> DEFINE T == {k \in 0 .. digits : sum[k] = val[digits - k]}
    <2>2. 0 \in T
      BY <1>7, <1>8, <2>1
    <2>3. ASSUME NEW k \in 1 .. digits, k - 1 \in T PROVE k \in T
      <3> DEFINE rest == val[digits - k]
      <3>1. sum[k - 1] = val[(digits - k) + 1]
        BY <1>8, <2>3
      <3>2. (digits - k) + 1 \in 1 .. TmpDigits /\ ((digits - k) + 1) - 1 = digits - k
        BY <1>1, <1>a
      <3>3. val[(digits - k) + 1] = rest \div base
        BY <1>3, <3>2
      <3>4. ValueOf(ds[k]) = rest % base
        BY <1>9
      <3>5. rest \in Nat
        BY <1>8
      <3> HIDE DEF rest
      <3>6. rest = (rest \div base) * base + (rest % base)
        BY <1>1, <3>5, Division
      <3>7. sum[k] = rest
        BY <2>1, <3>1, <3>3, <3>4, <3>6
      <3>8. k \in 0 .. digits
        BY <1>8
      <3> QED  BY <3>7, <3>8 DEF rest
    <2> HIDE DEF T
    <2>4. digits \in T
      <3>1. digits \in Nat
        BY <1>8
      <3>2. \A k \in 0 .. digits : k \in T
        BY <2>2, <2>3, <3>1, UpTo
      <3> QED  BY <3>1, <3>2
    <2>5. sum[digits] = val[0]
      BY <1>8, <2>4 DEF T
    <2> QED  BY <1>3, <2>1, <2>5
  <1> QED  BY <1>2, <1>10, <1>11, <1>12, <1>13, <1>14 DEF IsNumeral

(* Sequences in a row: what every prefix is, and where each of them lies.  *)
LEMMA RowChain ==
    ASSUME NEW S, NEW f \in Seq(Seq(S))
    PROVE  /\ InARow(f) \in [0 .. Len(f) -> Seq(S)] /\ InARow(f)[0] = <<>>
           /\ \A k \in 1 .. Len(f) : InARow(f)[k] = InARow(f)[k - 1] \o f[k]
  <1> DEFINE V == Seq(S)
             N == Len(f)
             IsIt(h) == h = [k \in 0 .. N |-> IF k = 0 THEN <<>> ELSE h[k - 1] \o f[k]]
             row == CHOOSE h : IsIt(h)
             g == [y \in (1 .. N) \X V |-> y[2] \o f[y[1]]]
  <1>1. InARow(f) = row
    BY DEF InARow
  <1>2. N \in Nat /\ <<>> \in V /\ \A k \in 1 .. N : f[k] \in V
    BY LenProperties, ElementOfSeq, EmptySeq
  <1>3. \A x \in V, k \in 1 .. N : x \o f[k] \in V
    BY <1>2, ConcatProperties
  <1> HIDE DEF V, N
  <1>4. g \in [(1 .. N) \X V -> V]
    BY <1>3
  <1>5. \A k \in 1 .. N, x \in V : g[<<k, x>>] = x \o f[k]
    OBVIOUS
  <1> HIDE DEF g
  <1>6. PICK h : GoesOn(h, N, V, <<>>, g)
    BY <1>2, <1>4, Recursion
  <1>7. h \in [0 .. N -> V] /\ h[0] = <<>> /\ \A k \in 1 .. N : h[k] = g[<<k, h[k - 1]>>]
    BY <1>6 DEF GoesOn
  <1>8. ASSUME NEW k \in 1 .. N PROVE h[k] = h[k - 1] \o f[k]
    <2>1. k - 1 \in 0 .. N
      BY <1>2
    <2>2. h[k - 1] \in V
      BY <1>7, <2>1
    <2>3. g[<<k, h[k - 1]>>] = h[k - 1] \o f[k]
      BY <1>5, <2>2, Zenon
    <2> QED  BY <1>7, <2>3, Zenon
  <1>9. IsIt(h)
    <2>1. h = [k \in 0 .. N |-> h[k]]
      BY <1>7
    <2>2. ASSUME NEW k \in 0 .. N PROVE h[k] = IF k = 0 THEN <<>> ELSE h[k - 1] \o f[k]
      <3>1. k # 0 => k \in 1 .. N
        BY <1>2
      <3> QED  BY <1>7, <1>8, <3>1, Zenon
    <2> QED  BY <2>1, <2>2, Zenon
  <1> HIDE DEF IsIt
  <1>10. IsIt(row)
    BY <1>9
  <1> HIDE DEF row
  <1>11. row = [k \in 0 .. N |-> IF k = 0 THEN <<>> ELSE row[k - 1] \o f[k]]
    BY <1>10 DEF IsIt
  <1>12. row[0] = <<>> /\ \A k \in 1 .. N : row[k] = row[k - 1] \o f[k]
    <2>1. 0 \in 0 .. N /\ \A k \in 1 .. N : k \in 0 .. N /\ k # 0
      BY <1>2
    <2>2. \A k \in 0 .. N : row[k] = IF k = 0 THEN <<>> ELSE row[k - 1] \o f[k]
      BY <1>11, Zenon
    <2> QED  BY <2>1, <2>2, Zenon
  <1> DEFINE T == {i \in 0 .. N : row[i] \in V}
  <1>13. \A k \in 0 .. N : k \in T
    <2>1. 0 \in T
      BY <1>2, <1>12
    <2>2. ASSUME NEW k \in 1 .. N, k - 1 \in T PROVE k \in T
      <3>1. row[k - 1] \in V /\ k \in 0 .. N
        BY <1>2, <2>2
      <3>2. row[k] \in V
        BY <1>3, <1>12, <3>1, Zenon
      <3> QED  BY <3>1, <3>2
    <2> HIDE DEF T
    <2> QED  BY <1>2, <2>1, <2>2, UpTo
  <1>14. row \in [0 .. N -> V]
    BY <1>11, <1>13
  <1> QED  BY <1>1, <1>12, <1>14 DEF V, N

(* text is the k-th of the N sequences in row.                             *)
HasPlace(row, text, k, N) ==
    /\ Len(row[k]) = Len(row[k - 1]) + Len(text)
    /\ Len(row[k]) <= Len(row[N])
    /\ \A j \in 1 .. Len(text) : row[N][Len(row[k - 1]) + j] = text[j]

LEMMA RowPlaces ==
    ASSUME NEW S, NEW f \in Seq(Seq(S)), NEW row, row = InARow(f), NEW k \in 1 .. Len(f)
    PROVE  HasPlace(row, f[k], k, Len(f))
  <1> DEFINE N == Len(f)
             a == Len(row[k - 1])
             b == Len(f[k])
  <1>1. /\ row \in [0 .. N -> Seq(S)] /\ row[0] = <<>>
        /\ \A i \in 1 .. N : row[i] = row[i - 1] \o f[i]
    BY RowChain
  <1>2. N \in Nat /\ k \in Nat /\ k <= N /\ \A i \in 1 .. N : f[i] \in Seq(S)
    BY LenProperties, ElementOfSeq
  <1>3. \A i \in 0 .. N : row[i] \in Seq(S) /\ Len(row[i]) \in Nat
    BY <1>1, LenProperties
  <1>4. f[k] \in Seq(S) /\ row[k - 1] \in Seq(S) /\ row[k] \in Seq(S) /\ a \in Nat /\ b \in Nat
    BY <1>2, <1>3, LenProperties
  <1>5. ASSUME NEW i \in 1 .. N
        PROVE  /\ Len(row[i]) = Len(row[i - 1]) + Len(f[i]) /\ Len(f[i]) \in Nat
               /\ \A j \in 1 .. Len(row[i - 1]) + Len(f[i]) :
                      row[i][j] = IF j <= Len(row[i - 1]) THEN row[i - 1][j]
                                  ELSE f[i][j - Len(row[i - 1])]
    <2>1. i - 1 \in 0 .. N
      BY <1>2
    <2>2. row[i - 1] \in Seq(S) /\ f[i] \in Seq(S) /\ row[i] = row[i - 1] \o f[i]
      BY <1>1, <1>2, <1>3, <2>1, Zenon
    <2> DEFINE x == row[i - 1]
               y == f[i]
    <2>3. x \in Seq(S) /\ y \in Seq(S) /\ row[i] = x \o y
      BY <2>2
    <2> HIDE DEF x, y
    <2>4. /\ Len(row[i]) = Len(x) + Len(y) /\ Len(y) \in Nat
          /\ \A j \in 1 .. Len(x) + Len(y) :
                 row[i][j] = IF j <= Len(x) THEN x[j] ELSE y[j - Len(x)]
      BY <2>3, ConcatProperties, LenProperties
    <2> QED  BY <2>4 DEF x, y
  <1> DEFINE T == {i \in 0 .. N - k : /\ Len(row[k + i]) >= a + b
                                      /\ \A j \in 1 .. b : row[k + i][a + j] = f[k][j]}
  <1>6. 0 \in T
    <2>1. Len(row[k]) = a + b
      BY <1>5
    <2>a. \A x \in 1 .. a + b : row[k][x] = IF x <= a THEN row[k - 1][x] ELSE f[k][x - a]
      BY <1>5
    <2>b. a \in Nat /\ b \in Nat
      BY <1>4
    <2> HIDE DEF a, b
    <2>2. ASSUME NEW j \in 1 .. b PROVE row[k][a + j] = f[k][j]
      <3>1. a + j \in 1 .. a + b /\ ~ (a + j <= a) /\ (a + j) - a = j
        BY <2>b
      <3> QED  BY <2>a, <3>1
    <2>3. 0 \in 0 .. N - k /\ k + 0 = k
      BY <1>2
    <2> QED  BY <2>b, <2>1, <2>2, <2>3
  <1>7. ASSUME NEW i \in 1 .. N - k, i - 1 \in T PROVE i \in T
    <2>1. k + i \in 1 .. N /\ (k + i) - 1 = k + (i - 1) /\ i \in 0 .. N - k
      BY <1>2
    <2> DEFINE c == Len(row[k + (i - 1)])
               u == Len(f[k + i])
    <2>2. /\ Len(row[k + i]) = c + u /\ c \in Nat /\ u \in Nat
          /\ \A j \in 1 .. c + u : row[k + i][j] = IF j <= c THEN row[k + (i - 1)][j] ELSE f[k + i][j - c]
      <3>1. k + (i - 1) \in 0 .. N
        BY <1>2, <2>1
      <3>2. c \in Nat /\ u \in Nat
        BY <1>3, <1>5, <2>1, <3>1
      <3> HIDE DEF c, u
      <3>3. /\ Len(row[k + i]) = c + u
            /\ \A j \in 1 .. c + u : row[k + i][j] =
                   IF j <= c THEN row[(k + i) - 1][j] ELSE f[k + i][j - c]
        BY <1>5, <2>1, Zenon DEF c, u
      <3> QED  BY <2>1, <3>2, <3>3
    <2>3. c >= a + b /\ \A j \in 1 .. b : row[k + (i - 1)][a + j] = f[k][j]
      BY <1>7
    <2> HIDE DEF c, u, a, b
    <2>4. ASSUME NEW j \in 1 .. b PROVE row[k + i][a + j] = f[k][j]
      <3>1. a + j \in 1 .. c + u /\ a + j <= c
        BY <1>4, <2>2, <2>3
      <3> QED  BY <2>2, <2>3, <3>1
    <2>5. Len(row[k + i]) >= a + b
      BY <1>4, <2>2, <2>3
    <2> QED  BY <2>1, <2>4, <2>5
  <1>8. N - k \in Nat /\ N - k \in 0 .. N - k /\ k + (N - k) = N /\ N \in 0 .. N
    BY <1>2
  <1>9. N - k \in T
    <2> HIDE DEF T
    <2>1. \A i \in 0 .. N - k : i \in T
      BY <1>6, <1>7, <1>8, UpTo
    <2> QED  BY <1>8, <2>1
  <1>10. Len(row[N]) >= a + b /\ \A j \in 1 .. b : row[N][a + j] = f[k][j]
    BY <1>8, <1>9
  <1>11. Len(row[k]) = a + b
    BY <1>5
  <1> QED  BY <1>10, <1>11 DEF HasPlace

(* A zero in front of a width changes nothing.                             *)
LEMMA LeadingZero ==
    ASSUME NEW w \in Seq(Figures)
    PROVE  /\ Value(w, 10) \in Nat /\ <<"0">> \o w \in Seq(Figures)
           /\ Value(<<"0">> \o w, 10) = Value(w, 10)
  <1> DEFINE z == <<"0">> \o w
             N == Len(w)
  <1>1. <<"0">> \in Seq(Figures) /\ Len(<<"0">>) = 1 /\ <<"0">>[1] = "0" /\ N \in Nat
    BY NumeralFacts, LenProperties
  <1>2. /\ z \in Seq(Figures) /\ Len(z) = N + 1
        /\ \A k \in 1 .. N + 1 : z[k] = IF k <= 1 THEN <<"0">>[k] ELSE w[k - 1]
    BY <1>1, ConcatProperties
  <1>3. z[1] = "0" /\ \A k \in 1 .. N : z[k + 1] = w[k]
    <2>1. 1 \in 1 .. N + 1
      BY <1>1
    <2>2. z[1] = "0"
      BY <1>1, <1>2, <2>1
    <2>3. ASSUME NEW k \in 1 .. N PROVE z[k + 1] = w[k]
      <3>1. k + 1 \in 1 .. N + 1 /\ ~ (k + 1 <= 1) /\ (k + 1) - 1 = k
        BY <1>1
      <3> QED  BY <1>2, <3>1
    <2> QED  BY <2>2, <2>3
  <1>4. z \in Seq(DigitChars) /\ w \in Seq(DigitChars)
    BY <1>2, NumeralFacts, SeqMonotonic
  <1> HIDE DEF z
  <1>5. 10 \in Nat
    OBVIOUS
  <1>6. PICK f \in [0 .. N -> Nat] :
            /\ f[0] = 0 /\ Value(w, 10) = f[N]
            /\ \A k \in 1 .. N : f[k] = f[k - 1] * 10 + ValueOf(w[k])
    BY <1>4, <1>5, ValueChain
  <1>7. PICK g \in [0 .. N + 1 -> Nat] :
            /\ g[0] = 0 /\ Value(z, 10) = g[N + 1]
            /\ \A k \in 1 .. N + 1 : g[k] = g[k - 1] * 10 + ValueOf(z[k])
    <2>1. \E g \in [0 .. Len(z) -> Nat] :
            /\ g[0] = 0 /\ Value(z, 10) = g[Len(z)]
            /\ \A k \in 1 .. Len(z) : g[k] = g[k - 1] * 10 + ValueOf(z[k])
      BY <1>4, <1>5, ValueChain
    <2>2. Len(z) = N + 1
      BY <1>2
    <2> QED  BY <2>1, <2>2
  <1> HIDE DEF N
  <1> DEFINE T == {k \in 0 .. N : g[k + 1] = f[k]}
  <1>8. 0 \in T
    <2>1. 1 \in 1 .. N + 1 /\ 1 - 1 = 0
      BY <1>1
    <2>2. g[1] = g[1 - 1] * 10 + ValueOf(z[1])
      BY <1>7, <2>1
    <2>3. g[1] = 0
      BY <1>3, <1>7, <2>1, <2>2, NumeralFacts
    <2> QED  BY <1>1, <1>6, <2>3
  <1>9. ASSUME NEW k \in 1 .. N, k - 1 \in T PROVE k \in T
    <2>1. k + 1 \in 1 .. N + 1 /\ (k + 1) - 1 = k /\ (k - 1) + 1 = k /\ k \in 0 .. N
      BY <1>1
    <2>2. g[k] = f[k - 1]
      BY <1>9, <2>1
    <2>3. g[k + 1] = g[k] * 10 + ValueOf(w[k])
      BY <1>3, <1>7, <2>1
    <2> QED  BY <1>6, <2>1, <2>2, <2>3
  <1>10. N \in T
    <2> HIDE DEF T
    <2>1. \A k \in 0 .. N : k \in T
      BY <1>1, <1>8, <1>9, UpTo
    <2> QED  BY <1>1, <2>1
  <1>11. f[N] \in Nat /\ g[N + 1] = f[N]
    BY <1>1, <1>6, <1>10
  <1> QED  BY <1>2, <1>6, <1>7, <1>11 DEF z

(* Parts of what is printed, by the characters in their places.            *)
LEMMA PartIs ==
    ASSUME NEW o \in Seq(Chars), NEW t \in Seq(Chars), NEW a \in Nat,
           a + Len(t) <= Len(o), \A j \in 1 .. Len(t) : o[a + j] = t[j]
    PROVE  SubSeq(o, a + 1, a + Len(t)) = t
  <1> DEFINE N == Len(t)
             f == SubSeq(o, a + 1, a + N)
  <1>1. N \in Nat /\ Len(o) \in Nat
    BY LenProperties
  <1>2. \A k \in a + 1 .. a + N : k \in 1 .. Len(o) /\ o[k] \in Chars
    BY <1>1, ElementOfSeq
  <1>3. a + 1 \in Int /\ a + N \in Int /\ ((a + N) - (a + 1)) + 1 = N
    BY <1>1
  <1>4. f \in Seq(Chars) /\ Len(f) = N
    BY <1>1, <1>2, <1>3, SubSeqProperties
  <1>5. ASSUME NEW j \in 1 .. N PROVE f[j] = t[j]
    <2>1. f[j] = o[((a + 1) + j) - 1]
      BY <1>1, <1>2, <1>3, SubSeqProperties
    <2>2. ((a + 1) + j) - 1 = a + j
      BY <1>1
    <2> QED  BY <2>1, <2>2
  <1> HIDE DEF f
  <1>6. f = t
    BY <1>4, <1>5, SeqEqual
  <1> QED  BY <1>6 DEF f

LEMMA AllIs ==
    ASSUME NEW o \in Seq(Chars), NEW a \in 1 .. Len(o) + 1, NEW b \in 0 .. Len(o), NEW ch,
           \A k \in a .. b : o[k] = ch
    PROVE  All(SubSeq(o, a, b), ch)
  <1> DEFINE f == SubSeq(o, a, b)
  <1>1. Len(o) \in Nat /\ a \in Int /\ b \in Int
    BY LenProperties
  <1>2. \A k \in a .. b : o[k] \in Chars
    BY <1>1, ElementOfSeq
  <1>3. /\ f \in Seq(Chars) /\ Len(f) = IF a <= b THEN (b - a) + 1 ELSE 0
        /\ \A k \in 1 .. (b - a) + 1 : f[k] = o[(a + k) - 1]
    BY <1>1, <1>2, SubSeqProperties
  <1>4. DOMAIN f = 1 .. Len(f)
    BY <1>3, LenProperties
  <1> HIDE DEF f
  <1>5. ASSUME NEW k \in DOMAIN f PROVE f[k] = ch
    <2>1. k \in 1 .. (b - a) + 1 /\ (a + k) - 1 \in a .. b
      BY <1>1, <1>3, <1>4
    <2> QED  BY <1>3, <2>1
  <1> QED  BY <1>5 DEF All, f

(* What pad_and_print prints: m characters of padding, if the text leaves  *)
(* room for them, behind or in front of it.                                *)
IsMissing(m, text, width) == m = IF width > Len(text) THEN width - Len(text) ELSE 0

TextFirst(o, text, width) ==
    /\ o \in Seq(Chars)
    /\ Len(o) = IF width > Len(text) THEN width ELSE Len(text)
    /\ \A j \in 1 .. Len(text) : o[j] = text[j]
    /\ \A j \in Len(text) + 1 .. Len(o) : o[j] = Space
TextLast(o, text, width, pad) ==
    /\ o \in Seq(Chars)
    /\ Len(o) = IF width > Len(text) THEN width ELSE Len(text)
    /\ Len(o) - Len(text) \in Nat
    /\ \A j \in 1 .. Len(text) : o[(Len(o) - Len(text)) + j] = text[j]
    /\ \A j \in 1 .. Len(o) - Len(text) : o[j] = pad

LEMMA PaddedBehind ==
    ASSUME NEW text \in Seq(Chars), NEW width \in Nat, NEW m, IsMissing(m, text, width),
           NEW o, o = text \o Times(m, Space)
    PROVE  TextFirst(o, text, width)
  <1> DEFINE N == Len(text)
             f == [k \in 1 .. m |-> Space]
  <1>1. N \in Nat /\ Space \in Chars /\ N = Len(text)
    BY LenProperties, CharsAssumption
  <1> HIDE DEF N
  <1>2. m \in Nat /\ N + m = IF width > N THEN width ELSE N
    BY <1>1 DEF IsMissing
  <1>3. f \in Seq(Chars) /\ Len(f) = m /\ \A k \in 1 .. m : f[k] = Space
    BY <1>1, <1>2
  <1>4. o = text \o f
    BY DEF Times
  <1> HIDE DEF f
  <1>5. /\ o \in Seq(Chars) /\ Len(o) = N + m
        /\ \A k \in 1 .. N + m : o[k] = IF k <= N THEN text[k] ELSE f[k - N]
    BY <1>1, <1>3, <1>4, ConcatProperties
  <1>6. ASSUME NEW j \in 1 .. N PROVE o[j] = text[j]
    <2>1. j \in 1 .. N + m /\ j <= N
      BY <1>1, <1>2
    <2> QED  BY <1>5, <2>1
  <1>7. ASSUME NEW j \in N + 1 .. N + m PROVE o[j] = Space
    <2>1. j \in 1 .. N + m /\ ~ (j <= N) /\ j - N \in 1 .. m
      BY <1>1, <1>2
    <2> QED  BY <1>3, <1>5, <2>1
  <1> QED  BY <1>1, <1>2, <1>5, <1>6, <1>7 DEF TextFirst

LEMMA PaddedInFront ==
    ASSUME NEW text \in Seq(Chars), NEW width \in Nat, NEW m, IsMissing(m, text, width),
           NEW pad \in Chars, NEW o, o = Times(m, pad) \o text
    PROVE  TextLast(o, text, width, pad)
  <1> DEFINE N == Len(text)
             f == [k \in 1 .. m |-> pad]
  <1>1. N \in Nat /\ N = Len(text)
    BY LenProperties
  <1> HIDE DEF N
  <1>2. m \in Nat /\ m + N = IF width > N THEN width ELSE N
    BY <1>1 DEF IsMissing
  <1>3. f \in Seq(Chars) /\ Len(f) = m /\ \A k \in 1 .. m : f[k] = pad
    BY <1>1, <1>2
  <1>4. o = f \o text
    BY DEF Times
  <1> HIDE DEF f
  <1>5. /\ o \in Seq(Chars) /\ Len(o) = m + N
        /\ \A k \in 1 .. m + N : o[k] = IF k <= m THEN f[k] ELSE text[k - m]
    BY <1>1, <1>3, <1>4, ConcatProperties
  <1>6. ASSUME NEW j \in 1 .. N PROVE o[m + j] = text[j]
    <2>1. m + j \in 1 .. m + N /\ ~ (m + j <= m) /\ (m + j) - m = j
      BY <1>1, <1>2
    <2> QED  BY <1>5, <2>1
  <1>7. ASSUME NEW j \in 1 .. m PROVE o[j] = pad
    <2>1. j \in 1 .. m + N /\ j <= m
      BY <1>1, <1>2
    <2> QED  BY <1>3, <1>5, <2>1
  <1>8. (m + N) - N = m
    BY <1>1, <1>2
  <1> QED  BY <1>1, <1>2, <1>5, <1>6, <1>7, <1>8 DEF TextLast

(* A field is part, a text padded to its width.                            *)
Pads(i, part, text, width, pad) ==
    \E m : /\ IsMissing(m, text, width)
           /\ i.left => part = text \o Times(m, Space)
           /\ ~ i.left => part = Times(m, pad) \o text

LEMMA PadCases ==
    ASSUME NEW i, NEW text, NEW width, NEW pad, NEW left, left <=> i.left
    PROVE  Pads(i, pad_and_print(text, width, left, pad), text, width, pad)
  BY Zenon DEF Pads, IsMissing, pad_and_print

LEMMA CharFacts ==
    /\ DigitChars \subseteq Chars /\ Space \in Chars /\ "0" \in Chars /\ "-" \in Chars
    /\ "%" \in Chars /\ NUL \in Chars /\ <<"-">> \in Seq(Chars)
  <1>1. DigitChars \subseteq Chars /\ Space \in Chars /\ "-" \in Chars /\ "%" \in Chars /\ NUL \in Chars
    BY CharsAssumption DEF DigitChars
  <1>2. "0" \in Chars
    BY <1>1, NumeralFacts
  <1> QED  BY <1>1, <1>2

(* A number behind its sign, padded to what the sign leaves of the width.  *)
PadOf(i) == IF i.zero /\ ~ i.left THEN "0" ELSE Space
SignThenPad(i, o, sign, base, v) ==
    \E a \in Len(sign) .. Len(o), b \in 1 .. Len(o) :
        /\ IsNumeral(SubSeq(o, a + 1, b), base, v)
        /\ SubSeq(o, 1, Len(sign)) = sign
        /\ Fills(i, o, Len(sign) + b - a)
        /\ IF i.left THEN a = Len(sign) /\ All(SubSeq(o, b + 1, Len(o)), Space)
                     ELSE b = Len(o) /\ All(SubSeq(o, Len(sign) + 1, a), PadOf(i))

LEMMA NumberPrinted ==
    ASSUME NEW i, NEW W \in Nat, WidthOf(i) = W,
           NEW sign \in {<<>>, <<"-">>}, NEW base, NEW v,
           NEW ds \in Seq(DigitChars), IsNumeral(ds, base, v),
           NEW w, w = IF sign = <<>> \/ W = 0 THEN W ELSE W - 1,
           NEW part, Pads(i, part, ds, w, PadOf(i)),
           NEW o, o = sign \o part
    PROVE  o \in Seq(Chars) /\ SignThenPad(i, o, sign, base, v)
  <1> DEFINE L == Len(ds)
             S == Len(sign)
             P == Len(part)
  <1>1. ds \in Seq(Chars) /\ sign \in Seq(Chars) /\ PadOf(i) \in Chars
    <2>1. ds \in Seq(Chars)
      BY CharFacts, SeqMonotonic
    <2>2. sign \in Seq(Chars)
      BY CharFacts, EmptySeq
    <2>3. PadOf(i) \in Chars
      BY CharFacts DEF PadOf
    <2> QED  BY <2>1, <2>2, <2>3
  <1>2. L \in Nat \ {0} /\ S \in {0, 1} /\ (S = 0 <=> sign = <<>>)
    <2>1. ds # <<>>
      BY DEF IsNumeral
    <2>2. L \in Nat \ {0}
      BY <2>1, EmptySeq
    <2>3. Len(<<"-">>) = 1 /\ <<"-">> # <<>>
      OBVIOUS
    <2>4. Len(<<>>) = 0
      BY EmptySeq
    <2> QED  BY <2>2, <2>3, <2>4
  <1>3. w \in Nat
    OBVIOUS
  <1>4. PICK m : /\ IsMissing(m, ds, w)
                 /\ i.left => part = ds \o Times(m, Space)
                 /\ ~ i.left => part = Times(m, PadOf(i)) \o ds
    BY DEF Pads
  <1>5. /\ part \in Seq(Chars) /\ P = IF w > L THEN w ELSE L
        /\ i.left => /\ \A j \in 1 .. L : part[j] = ds[j]
                     /\ \A j \in L + 1 .. P : part[j] = Space
        /\ ~ i.left => /\ \A j \in 1 .. L : part[(P - L) + j] = ds[j]
                       /\ \A j \in 1 .. P - L : part[j] = PadOf(i)
    <2>0. P = Len(part) /\ L = Len(ds)
      OBVIOUS
    <2> HIDE DEF P, L
    <2>1. CASE i.left
      <3>1. part = ds \o Times(m, Space)
        BY <1>4, <2>1
      <3>2. /\ part \in Seq(Chars) /\ Len(part) = IF w > Len(ds) THEN w ELSE Len(ds)
            /\ \A j \in 1 .. Len(ds) : part[j] = ds[j]
            /\ \A j \in Len(ds) + 1 .. Len(part) : part[j] = Space
        <4>1. IsMissing(m, ds, w)
          BY <1>4
        <4>2. TextFirst(part, ds, w)
          BY <1>1, <1>3, <3>1, <4>1, PaddedBehind
        <4> QED  BY <4>2 DEF TextFirst
      <3> QED  BY <2>0, <2>1, <3>2
    <2>2. CASE ~ i.left
      <3>1. part = Times(m, PadOf(i)) \o ds
        BY <1>4, <2>2
      <3>2. /\ part \in Seq(Chars) /\ Len(part) = IF w > Len(ds) THEN w ELSE Len(ds)
            /\ \A j \in 1 .. Len(ds) : part[(Len(part) - Len(ds)) + j] = ds[j]
            /\ \A j \in 1 .. Len(part) - Len(ds) : part[j] = PadOf(i)
        <4>1. IsMissing(m, ds, w)
          BY <1>4
        <4>2. TextLast(part, ds, w, PadOf(i))
          BY <1>1, <1>3, <3>1, <4>1, PaddedInFront
        <4> QED  BY <4>2 DEF TextLast
      <3> QED  BY <2>0, <2>2, <3>2
    <2> QED  BY <2>1, <2>2
  <1>6. /\ o \in Seq(Chars) /\ Len(o) = S + P
        /\ \A k \in 1 .. S + P : o[k] = IF k <= S THEN sign[k] ELSE part[k - S]
    <2>1. part \in Seq(Chars) /\ S = Len(sign) /\ P = Len(part)
      BY <1>5
    <2> HIDE DEF S, P
    <2> QED  BY <1>1, <2>1, ConcatProperties
  <1>a. S = Len(sign) /\ L = Len(ds)
    OBVIOUS
  <1> HIDE DEF S, L, P
  <1>b. L \in Nat /\ L > 0 /\ S \in Nat /\ P \in Nat /\ L <= P /\ Len(o) = S + P
    BY <1>2, <1>3, <1>5, <1>6
  <1>7. Fills(i, o, S + L)
    <2>1. S + P = IF S + L > W THEN S + L ELSE W
      BY <1>2, <1>5
    <2> QED  BY <1>6, <2>1 DEF Fills
  <1>8. ASSUME NEW j \in 1 .. P PROVE o[S + j] = part[j]
    <2>1. S + j \in 1 .. S + P /\ ~ (S + j <= S) /\ (S + j) - S = j
      BY <1>b
    <2> QED  BY <1>6, <2>1
  <1>9. SubSeq(o, 1, S) = sign
    <2>1. ASSUME NEW j \in 1 .. S PROVE o[0 + j] = sign[j]
      <3>1. j \in 1 .. S + P /\ j <= S /\ 0 + j = j
        BY <1>b
      <3> QED  BY <1>6, <3>1
    <2>2. 0 + S <= Len(o) /\ 0 \in Nat
      BY <1>b, <1>6
    <2>3. SubSeq(o, 0 + 1, 0 + S) = sign
      BY <1>1, <1>6, <1>a, <2>1, <2>2, PartIs
    <2>4. 0 + 1 = 1 /\ 0 + S = S
      BY <1>b
    <2> QED  BY <2>3, <2>4
  <1>10. CASE i.left
    <2> DEFINE b == S + L
    <2>1. SubSeq(o, S + 1, S + L) = ds
      <3>1. ASSUME NEW j \in 1 .. L PROVE o[S + j] = ds[j]
        <4>1. j \in 1 .. P
          BY <1>b
        <4> QED  BY <1>5, <1>8, <1>10, <4>1
      <3>2. S + L <= Len(o)
        BY <1>b, <1>6
      <3> QED  BY <1>1, <1>6, <1>a, <1>b, <3>1, <3>2, PartIs
    <2>2. All(SubSeq(o, b + 1, Len(o)), Space)
      <3>1. ASSUME NEW k \in b + 1 .. Len(o) PROVE o[k] = Space
        <4>1. k - S \in 1 .. P /\ k - S \in L + 1 .. P /\ S + (k - S) = k
          BY <1>b
        <4> QED  BY <1>5, <1>8, <1>10, <4>1
      <3>2. b + 1 \in 1 .. Len(o) + 1 /\ Len(o) \in 0 .. Len(o)
        BY <1>b, <1>6
      <3> HIDE DEF b
      <3> QED  BY <1>6, <3>1, <3>2, AllIs
    <2>3. S \in S .. Len(o) /\ b \in 1 .. Len(o) /\ (S + b) - S = S + L
      BY <1>b
    <2>4. IsNumeral(SubSeq(o, S + 1, b), base, v)
      BY <2>1
    <2> HIDE DEF b
    <2>5. /\ IsNumeral(SubSeq(o, S + 1, b), base, v)
          /\ SubSeq(o, 1, Len(sign)) = sign
          /\ Fills(i, o, Len(sign) + b - S)
          /\ IF i.left THEN S = Len(sign) /\ All(SubSeq(o, b + 1, Len(o)), Space)
                       ELSE b = Len(o) /\ All(SubSeq(o, Len(sign) + 1, S), PadOf(i))
      BY <1>7, <1>9, <1>10, <1>a, <2>2, <2>3, <2>4
    <2>6. S \in Len(sign) .. Len(o)
      BY <1>a, <2>3
    <2> QED  BY <1>6, <2>3, <2>5, <2>6, Zenon DEF SignThenPad
  <1>11. CASE ~ i.left
    <2> DEFINE a == Len(o) - L
               b == Len(o)
    <2>0. a = S + (P - L) /\ a + L = b /\ a \in Nat
      BY <1>b, <1>6
    <2>1. SubSeq(o, a + 1, b) = ds
      <3>1. ASSUME NEW j \in 1 .. L PROVE o[a + j] = ds[j]
        <4>0. a = S + (P - L)
          BY <2>0
        <4> HIDE DEF a
        <4>1. (P - L) + j \in 1 .. P /\ a + j = S + ((P - L) + j)
          BY <1>b, <4>0
        <4> QED  BY <1>5, <1>8, <1>11, <4>1
      <3>2. a + L <= Len(o)
        BY <1>b, <2>0
      <3> HIDE DEF a
      <3>3. SubSeq(o, a + 1, a + L) = ds
        BY <1>1, <1>6, <1>a, <2>0, <3>1, <3>2, PartIs
      <3> QED  BY <2>0, <3>3
    <2>2. All(SubSeq(o, S + 1, a), PadOf(i))
      <3>1. ASSUME NEW k \in S + 1 .. a PROVE o[k] = PadOf(i)
        <4>1. k - S \in 1 .. P /\ k - S \in 1 .. P - L /\ S + (k - S) = k
          BY <1>b, <2>0
        <4> QED  BY <1>5, <1>8, <1>11, <4>1
      <3>2. S + 1 \in 1 .. Len(o) + 1 /\ a \in 0 .. Len(o)
        BY <1>b, <1>6, <2>0
      <3> HIDE DEF a
      <3> QED  BY <1>6, <3>1, <3>2, AllIs
    <2>3. a \in S .. Len(o) /\ b \in 1 .. Len(o) /\ (S + b) - a = S + L
      BY <1>b, <1>6, <2>0
    <2> HIDE DEF a, b
    <2>4. b = Len(o)
      BY DEF b
    <2>5. /\ IsNumeral(SubSeq(o, a + 1, b), base, v)
          /\ SubSeq(o, 1, Len(sign)) = sign
          /\ Fills(i, o, Len(sign) + b - a)
          /\ IF i.left THEN a = Len(sign) /\ All(SubSeq(o, b + 1, Len(o)), Space)
                       ELSE b = Len(o) /\ All(SubSeq(o, Len(sign) + 1, a), PadOf(i))
      <3>1. Fills(i, o, Len(sign) + b - a)
        BY <1>7, <1>a, <2>3
      <3>2. b = Len(o) /\ All(SubSeq(o, Len(sign) + 1, a), PadOf(i))
        BY <1>a, <2>2, <2>4
      <3>3. IsNumeral(SubSeq(o, a + 1, b), base, v) /\ SubSeq(o, 1, Len(sign)) = sign
        BY <1>9, <1>a, <2>1
      <3> QED  BY <1>11, <3>1, <3>2, <3>3, Zenon
    <2>6. a \in Len(sign) .. Len(o)
      BY <1>a, <2>3
    <2> QED  BY <1>6, <2>3, <2>5, <2>6, Zenon DEF SignThenPad
  <1> QED  BY <1>10, <1>11

(* That is what printf has, unless there are blanks behind the sign.       *)
BlanksBehindSign(i, o, base, v) ==
    /\ ~ i.left /\ ~ i.zero /\ Len(o) = WidthOf(i)
    /\ \E a \in 2 .. Len(o) - 1 :
          /\ o[1] = "-" /\ All(SubSeq(o, 2, a), Space)
          /\ IsNumeral(SubSeq(o, a + 1, Len(o)), base, v)

LEMMA SignsAre ==
    ASSUME NEW i, WidthOf(i) \in Nat, NEW o \in Seq(Chars), NEW sign \in {<<>>, <<"-">>},
           NEW base, NEW v, SignThenPad(i, o, sign, base, v)
    PROVE  \/ IsNumber(i, o, sign, base, v)
           \/ sign = <<"-">> /\ BlanksBehindSign(i, o, base, v)
  <1> DEFINE S == Len(sign)
             M == Len(o)
  <1>1. PICK a \in S .. M, b \in 1 .. M :
           /\ IsNumeral(SubSeq(o, a + 1, b), base, v)
           /\ SubSeq(o, 1, S) = sign
           /\ Fills(i, o, S + b - a)
           /\ IF i.left THEN a = S /\ All(SubSeq(o, b + 1, M), Space)
                        ELSE b = M /\ All(SubSeq(o, S + 1, a), PadOf(i))
    BY Zenon DEF SignThenPad
  <1>2. M \in Nat /\ S \in {0, 1} /\ (S = 0 => sign = <<>>) /\ (S = 1 => sign = <<"-">>)
    <2>1. Len(<<"-">>) = 1 /\ Len(<<>>) = 0
      BY EmptySeq
    <2> QED  BY <2>1, LenProperties
  <1>a. S = Len(sign) /\ M = Len(o)
    OBVIOUS
  <1> HIDE DEF S, M
  <1>3. a \in Nat /\ b \in Nat /\ S <= a /\ a <= M /\ b <= M
    BY <1>1, <1>2
  <1>4. \A k \in Nat : SubSeq(o, k + 1, k) = <<>>
    <2> TAKE k \in Nat
    <2>1. Len(SubSeq(o, k + 1, k)) = 0
      OBVIOUS
    <2> QED  BY <2>1
  <1>5. \A ch : All(<<>>, ch)
    BY DEF All
  \* In front of the sign is nothing.
  <1>6. ASSUME i.left \/ i.zero PROVE IsNumber(i, o, sign, base, v)
    <2> DEFINE blanks == IF i.left \/ i.zero THEN 0 ELSE a - S
    <2>1. blanks = 0 /\ blanks + 1 = 1 /\ blanks + S = S /\ blanks + S + 1 = S + 1
      BY <1>2, <1>6
    <2>2. All(SubSeq(o, 1, blanks), Space)
      <3>1. SubSeq(o, 0 + 1, 0) = <<>> /\ 0 + 1 = 1
        BY <1>4
      <3> QED  BY <1>5, <2>1, <3>1
    <2>3. ~ i.left => b = M /\ All(SubSeq(o, blanks + S + 1, a), "0")
      BY <1>1, <1>6, <2>1 DEF PadOf
    <2>4. SubSeq(o, blanks + 1, blanks + S) = sign
      BY <1>1, <2>1
    <2> HIDE DEF blanks
    <2>5. IF i.left THEN a = S /\ All(SubSeq(o, b + 1, M), Space)
                    ELSE b = M /\ All(SubSeq(o, blanks + S + 1, a), "0")
      BY <1>1, <2>3
    <2> QED  BY <1>1, <1>a, <2>2, <2>4, <2>5, Zenon DEF IsNumber, blanks
  \* The sign is next to the number.
  <1>7. ASSUME ~ i.left, ~ i.zero, S = 0 \/ a = S PROVE IsNumber(i, o, sign, base, v)
    <2> DEFINE blanks == IF i.left \/ i.zero THEN 0 ELSE a - S
    <2>1. blanks = a - S /\ blanks + S = a /\ blanks + S + 1 = a + 1
      BY <1>3, <1>2, <1>7
    <2>2. /\ SubSeq(o, blanks + 1, blanks + S) = sign
          /\ All(SubSeq(o, 1, blanks), Space)
      <3>1. CASE S = 0
        <4>1. blanks = a /\ S + 1 = 1
          BY <1>3, <2>1, <3>1
        <4>2. SubSeq(o, a + 1, a) = sign
          BY <1>2, <1>3, <1>4, <3>1
        <4>3. All(SubSeq(o, 1, a), Space)
          BY <1>1, <1>7, <4>1 DEF PadOf
        <4> QED  BY <2>1, <4>1, <4>2, <4>3
      <3>2. CASE a = S
        <4>1. blanks = 0 /\ 0 + 1 = 1
          BY <1>3, <2>1, <3>2
        <4>2. SubSeq(o, 0 + 1, 0) = <<>>
          BY <1>4
        <4>3. SubSeq(o, blanks + 1, blanks + S) = sign
          BY <1>1, <2>1, <3>2, <4>1
        <4> HIDE DEF blanks
        <4>4. SubSeq(o, 1, blanks) = <<>>
          BY <4>1, <4>2
        <4> QED  BY <1>5, <4>3, <4>4
      <3> QED  BY <1>7, <3>1, <3>2
    <2>3. All(SubSeq(o, blanks + S + 1, a), "0")
      BY <1>3, <1>4, <1>5, <2>1
    <2> HIDE DEF blanks
    <2>4. IF i.left THEN a = S /\ All(SubSeq(o, b + 1, M), Space)
                    ELSE b = M /\ All(SubSeq(o, blanks + S + 1, a), "0")
      BY <1>1, <1>7, <2>3
    <2> QED  BY <1>1, <1>a, <2>2, <2>4, Zenon DEF IsNumber, blanks
  <1>8. ASSUME ~ i.left, ~ i.zero, S = 1, a # S
        PROVE  sign = <<"-">> /\ BlanksBehindSign(i, o, base, v)
    <2>1. sign = <<"-">> /\ b = M /\ a >= 2 /\ S + 1 = 2
      BY <1>1, <1>2, <1>3, <1>8
    <2>2. o[1] = "-"
      <3>1. SubSeq(o, 1, 1) = <<"-">> /\ 1 <= Len(o)
        BY <1>1, <1>3, <1>8, <1>a, <2>1
      <3>2. SubSeq(o, 1, 1)[1] = o[1]
        BY <1>2, <1>a, <3>1
      <3>3. <<"-">>[1] = "-"
        OBVIOUS
      <3> QED  BY <3>1, <3>2, <3>3, Zenon
    <2>3. All(SubSeq(o, 2, a), Space)
      BY <1>1, <1>8, <2>1 DEF PadOf
    <2>4. a # M
      <3>1. SubSeq(o, M + 1, M) = <<>>
        BY <1>2, <1>4
      <3>2. SubSeq(o, a + 1, M) # <<>>
        BY <1>1, <2>1 DEF IsNumeral
      <3> QED  BY <3>1, <3>2
    <2>5. a \in 2 .. Len(o) - 1
      BY <1>2, <1>3, <1>a, <2>1, <2>4
    <2>6. Len(o) = WidthOf(i)
      <3>1. M = IF S + b - a > WidthOf(i) THEN S + b - a ELSE WidthOf(i)
        BY <1>1, <1>a DEF Fills
      <3>2. S + b - a # M
        BY <1>2, <1>3, <1>8, <2>1
      <3> QED  BY <1>a, <3>1, <3>2
    <2>7. IsNumeral(SubSeq(o, a + 1, Len(o)), base, v)
      BY <1>1, <1>a, <2>1
    <2> QED  BY <1>8, <2>1, <2>2, <2>3, <2>5, <2>6, <2>7 DEF BlanksBehindSign
  <1> QED  BY <1>2, <1>6, <1>7, <1>8

LEMMA OnlyPadded ==
    ASSUME NEW i, NEW w \in Nat, NEW ds \in Seq(DigitChars), NEW part, Pads(i, part, ds, w, PadOf(i))
    PROVE  <<>> \o part = part
  <1>1. PICK m : /\ IsMissing(m, ds, w)
                 /\ i.left => part = ds \o Times(m, Space)
                 /\ ~ i.left => part = Times(m, PadOf(i)) \o ds
    BY DEF Pads
  <1>2. IsMissing(m, ds, w) /\ ds \in Seq(Chars) /\ PadOf(i) \in Chars
    BY <1>1, CharFacts, SeqMonotonic DEF PadOf
  <1>3. part \in Seq(Chars)
    <2>1. CASE i.left
      <3>1. part = ds \o Times(m, Space)
        BY <1>1, <2>1
      <3>2. TextFirst(part, ds, w)
        BY <1>2, <3>1, PaddedBehind
      <3> QED  BY <3>2 DEF TextFirst
    <2>2. CASE ~ i.left
      <3>1. part = Times(m, PadOf(i)) \o ds
        BY <1>1, <2>2
      <3>2. TextLast(part, ds, w, PadOf(i))
        BY <1>2, <3>1, PaddedInFront
      <3> QED  BY <3>2 DEF TextLast
    <2> QED  BY <2>1, <2>2
  <1> QED  BY <1>3, ConcatEmptySeq

(* A text, padded to its width.                                            *)
LEMMA TextPrinted ==
    ASSUME NEW i, WidthOf(i) \in Nat, NEW text \in Seq(Chars),
           NEW o, Pads(i, o, text, WidthOf(i), Space)
    PROVE  o \in Seq(Chars) /\ IsText(i, o, text)
  <1> DEFINE w == WidthOf(i)
             L == Len(text)
             P == Len(o)
  <1>a. text \in Seq(Chars) /\ w \in Nat /\ L = Len(text) /\ P = Len(o)
    OBVIOUS
  <1>1. PICK m : /\ IsMissing(m, text, w)
                 /\ i.left => o = text \o Times(m, Space)
                 /\ ~ i.left => o = Times(m, Space) \o text
    BY DEF Pads
  <1>b. Pads(i, o, text, w, Space)
    OBVIOUS
  <1>c. IsText(i, o, text) <=>
           /\ Fills(i, o, Len(text))
           /\ IF i.left THEN /\ SubSeq(o, 1, Len(text)) = text
                             /\ All(SubSeq(o, Len(text) + 1, Len(o)), Space)
              ELSE /\ SubSeq(o, Len(o) - Len(text) + 1, Len(o)) = text
                   /\ All(SubSeq(o, 1, Len(o) - Len(text)), Space)
    BY Zenon DEF IsText
  <1>d. Fills(i, o, Len(text)) <=> Len(o) = IF Len(text) > w THEN Len(text) ELSE w
    BY DEF Fills
  <1> HIDE DEF w, L, P
  <1>2. L \in Nat /\ L = Len(text)
    BY <1>a, LenProperties
  <1>3. /\ o \in Seq(Chars) /\ P = IF w > L THEN w ELSE L
        /\ i.left => /\ \A j \in 1 .. L : o[j] = text[j]
                     /\ \A j \in L + 1 .. P : o[j] = Space
        /\ ~ i.left => /\ \A j \in 1 .. L : o[(P - L) + j] = text[j]
                       /\ \A j \in 1 .. P - L : o[j] = Space
    <2>1. CASE i.left
      <3>1. o = text \o Times(m, Space)
        BY <1>1, <2>1
      <3>2. /\ o \in Seq(Chars) /\ Len(o) = IF w > Len(text) THEN w ELSE Len(text)
            /\ \A j \in 1 .. Len(text) : o[j] = text[j]
            /\ \A j \in Len(text) + 1 .. Len(o) : o[j] = Space
        <4>1. IsMissing(m, text, w)
          BY <1>1
        <4>2. TextFirst(o, text, w)
          BY <1>a, <3>1, <4>1, PaddedBehind
        <4> QED  BY <4>2 DEF TextFirst
      <3> QED  BY <1>a, <2>1, <3>2
    <2>2. CASE ~ i.left
      <3>1. o = Times(m, Space) \o text
        BY <1>1, <2>2
      <3>2. /\ o \in Seq(Chars) /\ Len(o) = IF w > Len(text) THEN w ELSE Len(text)
            /\ \A j \in 1 .. Len(text) : o[(Len(o) - Len(text)) + j] = text[j]
            /\ \A j \in 1 .. Len(o) - Len(text) : o[j] = Space
        <4>1. IsMissing(m, text, w)
          BY <1>1
        <4>2. TextLast(o, text, w, Space)
          BY <1>a, <3>1, <4>1, PaddedInFront, CharFacts
        <4> QED  BY <4>2 DEF TextLast
      <3> QED  BY <1>a, <2>2, <3>2
    <2> QED  BY <2>1, <2>2
  <1>4. P \in Nat /\ P = Len(o) /\ L <= P /\ P = IF L > w THEN L ELSE w
    BY <1>2, <1>3, <1>a
  <1>5. CASE i.left
    <2>1. SubSeq(o, 1, L) = text
      <3>1. ASSUME NEW j \in 1 .. L PROVE o[0 + j] = text[j]
        <4>1. 0 + j = j
          OBVIOUS
        <4> QED  BY <1>3, <1>5, <4>1
      <3>2. 0 \in Nat /\ 0 + L <= Len(o)
        BY <1>2, <1>4
      <3>3. SubSeq(o, 0 + 1, 0 + L) = text
        BY <1>2, <1>3, <1>a, <3>1, <3>2, PartIs
      <3>4. 0 + 1 = 1 /\ 0 + L = L
        BY <1>2
      <3> QED  BY <3>3, <3>4
    <2>2. All(SubSeq(o, L + 1, P), Space)
      <3>1. L + 1 \in 1 .. Len(o) + 1 /\ P \in 0 .. Len(o)
        BY <1>2, <1>4
      <3>2. \A k \in L + 1 .. P : o[k] = Space
        BY <1>3, <1>5
      <3> QED  BY <1>3, <3>1, <3>2, AllIs
    <2> QED  BY <1>2, <1>3, <1>4, <1>5, <1>c, <1>d, <2>1, <2>2
  <1>6. CASE ~ i.left
    <2> DEFINE a == P - L
    <2>0. a \in Nat /\ a + L = P /\ P - L = a
      BY <1>2, <1>4
    <2> HIDE DEF a
    <2>1. SubSeq(o, a + 1, P) = text
      <3>1. \A j \in 1 .. L : o[a + j] = text[j]
        BY <1>3, <1>6, <2>0
      <3>2. a + L <= Len(o)
        <4>1. a + L = Len(o) /\ Len(o) \in Nat
          BY <1>4, <2>0
        <4> QED  BY <4>1
      <3>3. SubSeq(o, a + 1, a + L) = text
        BY <1>2, <1>3, <1>a, <2>0, <3>1, <3>2, PartIs
      <3> QED  BY <2>0, <3>3
    <2>2. All(SubSeq(o, 1, a), Space)
      <3>1. 1 \in 1 .. Len(o) + 1 /\ a \in 0 .. Len(o)
        BY <1>2, <1>4, <2>0
      <3>2. \A k \in 1 .. a : o[k] = Space
        BY <1>3, <1>6, <2>0
      <3> QED  BY <1>3, <3>1, <3>2, AllIs
    <2> QED  BY <1>2, <1>3, <1>4, <1>6, <1>c, <1>d, <2>0, <2>1, <2>2
  <1> QED  BY <1>3, <1>5, <1>6

(* How a field is spelled: a, z and c say whether it has a minus, a zero   *)
(* and a conversion.                                                       *)
SpeltAs(i, text, a, z, c) ==
    LET N == Len(i.width)
    IN  /\ a \in {0, 1} /\ z \in {0, 1} /\ c \in {0, 1}
        /\ a = 1 <=> i.left
        /\ z = 1 <=> i.zero
        /\ c = 0 <=> i.conv = NUL
        /\ text \in Seq(Chars) /\ Len(text) = (((1 + a) + z) + N) + c
        /\ text[1] = "%"
        /\ a = 1 => text[2] = "-"
        /\ z = 1 => text[a + 2] = "0"
        /\ \A j \in 1 .. N : text[((1 + a) + z) + j] = i.width[j]
        /\ c = 1 => text[Len(text)] = i.conv

LEMMA FieldSpelled ==
    ASSUME NEW i, IsItem(i), ~ IsLiteral(i)
    PROVE  \E a, z, c : SpeltAs(i, Spelled(i), a, z, c)
  <1> DEFINE A == IF i.left THEN <<"-">> ELSE <<>>
             B == IF i.zero THEN <<"0">> ELSE <<>>
             C == IF i.conv = NUL THEN <<>> ELSE <<i.conv>>
             w == i.width
  <1>1. Spelled(i) = (((<<"%">> \o A) \o B) \o w) \o C
    BY Zenon DEF Spelled
  <1>2. w \in Seq(Chars) /\ i.conv \in Chars
    <2>1. w \in Seq(Figures) /\ i.conv \in Chars
      BY DEF IsItem
    <2> QED  BY <2>1, NumeralFacts, CharFacts, SeqMonotonic
  <1>3. (i.left => A = <<"-">>) /\ (~ i.left => A = <<>>)
    BY Zenon
  <1>4. (i.zero => B = <<"0">>) /\ (~ i.zero => B = <<>>)
    BY Zenon
  <1>5. C = IF i.conv = NUL THEN <<>> ELSE <<i.conv>>
    OBVIOUS
  <1> HIDE DEF A, B, C, w
  <1>6. PICK a \in {0, 1} : (a = 1 <=> i.left) /\ A = IF a = 1 THEN <<"-">> ELSE <<>>
    BY <1>3
  <1>7. PICK z \in {0, 1} : (z = 1 <=> i.zero) /\ B = IF z = 1 THEN <<"0">> ELSE <<>>
    BY <1>4
  <1>8. PICK c \in {0, 1} : (c = 0 <=> i.conv = NUL) /\ C = IF c = 1 THEN <<i.conv>> ELSE <<>>
    BY <1>5
  <1> DEFINE f == <<"%">> \o A
             g == f \o B
             h == g \o w
             o == h \o C
             N == Len(w)
  <1>9. A \in Seq(Chars) /\ Len(A) = a /\ (a = 1 => A[1] = "-")
    BY <1>6, CharFacts
  <1>10. B \in Seq(Chars) /\ Len(B) = z /\ (z = 1 => B[1] = "0")
    BY <1>7, CharFacts
  <1>11. C \in Seq(Chars) /\ Len(C) = c /\ (c = 1 => C[1] = i.conv)
    BY <1>2, <1>8
  <1>12. N \in Nat
    BY <1>2, LenProperties
  <1>13. <<"%">> \in Seq(Chars) /\ Len(<<"%">>) = 1 /\ <<"%">>[1] = "%"
    BY CharFacts
  <1>14. /\ f \in Seq(Chars) /\ Len(f) = 1 + a
         /\ \A j \in 1 .. 1 + a : f[j] = IF j <= 1 THEN <<"%">>[j] ELSE A[j - 1]
    BY <1>9, <1>13, ConcatProperties
  <1> HIDE DEF f
  <1>15. /\ g \in Seq(Chars) /\ Len(g) = (1 + a) + z
         /\ \A j \in 1 .. (1 + a) + z : g[j] = IF j <= 1 + a THEN f[j] ELSE B[j - (1 + a)]
    BY <1>10, <1>14, ConcatProperties
  <1> HIDE DEF g, N
  <1>16. N = Len(w)
    BY DEF N
  <1>17. /\ h \in Seq(Chars) /\ Len(h) = ((1 + a) + z) + N
         /\ \A j \in 1 .. ((1 + a) + z) + N :
                h[j] = IF j <= (1 + a) + z THEN g[j] ELSE w[j - ((1 + a) + z)]
    BY <1>2, <1>15, <1>16, ConcatProperties
  <1> HIDE DEF h
  <1>18. /\ o \in Seq(Chars) /\ Len(o) = (((1 + a) + z) + N) + c
         /\ \A j \in 1 .. (((1 + a) + z) + N) + c :
                o[j] = IF j <= ((1 + a) + z) + N THEN h[j] ELSE C[j - (((1 + a) + z) + N)]
    BY <1>11, <1>17, ConcatProperties
  <1>19. o = Spelled(i)
    BY <1>1 DEF f, g, h
  <1> HIDE DEF o
  <1>20. \A j \in 1 .. (1 + a) + z : o[j] = g[j]
    <2> TAKE j \in 1 .. (1 + a) + z
    <2>1. j \in 1 .. ((1 + a) + z) + N /\ j \in 1 .. (((1 + a) + z) + N) + c /\ j <= (1 + a) + z
      BY <1>12
    <2> QED  BY <1>12, <1>17, <1>18, <2>1
  <1>21. o[1] = "%" /\ (a = 1 => o[2] = "-")
    <2>1. 1 \in 1 .. (1 + a) + z /\ 1 \in 1 .. 1 + a
      OBVIOUS
    <2>2. o[1] = "%"
      BY <1>13, <1>14, <1>15, <1>20, <2>1
    <2>3. ASSUME a = 1 PROVE o[2] = "-"
      <3>1. 2 \in 1 .. (1 + a) + z /\ 2 \in 1 .. 1 + a /\ 2 - 1 = 1
        BY <2>3
      <3>2. o[2] = g[2] /\ g[2] = f[2] /\ f[2] = A[2 - 1]
        BY <1>14, <1>15, <1>20, <3>1
      <3> QED  BY <1>9, <2>3, <3>1, <3>2
    <2> QED  BY <2>2, <2>3
  <1>22. ASSUME z = 1 PROVE o[a + 2] = "0"
    <2>1. a + 2 \in 1 .. (1 + a) + z /\ ~ (a + 2 <= 1 + a) /\ (a + 2) - (1 + a) = 1
      BY <1>22
    <2> QED  BY <1>10, <1>15, <1>20, <1>22, <2>1
  <1>23. ASSUME NEW j \in 1 .. N PROVE o[((1 + a) + z) + j] = w[j]
    <2> DEFINE k == ((1 + a) + z) + j
    <2>1. /\ k \in 1 .. ((1 + a) + z) + N /\ k \in 1 .. (((1 + a) + z) + N) + c
          /\ ~ (k <= (1 + a) + z) /\ k - ((1 + a) + z) = j /\ k <= ((1 + a) + z) + N
      BY <1>12
    <2> HIDE DEF k
    <2> QED  BY <1>17, <1>18, <2>1 DEF k
  <1>24. ASSUME c = 1 PROVE o[Len(o)] = i.conv
    <2> DEFINE m == ((1 + a) + z) + N
    <2>1. Len(o) = m + 1 /\ m + 1 \in 1 .. m + c /\ ~ (m + 1 <= m) /\ (m + 1) - m = 1
      BY <1>12, <1>18, <1>24
    <2>2. \A j \in 1 .. m + c : o[j] = IF j <= m THEN h[j] ELSE C[j - m]
      BY <1>18
    <2> HIDE DEF m
    <2> QED  BY <1>11, <1>24, <2>1, <2>2
  <1>25. SpeltAs(i, o, a, z, c)
    BY <1>6, <1>7, <1>8, <1>16, <1>18, <1>21, <1>22, <1>23, <1>24 DEF SpeltAs, w
  <1> QED  BY <1>19, <1>25

(* The scan of a field that lies in fmt behind its first q characters.     *)
LiesAt(q, text) ==
    /\ q \in Nat /\ q + Len(text) <= Len(fmt)
    /\ \A j \in 1 .. Len(text) : fmt[q + j] = text[j]

LEMMA FieldScanned ==
    ASSUME NEW i, IsItem(i), ~ IsLiteral(i), NEW text, NEW a, NEW z, NEW c,
           SpeltAs(i, text, a, z, c), fmt \in Seq(Chars), NEW q, LiesAt(q, text), p = q + 1,
           c = 0 => Len(fmt) = q + Len(text)
    PROVE  /\ fmt[p] = "%" /\ (Left <=> a = 1) /\ (Zero <=> a = 0 /\ z = 1)
           /\ Conversion = q + Len(text) + 1 - c /\ CharAt(Conversion) = i.conv
           /\ FieldWidth = WidthOf(i)
  <1> DEFINE w == i.width
             N == Len(w)
             h == (1 + a) + z
             L == Len(text)
             F == Len(fmt)
  <1>1. /\ w \in Seq(Figures) /\ (w # <<>> => w[1] # "0")
        /\ i.conv \in Chars /\ i.conv \notin Figures /\ i.conv # "-"
    BY DEF IsItem
  <1>2. /\ a \in {0, 1} /\ z \in {0, 1} /\ c \in {0, 1} /\ (c = 0 <=> i.conv = NUL)
        /\ text[1] = "%" /\ (a = 1 => text[2] = "-") /\ (z = 1 => text[a + 2] = "0")
        /\ (c = 1 => text[L] = i.conv)
    BY DEF SpeltAs
  <1>3. /\ L = (h + N) + c /\ \A j \in 1 .. N : text[h + j] = w[j]
    BY DEF SpeltAs
  <1>4. /\ N \in Nat /\ (N > 0 => w[1] \in Figures /\ w[1] # "0" /\ w[1] # "-")
        /\ \A j \in 1 .. N : w[j] \in Figures
    <2>1. N \in Nat /\ (N > 0 => w # <<>> /\ 1 \in 1 .. N)
      BY <1>1, LenProperties, EmptySeq
    <2>2. \A j \in 1 .. N : w[j] \in Figures
      BY <1>1, ElementOfSeq
    <2> QED  BY <1>1, <2>1, <2>2, NumeralFacts
  <1>5. /\ F \in Nat /\ q \in Nat /\ q + L <= F /\ F = Len(fmt) /\ L = Len(text)
        /\ \A j \in 1 .. L : fmt[q + j] = text[j]
    BY LenProperties DEF LiesAt
  <1>6. h \in {1, 2, 3} /\ (c = 0 => F = q + L)
    BY <1>2
  <1>w. w = i.width /\ N = Len(w)
    OBVIOUS
  <1> HIDE DEF w, N, L, F
  <1>7. ASSUME NEW j \in 1 .. L PROVE CharAt(q + j) = text[j]
    <2>1. q + j <= F
      BY <1>3, <1>4, <1>5, <1>6
    <2> QED  BY <1>5, <2>1 DEF CharAt
  <1>8. c = 0 => CharAt(q + L + 1) = NUL
    BY <1>5, <1>6 DEF CharAt
  <1>9. fmt[p] = "%"
    BY <1>2, <1>3, <1>4, <1>5, <1>6
  <1>10. /\ p + 1 = q + 2 /\ p + 2 = q + 3
         /\ a = 1 => CharAt(q + 2) = "-"
         /\ a = 0 /\ z = 1 => CharAt(q + 2) = "0"
         /\ a = 0 /\ z = 0 => CharAt(q + 2) # "-" /\ CharAt(q + 2) # "0"
    <2>1. p + 1 = q + 2 /\ p + 2 = q + 3
      BY <1>5
    <2>2. ASSUME a = 1 PROVE CharAt(q + 2) = "-"
      <3>1. 2 \in 1 .. L
        BY <1>2, <1>3, <1>4, <2>2
      <3> QED  BY <1>2, <1>7, <2>2, <3>1
    <2>3. ASSUME a = 0, z = 1 PROVE CharAt(q + 2) = "0"
      <3>1. 2 \in 1 .. L /\ a + 2 = 2
        BY <1>2, <1>3, <1>4, <2>3
      <3> QED  BY <1>2, <1>7, <2>3, <3>1
    <2>4. ASSUME a = 0, z = 0 PROVE CharAt(q + 2) # "-" /\ CharAt(q + 2) # "0"
      <3>1. h = 1
        BY <2>4
      <3>2. CASE N > 0
        <4>1. 2 \in 1 .. L /\ 1 \in 1 .. N /\ h + 1 = 2
          BY <1>2, <1>3, <1>4, <3>1, <3>2
        <4>2. text[2] = w[1]
          BY <1>3, <4>1
        <4> QED  BY <1>4, <1>7, <3>2, <4>1, <4>2
      <3>3. CASE N = 0 /\ c = 1
        <4>1. L = 2 /\ 2 \in 1 .. L
          BY <1>3, <3>1, <3>3
        <4>2. CharAt(q + 2) = i.conv
          BY <1>2, <1>7, <3>3, <4>1
        <4> QED  BY <1>1, <4>2, NumeralFacts
      <3>4. CASE N = 0 /\ c = 0
        <4>1. L = 1 /\ q + L + 1 = q + 2
          BY <1>3, <1>5, <3>1, <3>4
        <4>2. CharAt(q + 2) = NUL
          BY <1>8, <3>4, <4>1
        <4>3. NUL # "-" /\ NUL # "0"
          BY DEF NUL
        <4> QED  BY <4>2, <4>3
      <3> QED  BY <1>2, <1>4, <3>2, <3>3, <3>4
    <2> QED  BY <2>1, <2>2, <2>3, <2>4
  <1>11. (Left <=> a = 1) /\ (Zero <=> a = 0 /\ z = 1)
    <2>1. "-" # "0"
      OBVIOUS
    <2>2. Left <=> a = 1
      BY <1>2, <1>10, <2>1 DEF Left
    <2>3. Zero <=> a = 0 /\ z = 1
      BY <1>2, <1>10, <2>1 DEF Zero
    <2> QED  BY <2>2, <2>3
  <1> DEFINE D == IF a = 1 /\ z = 1 THEN <<"0">> \o w ELSE w
             b == IF a = 1 /\ z = 1 THEN q + 3 ELSE (q + h) + 1
             K == ((q + h) + N) + 1
  <1>12. D \in Seq(Figures) /\ Value(D, 10) = WidthOf(i)
    BY <1>1, <1>w, LeadingZero DEF WidthOf
  <1>13. WidthFrom = b
    <2>1. Left \/ Zero <=> a = 1 \/ z = 1
      BY <1>2, <1>11
    <2>2. WidthFrom = IF a = 1 \/ z = 1 THEN q + 3 ELSE q + 2
      BY <1>10, <2>1 DEF WidthFrom
    <2> QED  BY <1>2, <1>5, <2>2
  <1>14. /\ b + Len(D) = K /\ Len(D) \in Nat /\ b \in Nat \ {0}
         /\ \A j \in 1 .. Len(D) : /\ (b - 1) + j <= F
                                   /\ fmt[(b - 1) + j] = D[j] /\ CharAt((b - 1) + j) = D[j]
    <2>1. CASE a = 1 /\ z = 1
      <3>0. D = <<"0">> \o w /\ b = q + 3 /\ h = 3
        BY <2>1
      <3>1. <<"0">> \in Seq(Figures) /\ Len(<<"0">>) = 1 /\ <<"0">>[1] = "0"
        BY NumeralFacts
      <3>2. /\ Len(D) = 1 + N
            /\ \A j \in 1 .. 1 + N : D[j] = IF j <= 1 THEN <<"0">>[j] ELSE w[j - 1]
        BY <1>1, <1>w, <3>0, <3>1, ConcatProperties
      <3> HIDE DEF D
      <3>3. ASSUME NEW j \in 1 .. 1 + N PROVE 2 + j \in 1 .. L /\ text[2 + j] = D[j]
        <4>1. 2 + j \in 1 .. L
          BY <1>2, <1>3, <1>4, <2>1
        <4>2. CASE j = 1
          <5>1. a + 2 = 2 + j /\ j <= 1
            BY <2>1, <4>2
          <5> QED  BY <1>2, <2>1, <3>1, <3>2, <4>1, <4>2, <5>1
        <4>3. CASE j # 1
          <5>1. j - 1 \in 1 .. N /\ h + (j - 1) = 2 + j /\ ~ (j <= 1)
            BY <1>4, <2>1, <4>3
          <5> QED  BY <1>3, <3>2, <4>1, <5>1
        <4> QED  BY <4>2, <4>3
      <3>4. ASSUME NEW j \in 1 .. 1 + N
            PROVE  (b - 1) + j <= F /\ fmt[(b - 1) + j] = D[j] /\ CharAt((b - 1) + j) = D[j]
        <4>1. (b - 1) + j = q + (2 + j)
          BY <1>5, <3>0
        <4>2. q + (2 + j) <= F
          BY <1>3, <1>4, <1>5, <1>6, <3>3
        <4> QED  BY <1>5, <1>7, <3>3, <4>1, <4>2
      <3>5. b + Len(D) = K /\ Len(D) \in Nat /\ b \in Nat \ {0}
        <4>1. N \in Nat /\ q \in Nat /\ Len(D) = 1 + N /\ b = q + 3 /\ h = 3
          BY <1>4, <1>5, <3>0, <3>2
        <4>2. K = ((q + h) + N) + 1
          OBVIOUS
        <4> HIDE DEF b, h, K
        <4> QED  BY <4>1, <4>2
      <3> HIDE DEF b, K
      <3> QED  BY <3>2, <3>4, <3>5
    <2>2. CASE ~ (a = 1 /\ z = 1)
      <3>0. D = w /\ b = (q + h) + 1
        BY <2>2
      <3> HIDE DEF D
      <3>1. ASSUME NEW j \in 1 .. N
            PROVE  (b - 1) + j <= F /\ fmt[(b - 1) + j] = D[j] /\ CharAt((b - 1) + j) = D[j]
        <4>1. (b - 1) + j = q + (h + j) /\ h + j \in 1 .. L
          BY <1>2, <1>3, <1>4, <1>5, <1>6, <3>0
        <4>2. q + (h + j) <= F
          BY <1>3, <1>4, <1>5, <1>6, <4>1
        <4> QED  BY <1>3, <1>5, <1>7, <3>0, <4>1, <4>2
      <3>2. b + Len(D) = K /\ Len(D) \in Nat /\ b \in Nat \ {0}
        <4>1. N \in Nat /\ q \in Nat /\ Len(D) = N /\ b = (q + h) + 1 /\ h \in {1, 2, 3}
          BY <1>4, <1>5, <1>6, <1>w, <3>0
        <4>2. K = ((q + h) + N) + 1
          OBVIOUS
        <4> HIDE DEF b, h, K
        <4> QED  BY <4>1, <4>2
      <3>3. Len(D) = N
        BY <1>w, <3>0
      <3> HIDE DEF b, K
      <3> QED  BY <3>1, <3>2, <3>3
    <2> QED  BY <2>1, <2>2
  <1>15. K = q + L + 1 - c /\ CharAt(K) = i.conv /\ K \in b .. F + 1
    <2>1. K = q + L + 1 - c
      BY <1>2, <1>3, <1>4, <1>5, <1>6
    <2>2. K \in b .. F + 1
      <3>1. b <= K
        BY <1>14
      <3> QED  BY <1>2, <1>4, <1>5, <1>6, <1>14, <2>1, <3>1
    <2>3. CASE c = 1
      <3>1. K = q + L /\ L \in 1 .. L
        BY <1>3, <1>4, <1>5, <1>6, <2>1, <2>3
      <3> QED  BY <1>2, <1>7, <2>1, <2>2, <2>3, <3>1
    <2>4. CASE c = 0
      <3>1. K = q + L + 1
        BY <1>3, <1>4, <1>5, <1>6, <2>1, <2>4
      <3> QED  BY <1>2, <1>8, <2>1, <2>2, <2>4, <3>1
    <2> QED  BY <1>2, <2>3, <2>4
  <1> HIDE DEF D, b, K
  <1>16. \A j \in b .. K - 1 : CharAt(j) \in Figures
    <2> TAKE j \in b .. K - 1
    <2>1. (j - b) + 1 \in 1 .. Len(D) /\ (b - 1) + ((j - b) + 1) = j
      BY <1>14, <1>15
    <2>2. CharAt(j) = D[(j - b) + 1]
      BY <1>14, <2>1
    <2> QED  BY <1>12, <2>1, <2>2, ElementOfSeq
  <1>17. Conversion = K
    <2> DEFINE Stops(k) == CharAt(k) \notin Figures /\ \A j \in b .. k - 1 : CharAt(j) \in Figures
    <2>1. Stops(K)
      BY <1>1, <1>15, <1>16
    <2>2. ASSUME NEW k \in b .. F + 1, Stops(k) PROVE k = K
      <3>1. k \in Int /\ K \in Int /\ b \in Int
        BY <1>14, <1>15
      <3>2. ~ (k < K)
        <4> SUFFICES ASSUME k < K PROVE FALSE
          OBVIOUS
        <4>1. k \in b .. K - 1
          BY <3>1
        <4> QED  BY <1>16, <2>2, <4>1
      <3>3. ~ (K < k)
        <4> SUFFICES ASSUME K < k PROVE FALSE
          OBVIOUS
        <4>1. K \in b .. k - 1
          BY <1>15, <3>1
        <4> QED  BY <2>1, <2>2, <4>1
      <3> QED  BY <3>1, <3>2, <3>3
    <2>3. Conversion = CHOOSE k \in b .. F + 1 : Stops(k)
      BY <1>5, <1>13, Zenon DEF Conversion
    <2> HIDE DEF Stops
    <2> QED  BY <1>15, <2>1, <2>2, <2>3
  <1>18. FieldWidth = WidthOf(i)
    <2>1. D \in Seq(Chars)
      BY <1>12, NumeralFacts, CharFacts, SeqMonotonic
    <2>2. b - 1 \in Nat /\ (b - 1) + Len(D) <= Len(fmt) /\ (b - 1) + 1 = b
          /\ (b - 1) + Len(D) = K - 1
      BY <1>5, <1>14, <1>15
    <2>3. SubSeq(fmt, (b - 1) + 1, (b - 1) + Len(D)) = D
      BY <1>14, <2>1, <2>2, PartIs
    <2>4. SubSeq(fmt, WidthFrom, Conversion - 1) = D
      BY <1>13, <1>17, <2>2, <2>3
    <2> QED  BY <1>12, <2>4 DEF FieldWidth
  <1> QED  BY <1>9, <1>11, <1>15, <1>17, <1>18 DEF L

(* Words, and the magnitude of a negative number.                          *)
LEMMA Words ==
    ASSUME NEW v \in Int
    PROVE  /\ Unsigned(v) \in 0 .. WordSize - 1
           /\ v \in 0 - (WordSize \div 2) .. -1 => Negated(v) = 0 - v /\ 0 - v \in 0 .. WordSize - 1
           /\ v \in 0 .. (WordSize \div 2) - 1 => v \in 0 .. WordSize - 1
  <1> DEFINE W == WordSize
             h == W \div 2
  <1>1. W \in Nat \ {0} /\ h \in Nat /\ W = 2 * h
    BY WordSizeAssumption
  <1>2. ASSUME NEW x \in Int PROVE x % W \in 0 .. W - 1
    BY <1>1
  <1>3. ASSUME NEW x \in 0 .. W - 1 PROVE (x - W) % W = x
    <2> DEFINE y == x - W
               k == y \div W
               m == y % W
    <2>1. y \in Int /\ y = x - W /\ W \in Nat \ {0}
      BY <1>1
    <2> HIDE DEF y, W
    <2>2. k \in Int /\ m \in 0 .. W - 1 /\ y = k * W + m
      BY <2>1
    <2> HIDE DEF k, m
    <2>3. (k + 1) * W = x - m /\ x - m < W /\ m - x < W
      BY <2>1, <2>2
    <2>4. k + 1 = 0
      <3>1. ASSUME k + 1 >= 1 PROVE FALSE
        <4>1. (k + 1) * W >= W
          BY <2>1, <2>2, <3>1
        <4> QED  BY <2>1, <2>2, <2>3, <4>1
      <3>2. ASSUME k + 1 <= -1 PROVE FALSE
        <4>1. (0 - (k + 1)) * W >= W
          BY <2>1, <2>2, <3>2
        <4>2. (0 - (k + 1)) * W = m - x
          BY <2>1, <2>2, <2>3
        <4> QED  BY <2>1, <2>2, <2>3, <4>1, <4>2
      <3> QED  BY <2>2, <3>1, <3>2
    <2>5. m = x
      <3>1. 0 * W = 0
        BY <2>1
      <3> QED  BY <2>2, <2>3, <2>4, <3>1
    <2> QED  BY <2>5 DEF m, y
  <1>4. Unsigned(v) = v % W
    BY DEF Unsigned
  <1>5. Negated(v) = (0 - Unsigned(v)) % W
    BY DEF Negated
  <1> HIDE DEF W, h
  <1>6. ASSUME v \in 0 - h .. -1 PROVE Negated(v) = 0 - v /\ 0 - v \in 0 .. W - 1
    <2>1. 0 - v \in 0 .. W - 1 /\ v + W \in 0 .. W - 1
      BY <1>1, <1>6
    <2>2. (v + W) - W = v /\ (0 - v) - W = 0 - (v + W)
      BY <1>1
    <2>3. ((v + W) - W) % W = v + W /\ ((0 - v) - W) % W = 0 - v
      BY <1>3, <2>1
    <2>4. Unsigned(v) = v + W
      BY <1>4, <2>2, <2>3, Zenon
    <2>5. Negated(v) = 0 - v
      BY <1>5, <2>2, <2>3, <2>4, Zenon
    <2> QED  BY <2>1, <2>5
  <1>7. ASSUME v \in 0 .. h - 1 PROVE v \in 0 .. W - 1
    BY <1>1, <1>7
  <1> QED  BY <1>2, <1>4, <1>6, <1>7 DEF W, h

(* What is printed of a field is what printf would, but in two cases.      *)
LEMMA FieldShown ==
    ASSUME NEW i, IsItem(i), ~ IsLiteral(i), Left <=> i.left, Zero <=> i.zero /\ ~ i.left,
           CharAt(Conversion) = i.conv, FieldWidth = WidthOf(i),
           i.conv \in Fetching => Head(args) = i.arg
    PROVE  Field \in Seq(Chars) /\ IsField(i, Field)
  <1>1. WidthOf(i) \in Nat
    <2>1. i.width \in Seq(Figures)
      BY DEF IsItem
    <2> QED  BY <2>1, LeadingZero DEF WidthOf
  <1>2. PadChar = PadOf(i)
    BY Zenon DEF PadChar, PadOf
  <1>a. \A o : AsPrintf(i, o) \/ SignBeforeBlanks(i, o) \/ WidthIgnored(i, o) => IsField(i, o)
    BY Zenon DEF IsField
  <1>3. CASE i.conv = "s"
    <2>1. Head(args) = i.arg /\ i.arg \in Seq(Chars)
      BY <1>3 DEF Fetching, IsItem
    <2>2. TextOf(i.arg) \in Seq(Chars)
      <3>1. <<"(", "n", "u", "l", "l", ")">> \in Seq(Chars)
        BY CharsAssumption
      <3> QED  BY <2>1, <3>1, Zenon DEF TextOf
    <2>3. Field = pad_and_print(TextOf(i.arg), WidthOf(i), Left, Space)
      BY <1>3, <2>1, Zenon DEF Field
    <2>4. Pads(i, Field, TextOf(i.arg), WidthOf(i), Space)
      BY <2>3, PadCases, Zenon
    <2>5. Field \in Seq(Chars) /\ IsText(i, Field, TextOf(i.arg))
      BY <1>1, <2>2, <2>4, TextPrinted
    <2>6. AsPrintf(i, Field)
      BY <1>3, <2>5, Zenon DEF AsPrintf, TextOf
    <2> QED  BY <1>a, <2>5, <2>6
  <1>4. CASE i.conv = "d"
    <2> DEFINE v == i.arg
               W == WidthOf(i)
    <2>1. Head(args) = v /\ v \in 0 - (WordSize \div 2) .. (WordSize \div 2) - 1
      BY <1>4 DEF Fetching, IsItem
    <2>2. Field = Signed(v)
      BY <1>4, <2>1, Zenon DEF Field
    <2>3. AsPrintf(i, Field) <=>
              IsNumber(i, Field, IF v < 0 THEN <<"-">> ELSE <<>>, 10, IF v < 0 THEN 0 - v ELSE v)
      BY <1>4, Zenon DEF AsPrintf
    <2>b. v < 0 /\ BlanksBehindSign(i, Field, 10, 0 - v) => SignBeforeBlanks(i, Field)
      BY <1>4, Zenon DEF BlanksBehindSign, SignBeforeBlanks
    <2>a. v \in Int /\ WordSize \div 2 \in Int
      BY <2>1, WordSizeAssumption
    <2> HIDE DEF v, W
    <2>4. CASE v < 0
      <3> DEFINE ds == uint_to_str(Negated(v), 10)
                 w == IF W > 0 THEN W - 1 ELSE W
                 part == pad_and_print(ds, w, Left, PadOf(i))
      <3>1. v \in 0 - (WordSize \div 2) .. -1
        BY <2>1, <2>4, <2>a
      <3>2. Negated(v) = 0 - v /\ Negated(v) \in 0 .. WordSize - 1
        BY <2>a, <3>1, Words
      <3>3. ds \in Seq(DigitChars) /\ IsNumeral(ds, 10, 0 - v)
        BY <3>2, NumeralMade
      <3>4. Signed(v) = <<"-">> \o part
        BY <1>2, <2>4, Zenon DEF Signed, W
      <3>5. Pads(i, part, ds, w, PadOf(i))
        BY PadCases, Zenon
      <3> HIDE DEF ds, w, part
      <3>6. W \in Nat /\ w = IF <<"-">> = <<>> \/ W = 0 THEN W ELSE W - 1
        BY <1>1 DEF w, W
      <3>7. Field \in Seq(Chars) /\ SignThenPad(i, Field, <<"-">>, 10, 0 - v)
        BY <2>2, <3>3, <3>4, <3>5, <3>6, NumberPrinted DEF W
      <3>8. \/ IsNumber(i, Field, <<"-">>, 10, 0 - v)
            \/ BlanksBehindSign(i, Field, 10, 0 - v)
        BY <1>1, <3>7, SignsAre
      <3> QED  BY <1>a, <2>3, <2>b, <2>4, <3>7, <3>8, Zenon
    <2>5. CASE ~ (v < 0)
      <3> DEFINE ds == uint_to_str(v, 10)
                 part == pad_and_print(ds, W, Left, PadOf(i))
      <3>1. v \in 0 .. (WordSize \div 2) - 1
        BY <2>1, <2>5, <2>a
      <3>2. v \in 0 .. WordSize - 1
        BY <2>a, <3>1, Words
      <3>3. ds \in Seq(DigitChars) /\ IsNumeral(ds, 10, v)
        BY <3>2, NumeralMade
      <3>4. Signed(v) = part
        BY <1>2, <2>5, Zenon DEF Signed, W
      <3>5. Pads(i, part, ds, W, PadOf(i))
        BY PadCases, Zenon
      <3> HIDE DEF ds, part
      <3>6. W \in Nat /\ W = IF <<>> = <<>> \/ W = 0 THEN W ELSE W - 1
        BY <1>1 DEF W
      <3>7. <<>> \o part \in Seq(Chars) /\ SignThenPad(i, <<>> \o part, <<>>, 10, v)
        BY <3>3, <3>5, <3>6, NumberPrinted DEF W
      <3>8. <<>> \o part = part
        BY OnlyPadded, <3>3, <3>5, <3>6
      <3>9. IsNumber(i, <<>> \o part, <<>>, 10, v)
        BY <1>1, <3>7, SignsAre
      <3> QED  BY <1>a, <2>2, <2>3, <2>5, <3>4, <3>7, <3>8, <3>9, Zenon
    <2> QED  BY <2>4, <2>5
  <1>5. ASSUME NEW base \in {10, 16}, i.conv = IF base = 10 THEN "u" ELSE "x"
        PROVE  Field \in Seq(Chars) /\ IsField(i, Field)
    <2> DEFINE v == Unsigned(i.arg)
               W == WidthOf(i)
               ds == uint_to_str(v, base)
               part == pad_and_print(ds, W, Left, PadOf(i))
    <2>1. i.conv \in {"u", "x"} /\ Head(args) = i.arg /\ i.arg \in Int
      BY <1>5 DEF Fetching, IsItem
    <2>2. v \in 0 .. WordSize - 1 /\ v = i.arg % WordSize
      BY <2>1, Words DEF Unsigned
    <2>3. ds \in Seq(DigitChars) /\ IsNumeral(ds, base, v)
      BY <1>5, <2>2, NumeralMade
    <2>4. Field = part
      <3>1. CASE base = 10
        <4>1. i.conv = "u"
          BY <1>5, <3>1
        <4> QED  BY <1>2, <2>1, <3>1, <4>1, Zenon DEF Field
      <3>2. CASE base = 16
        <4>1. i.conv = "x"
          BY <1>5, <3>2
        <4> QED  BY <1>2, <2>1, <3>2, <4>1, Zenon DEF Field
      <3> QED  BY <1>5, <3>1, <3>2
    <2>5. Pads(i, part, ds, W, PadOf(i))
      BY PadCases, Zenon
    <2>6. AsPrintf(i, Field) <=> IsNumber(i, Field, <<>>, base, v)
      <3>1. CASE base = 10
        <4>1. i.conv = "u"
          BY <1>5, <3>1
        <4> QED  BY <2>2, <3>1, <4>1, Zenon DEF AsPrintf
      <3>2. CASE base = 16
        <4>1. i.conv = "x"
          BY <1>5, <3>2
        <4> QED  BY <2>2, <3>2, <4>1, Zenon DEF AsPrintf
      <3> QED  BY <1>5, <3>1, <3>2
    <2> HIDE DEF ds, part, v, W
    <2>7. W \in Nat /\ W = IF <<>> = <<>> \/ W = 0 THEN W ELSE W - 1
      BY <1>1 DEF W
    <2>8. <<>> \o part \in Seq(Chars) /\ SignThenPad(i, <<>> \o part, <<>>, base, v)
      BY <2>3, <2>5, <2>7, NumberPrinted DEF W
    <2>9. <<>> \o part = part
      BY OnlyPadded, <2>3, <2>5, <2>7
    <2>10. IsNumber(i, <<>> \o part, <<>>, base, v)
      BY <1>1, <2>8, SignsAre
    <2> QED  BY <1>a, <2>4, <2>6, <2>8, <2>9, <2>10, Zenon
  <1>6. CASE i.conv = "u"
    BY <1>5, <1>6
  <1>7. CASE i.conv = "x"
    BY <1>5, <1>7
  <1>8. CASE i.conv = "c"
    <2>1. Head(args) = i.arg /\ i.arg \in Seq(Chars) /\ Len(i.arg) = 1
      BY <1>8 DEF Fetching, IsItem
    <2>2. Field = i.arg
      BY <1>8, <2>1, Zenon DEF Field
    <2>3. CASE WidthOf(i) > 1
      <3>1. WidthIgnored(i, Field)
        BY <1>8, <2>2, <2>3 DEF WidthIgnored
      <3> QED  BY <1>a, <2>1, <2>2, <3>1
    <2>4. CASE ~ (WidthOf(i) > 1)
      <3> DEFINE o == i.arg
      <3>1. o \in Seq(Chars) /\ Len(o) = 1
        BY <2>1
      <3> HIDE DEF o
      <3>2. Fills(i, o, Len(o))
        BY <1>1, <2>4, <3>1 DEF Fills
      <3>3. SubSeq(o, 1, Len(o)) = o /\ SubSeq(o, Len(o) - Len(o) + 1, Len(o)) = o
        <4>1. SubSeq(o, 1, Len(o)) = o
          BY <3>1, SubSeqFull
        <4>2. Len(o) - Len(o) + 1 = 1
          BY <3>1
        <4> QED  BY <4>1, <4>2
      <3>4. /\ All(SubSeq(o, Len(o) + 1, Len(o)), Space)
            /\ All(SubSeq(o, 1, Len(o) - Len(o)), Space)
        <4>1. /\ Len(o) + 1 \in 1 .. Len(o) + 1 /\ Len(o) \in 0 .. Len(o)
              /\ 1 \in 1 .. Len(o) + 1 /\ Len(o) - Len(o) \in 0 .. Len(o)
              /\ \A k \in Len(o) + 1 .. Len(o) : o[k] = Space
              /\ \A k \in 1 .. Len(o) - Len(o) : o[k] = Space
          BY <3>1
        <4> QED  BY <3>1, <4>1, AllIs
      <3>5. IsText(i, o, o)
        BY <3>2, <3>3, <3>4, Zenon DEF IsText
      <3>6. AsPrintf(i, o)
        BY <1>8, <3>5, Zenon DEF AsPrintf, o
      <3> QED  BY <1>a, <2>2, <3>1, <3>6 DEF o
    <2> QED  BY <2>3, <2>4
  <1>9. CASE i.conv = "%"
    <2>1. Field = <<"%">>
      BY <1>9, Zenon DEF Field
    <2>2. <<"%">> \in Seq(Chars)
      BY CharFacts
    <2>3. AsPrintf(i, Field)
      BY <1>9, <2>1, Zenon DEF AsPrintf
    <2> QED  BY <1>a, <2>1, <2>2, <2>3
  <1>10. CASE i.conv \notin {"s", "d", "u", "x", "c", "%"}
    <2>1. Field = <<"%", i.conv>>
      BY <1>10, Zenon DEF Field
    <2>2. i.conv \in Chars
      BY DEF IsItem
    <2>3. <<"%", i.conv>> \in Seq(Chars)
      BY <2>2, CharFacts
    <2>4. ~ Specified(i)
      BY <1>10 DEF Specified
    <2> QED  BY <2>1, <2>3, <2>4, Zenon DEF IsField
  <1> QED  BY <1>3, <1>4, <1>6, <1>7, <1>8, <1>9, <1>10

(* What a caller prints: its items, and where each of them lies.           *)
LEMMA ItemsAre ==
    ASSUME NEW items \in Prints
    PROVE  /\ Len(items) \in Nat /\ DOMAIN items = 1 .. Len(items)
           /\ \A k \in 1 .. Len(items) :
                 /\ IsItem(items[k])
                 /\ ~ IsLiteral(items[k]) /\ items[k].conv = NUL => k = Len(items)
  <1>1. items \in Seq({items[k] : k \in DOMAIN items})
    BY PrintsAssumption
  <1>2. Len(items) \in Nat /\ DOMAIN items = 1 .. Len(items)
    BY <1>1, LenProperties
  <1> QED  BY <1>2, PrintsAssumption

LEMMA SpelledIs ==
    ASSUME NEW i, IsItem(i)
    PROVE  /\ Spelled(i) \in Seq(Chars) /\ Len(Spelled(i)) \in Nat \ {0}
           /\ IsLiteral(i) => /\ Spelled(i) = <<i.lit>> /\ Len(Spelled(i)) = 1
                              /\ Spelled(i)[1] # "%"
  <1>1. CASE IsLiteral(i)
    <2>1. Spelled(i) = <<i.lit>> /\ i.lit \in Chars /\ i.lit # "%"
      BY <1>1 DEF Spelled, IsItem
    <2> QED  BY <2>1
  <1>2. CASE ~ IsLiteral(i)
    <2>1. PICK a, z, c : SpeltAs(i, Spelled(i), a, z, c)
      BY <1>2, FieldSpelled
    <2>2. i.width \in Seq(Figures)
      BY <1>2 DEF IsItem
    <2>3. Len(i.width) \in Nat
      BY <2>2, LenProperties
    <2>4. /\ Spelled(i) \in Seq(Chars) /\ a \in {0, 1} /\ z \in {0, 1} /\ c \in {0, 1}
          /\ Len(Spelled(i)) = (((1 + a) + z) + Len(i.width)) + c
      BY <2>1 DEF SpeltAs
    <2>5. Len(Spelled(i)) \in Nat \ {0}
      <3> DEFINE L == Len(Spelled(i))
                 N == Len(i.width)
      <3>1. L = (((1 + a) + z) + N) + c /\ N \in Nat
        BY <2>3, <2>4
      <3> HIDE DEF L, N
      <3>2. L \in Nat \ {0}
        BY <2>4, <3>1
      <3> QED  BY <3>2 DEF L
    <2> QED  BY <1>2, <2>4, <2>5
  <1> QED  BY <1>1, <1>2

RowsAs(items, A, f, g) ==
    /\ f \in Seq(Seq(Chars)) /\ Len(f) = Len(items) /\ Format(items) = InARow(f)
    /\ g \in Seq(Seq(A)) /\ Len(g) = Len(items) /\ Arguments(items) = InARow(g)
    /\ \A k \in 1 .. Len(items) : f[k] = Spelled(items[k]) /\ g[k] = Given(items[k])

LEMMA RowsOf ==
    ASSUME NEW items \in Prints, NEW A, \A m \in 1 .. Len(items) : items[m].arg \in A
    PROVE  \E f, g : RowsAs(items, A, f, g)
  <1> DEFINE N == Len(items)
             f == [k \in 1 .. N |-> Spelled(items[k])]
             g == [k \in 1 .. N |-> Given(items[k])]
  <1>1. N \in Nat /\ DOMAIN items = 1 .. N /\ \A k \in 1 .. N : IsItem(items[k])
    BY ItemsAre
  <1>2. Format(items) = InARow(f) /\ Arguments(items) = InARow(g)
    BY <1>1 DEF Format, Arguments
  <1>3. \A k \in 1 .. N : Spelled(items[k]) \in Seq(Chars)
    BY <1>1, SpelledIs
  <1>4. ASSUME NEW k \in 1 .. N PROVE Given(items[k]) \in Seq(A)
    <2>1. items[k].arg \in A
      OBVIOUS
    <2>2. <<items[k].arg>> \in Seq(A) /\ <<>> \in Seq(A)
      BY <2>1
    <2> QED  BY <2>2, Zenon DEF Given
  <1>a. N = Len(items)
    OBVIOUS
  <1> HIDE DEF N
  <1>5. f \in Seq(Seq(Chars)) /\ Len(f) = N /\ \A k \in 1 .. N : f[k] = Spelled(items[k])
    BY <1>1, <1>3
  <1>6. g \in Seq(Seq(A)) /\ Len(g) = N /\ \A k \in 1 .. N : g[k] = Given(items[k])
    BY <1>1, <1>4
  <1> HIDE DEF f, g
  <1>7. RowsAs(items, A, f, g)
    BY <1>2, <1>5, <1>6, <1>a DEF RowsAs
  <1> QED  BY <1>7

(* What the arguments are taken from.                                      *)
ArgsOf(items) == {items[m].arg : m \in 1 .. Len(items)}

LEMMA PrintIs ==
    ASSUME NEW items \in Prints, NEW N, N = Len(items)
    PROVE  /\ Format(items)[0] = <<>> /\ Arguments(items)[0] = <<>>
           /\ Format(items)[N] \in Seq(Chars) /\ Arguments(items)[N] \in Seq(ArgsOf(items))
           /\ \A k \in 0 .. N : Len(Format(items)[k]) \in Nat /\ Len(Arguments(items)[k]) \in Nat
           /\ \A k \in 1 .. N : /\ HasPlace(Format(items), Spelled(items[k]), k, N)
                                /\ HasPlace(Arguments(items), Given(items[k]), k, N)
  <1> DEFINE A == ArgsOf(items)
             F == Format(items)
             G == Arguments(items)
  <1>1. N \in Nat /\ \A m \in 1 .. Len(items) : items[m].arg \in A
    BY ItemsAre DEF ArgsOf
  <1> HIDE DEF A
  <1>a. PICK f, g : RowsAs(items, A, f, g)
    BY <1>1, RowsOf
  <1>2. /\ f \in Seq(Seq(Chars)) /\ Len(f) = N /\ F = InARow(f)
        /\ g \in Seq(Seq(A)) /\ Len(g) = N /\ G = InARow(g)
        /\ \A k \in 1 .. N : f[k] = Spelled(items[k]) /\ g[k] = Given(items[k])
    BY <1>a DEF RowsAs
  <1> HIDE DEF F, G
  <1>3. F \in [0 .. N -> Seq(Chars)] /\ F[0] = <<>> /\ G \in [0 .. N -> Seq(A)] /\ G[0] = <<>>
    BY <1>2, RowChain
  <1>4. ASSUME NEW k \in 0 .. N PROVE Len(F[k]) \in Nat /\ Len(G[k]) \in Nat
    <2>1. F[k] \in Seq(Chars) /\ G[k] \in Seq(A)
      BY <1>3
    <2> QED  BY <2>1, LenProperties
  <1>5. ASSUME NEW k \in 1 .. N
        PROVE  HasPlace(F, Spelled(items[k]), k, N) /\ HasPlace(G, Given(items[k]), k, N)
    <2>1. k \in 1 .. Len(f) /\ k \in 1 .. Len(g)
      BY <1>2
    <2>2. HasPlace(F, f[k], k, Len(f)) /\ HasPlace(G, g[k], k, Len(g))
      BY <1>2, <2>1, RowPlaces
    <2> QED  BY <1>2, <2>2
  <1>6. F[N] \in Seq(Chars) /\ G[N] \in Seq(A)
    <2>1. N \in 0 .. N
      BY <1>1
    <2> QED  BY <1>3, <2>1
  <1> QED  BY <1>3, <1>4, <1>5, <1>6 DEF A, F, G

----------------------------------------------------------------------------
(* The steps of kprintf.  The inductive invariant: nothing is printed, or  *)
(* the first N items are, p stands behind them in the format, and the      *)
(* arguments behind theirs are left; a NUL that ends a conversion has been *)
(* stepped over.                                                           *)

PrintedTo(N) ==
    /\ print \in Prints /\ out \in Seq(Seq(Chars)) /\ N = Len(out) /\ N <= Len(print)
    /\ fmt = Format(print)[Len(print)]
    /\ args = SubSeq(Arguments(print)[Len(print)], Len(Arguments(print)[N]) + 1,
                     Len(Arguments(print)[Len(print)]))
    /\ \A k \in 1 .. N : IsField(print[k], out[k])
    /\ \/ p = Len(Format(print)[N]) + 1
       \/ /\ N = Len(print) /\ N > 0 /\ ~ IsLiteral(print[N]) /\ print[N].conv = NUL
          /\ p = Len(fmt) + 2

FmtInv == FmtInit \/ PrintedTo(Len(out))

LEMMA CallInv == ASSUME FmtInv, CallKprintf PROVE FmtInv'
  <1>1. /\ print = <<>> /\ print' \in Prints
        /\ fmt' = Format(print')[Len(print')] /\ args' = Arguments(print')[Len(print')]
        /\ p' = p /\ out' = out
    BY DEF CallKprintf
  <1>2. out = <<>> /\ p = 1
    <2>1. CASE FmtInit
      BY <2>1 DEF FmtInit
    <2>2. CASE PrintedTo(Len(out))
      <3>1. /\ print \in Prints /\ out \in Seq(Seq(Chars)) /\ Len(out) <= Len(print)
            /\ p = Len(Format(print)[Len(out)]) + 1 \/ Len(out) > 0
        BY <2>2 DEF PrintedTo
      <3>2. Len(print) = 0 /\ Len(out) \in Nat
        BY <1>1, <3>1, EmptySeq, LenProperties
      <3>3. out = <<>> /\ Len(out) = 0
        BY <3>1, <3>2, EmptySeq
      <3>4. Format(print)[0] = <<>>
        BY <3>1, PrintIs
      <3>5. p = Len(<<>>) + 1
        BY <3>1, <3>3, <3>4
      <3> QED  BY <3>3, <3>5, EmptySeq
    <2> QED  BY <2>1, <2>2 DEF FmtInv
  <1> DEFINE items == print'
             M == Len(items)
             G == Arguments(items)
  <1>3. /\ Format(items)[0] = <<>> /\ G[0] = <<>> /\ G[M] \in Seq(ArgsOf(items))
    BY <1>1, PrintIs
  <1>4. M \in Nat
    BY <1>1, ItemsAre
  <1>5. SubSeq(G[M], Len(G[0]) + 1, Len(G[M])) = G[M]
    <2>1. Len(G[0]) + 1 = 1
      BY <1>3, EmptySeq
    <2>2. SubSeq(G[M], 1, Len(G[M])) = G[M]
      BY <1>3, SubSeqFull
    <2> QED  BY <2>1, <2>2
  <1>6. out' \in Seq(Seq(Chars)) /\ Len(out') = 0 /\ out' = <<>>
    BY <1>1, <1>2, EmptySeq
  <1>7. p' = Len(Format(items)[Len(out')]) + 1
    BY <1>1, <1>2, <1>3, <1>6, EmptySeq
  <1>8. args' = SubSeq(G[M], Len(G[Len(out')]) + 1, Len(G[M]))
    BY <1>1, <1>5, <1>6
  <1>9. \A k \in 1 .. Len(out') : IsField(items[k], out'[k])
    BY <1>6
  <1>10. PrintedTo(Len(out))'
    <2>1. Len(out') <= Len(print')
      BY <1>4, <1>6
    <2> QED  BY <1>1, <1>6, <1>7, <1>8, <1>9, <2>1, Zenon DEF PrintedTo
  <1> QED  BY <1>10 DEF FmtInv

(* The item that a step prints next.                                       *)
NextItem == print[Len(out) + 1]
Place == Len(Format(print)[Len(out)])
Taken == Len(Arguments(print)[Len(out)])

LEMMA NextIs ==
    ASSUME FmtInv, Scanning
    PROVE  /\ PrintedTo(Len(out)) /\ p = Place + 1 /\ Place \in Nat /\ fmt \in Seq(Chars)
           /\ Len(out) \in Nat /\ Len(out) + 1 \in 1 .. Len(print) /\ Len(print) \in Nat
           /\ IsItem(NextItem) /\ LiesAt(Place, Spelled(NextItem))
           /\ HasPlace(Format(print), Spelled(NextItem), Len(out) + 1, Len(print))
           /\ HasPlace(Arguments(print), Given(NextItem), Len(out) + 1, Len(print))
  <1> DEFINE N == Len(out)
             M == Len(print)
             F == Format(print)
  <1>1. print # <<>> /\ p <= Len(fmt)
    BY DEF Scanning
  <1>2. PrintedTo(N)
    BY <1>1 DEF FmtInv, FmtInit
  <1>3. /\ print \in Prints /\ out \in Seq(Seq(Chars)) /\ N <= M /\ fmt = F[M]
        /\ p = Len(F[N]) + 1 \/ (N = M /\ p = Len(fmt) + 2)
    BY <1>2 DEF PrintedTo
  <1>4. /\ M \in Nat /\ \A k \in 1 .. M : IsItem(print[k])
    BY <1>3, ItemsAre
  <1>5. /\ F[M] \in Seq(Chars) /\ \A k \in 0 .. M : Len(F[k]) \in Nat
        /\ \A k \in 1 .. M : /\ HasPlace(F, Spelled(print[k]), k, M)
                             /\ HasPlace(Arguments(print), Given(print[k]), k, M)
    BY <1>3, PrintIs
  <1>6. N \in Nat
    BY <1>3, LenProperties
  <1> HIDE DEF N, M, F
  <1>7. p = Len(F[N]) + 1 /\ Len(F[N]) \in Nat /\ Len(fmt) \in Nat
    <2>1. N \in 0 .. M /\ M \in 0 .. M
      BY <1>3, <1>4, <1>6
    <2>2. Len(F[N]) \in Nat /\ Len(fmt) \in Nat
      BY <1>3, <1>5, <2>1
    <2>3. p # Len(fmt) + 2
      BY <1>1, <2>2
    <2> QED  BY <1>3, <2>2, <2>3
  <1>8. N # M
    BY <1>1, <1>3, <1>7
  <1>9. N + 1 \in 1 .. M
    BY <1>3, <1>4, <1>6, <1>8
  <1>10. /\ IsItem(NextItem) /\ HasPlace(F, Spelled(NextItem), N + 1, M)
         /\ HasPlace(Arguments(print), Given(NextItem), N + 1, M)
    BY <1>4, <1>5, <1>9 DEF NextItem, N
  <1>11. LiesAt(Len(F[N]), Spelled(NextItem))
    <2>1. (N + 1) - 1 = N
      BY <1>6
    <2>2. /\ Len(F[N + 1]) = Len(F[N]) + Len(Spelled(NextItem)) /\ Len(F[N + 1]) <= Len(F[M])
          /\ \A j \in 1 .. Len(Spelled(NextItem)) : F[M][Len(F[N]) + j] = Spelled(NextItem)[j]
      BY <1>10, <2>1 DEF HasPlace
    <2> QED  BY <1>3, <1>7, <2>2 DEF LiesAt
  <1> QED  BY <1>2, <1>3, <1>4, <1>5, <1>6, <1>7, <1>9, <1>10, <1>11 DEF Place, N, M, F

(* The next argument, and what is left behind it.                          *)
LEMMA ArgsAre ==
    ASSUME FmtInv, Scanning
    PROVE  LET G == Arguments(print)
               M == Len(print)
               N == Len(out)
           IN  /\ Given(NextItem) # <<>> => Head(args) = Given(NextItem)[1]
               /\ (IF Given(NextItem) = <<>> THEN args ELSE Tail(args))
                      = SubSeq(G[M], Len(G[N + 1]) + 1, Len(G[M]))
  <1> DEFINE G == Arguments(print)
             M == Len(print)
             N == Len(out)
             g == Given(NextItem)
             given == G[M]
  <1>1. /\ PrintedTo(N) /\ N \in Nat /\ N + 1 \in 1 .. M
        /\ HasPlace(G, g, N + 1, M)
    BY NextIs
  <1>2. print \in Prints /\ args = SubSeq(given, Len(G[N]) + 1, Len(given))
    BY <1>1 DEF PrintedTo
  <1>3. given \in Seq(ArgsOf(print)) /\ Len(G[N]) \in Nat /\ Len(G[N + 1]) \in Nat
    <2>1. N \in 0 .. M /\ N + 1 \in 0 .. M
      BY <1>1
    <2> QED  BY <1>2, <2>1, PrintIs
  <1>4. Len(given) \in Nat
    BY <1>3, LenProperties
  <1>5. /\ Len(G[N + 1]) = Len(G[N]) + Len(g) /\ Len(G[N + 1]) <= Len(given)
        /\ \A j \in 1 .. Len(g) : given[Len(G[N]) + j] = g[j]
    <2>1. (N + 1) - 1 = N
      BY <1>1
    <2> QED  BY <1>1, <2>1 DEF HasPlace
  <1>6. g = <<>> \/ g = <<NextItem.arg>>
    BY Zenon DEF Given
  <1>7. args = SubSeq(given, Len(G[N]) + 1, Len(given))
    BY <1>2
  <1> DEFINE a == Len(G[N])
             b == Len(G[N + 1])
  <1> SUFFICES /\ g # <<>> => Head(args) = g[1]
               /\ (IF g = <<>> THEN args ELSE Tail(args)) = SubSeq(given, b + 1, Len(given))
    OBVIOUS
  <1> HIDE DEF g, given, a, b
  <1>8. CASE g = <<>>
    <2>1. Len(g) = 0
      BY <1>8, EmptySeq
    <2>2. b = a
      BY <1>3, <1>5, <2>1 DEF a, b
    <2> QED  BY <1>7, <1>8, <2>2 DEF a
  <1>9. CASE g # <<>>
    <2>1. Len(g) = 1
      BY <1>6, <1>9
    <2>2. b = a + 1 /\ b <= Len(given) /\ given[a + 1] = g[1] /\ a \in Nat
      BY <1>3, <1>5, <2>1 DEF a, b
    <2>3. a + 1 \in 1 .. Len(given) /\ Len(given) \in a + 1 .. Len(given) /\ (a + 1) + 1 = b + 1
      BY <1>4, <2>2
    <2>4. /\ Head(SubSeq(given, a + 1, Len(given))) = given[a + 1]
          /\ Tail(SubSeq(given, a + 1, Len(given))) = SubSeq(given, (a + 1) + 1, Len(given))
      BY <1>3, <2>3, HeadTailOfSubSeq
    <2> QED  BY <1>7, <1>9, <2>2, <2>3, <2>4, Zenon DEF a
  <1> QED  BY <1>8, <1>9

(* A step that prints the next item, takes its argument and goes on behind *)
(* it keeps the invariant.                                                 *)
LEMMA ItemPrinted ==
    ASSUME FmtInv, Scanning, NEW text \in Seq(Chars), IsField(NextItem, text),
           out' = Append(out, text), print' = print, fmt' = fmt,
           args' = IF Given(NextItem) = <<>> THEN args ELSE Tail(args),
           \/ p' = (Place + Len(Spelled(NextItem))) + 1
           \/ /\ Len(out) + 1 = Len(print) /\ ~ IsLiteral(NextItem) /\ NextItem.conv = NUL
              /\ p' = Len(fmt) + 2
    PROVE  FmtInv'
  <1> DEFINE N == Len(out)
             M == Len(print)
             F == Format(print)
             G == Arguments(print)
  <1>1. /\ PrintedTo(N) /\ N \in Nat /\ N + 1 \in 1 .. M /\ M \in Nat
        /\ HasPlace(F, Spelled(NextItem), N + 1, M)
    BY NextIs
  <1>2. /\ print \in Prints /\ out \in Seq(Seq(Chars)) /\ fmt = F[M]
        /\ \A k \in 1 .. N : IsField(print[k], out[k])
    BY <1>1 DEF PrintedTo
  <1>3. /\ out' \in Seq(Seq(Chars)) /\ Len(out') = N + 1
        /\ \A k \in 1 .. N : out'[k] = out[k]
        /\ out'[N + 1] = text
    BY <1>2, AppendProperties
  <1>4. ASSUME NEW k \in 1 .. N + 1 PROVE IsField(print[k], out'[k])
    <2>1. CASE k = N + 1
      BY <1>3, <2>1 DEF NextItem
    <2>2. CASE k # N + 1
      <3>1. k \in 1 .. N
        BY <1>1, <2>2
      <3> QED  BY <1>2, <1>3, <3>1
    <2> QED  BY <2>1, <2>2
  <1>5. args' = SubSeq(G[M], Len(G[N + 1]) + 1, Len(G[M]))
    BY ArgsAre
  <1>6. Len(F[N + 1]) = Place + Len(Spelled(NextItem))
    <2>1. (N + 1) - 1 = N
      BY <1>1
    <2> QED  BY <1>1, <2>1 DEF HasPlace, Place
  <1>7. \/ p' = Len(F[N + 1]) + 1
        \/ /\ N + 1 = M /\ N + 1 > 0 /\ ~ IsLiteral(print[N + 1]) /\ print[N + 1].conv = NUL
           /\ p' = Len(fmt) + 2
    BY <1>1, <1>6 DEF NextItem
  <1>8. PrintedTo(Len(out))'
    <2>1. N + 1 <= M
      BY <1>1
    <2> DEFINE K == Len(out')
    <2>2. K = N + 1
      BY <1>3
    <2> HIDE DEF K
    <2>3. /\ print' \in Prints /\ out' \in Seq(Seq(Chars)) /\ K = Len(out') /\ K <= Len(print')
          /\ fmt' = Format(print')[Len(print')]
          /\ args' = SubSeq(Arguments(print')[Len(print')], Len(Arguments(print')[K]) + 1,
                            Len(Arguments(print')[Len(print')]))
          /\ \A k \in 1 .. K : IsField(print'[k], out'[k])
          /\ \/ p' = Len(Format(print')[K]) + 1
             \/ /\ K = Len(print') /\ K > 0 /\ ~ IsLiteral(print'[K]) /\ print'[K].conv = NUL
                /\ p' = Len(fmt') + 2
      BY <1>2, <1>3, <1>4, <1>5, <1>7, <2>1, <2>2 DEF K
    <2> QED  BY <2>3, Zenon DEF PrintedTo, K
  <1> QED  BY <1>8 DEF FmtInv

LEMMA LiteralInv == ASSUME FmtInv, Literal PROVE FmtInv'
  <1> DEFINE i == NextItem
  <1>1. /\ Scanning /\ fmt[p] # "%" /\ out' = Append(out, <<fmt[p]>>) /\ p' = p + 1
        /\ print' = print /\ fmt' = fmt /\ args' = args
    BY DEF Literal
  <1>2. /\ p = Place + 1 /\ Place \in Nat /\ IsItem(i) /\ LiesAt(Place, Spelled(i))
    BY <1>1, NextIs
  <1> HIDE DEF i
  <1>3. Len(Spelled(i)) \in Nat \ {0}
    BY <1>2, SpelledIs
  <1>4. fmt[p] = Spelled(i)[1]
    <2>1. 1 \in 1 .. Len(Spelled(i))
      BY <1>3
    <2> QED  BY <1>2, <2>1 DEF LiesAt
  <1>5. IsLiteral(i)
    <2>1. ASSUME ~ IsLiteral(i) PROVE FALSE
      <3>1. PICK a, z, c : SpeltAs(i, Spelled(i), a, z, c)
        BY <1>2, <2>1, FieldSpelled
      <3>2. Spelled(i)[1] = "%"
        BY <3>1 DEF SpeltAs
      <3> QED  BY <1>1, <1>4, <3>2
    <2> QED  BY <2>1
  <1>6. Spelled(i) = <<i.lit>> /\ Len(Spelled(i)) = 1 /\ Spelled(i) \in Seq(Chars)
    BY <1>2, <1>5, SpelledIs
  <1>7. <<fmt[p]>> = Spelled(i)
    BY <1>4, <1>6
  <1>8. <<fmt[p]>> \in Seq(Chars) /\ IsField(i, <<fmt[p]>>)
    <2>1. <<fmt[p]>> \in Seq(Chars) /\ <<fmt[p]>> = <<i.lit>>
      BY <1>6, <1>7
    <2>2. IsField(i, <<i.lit>>)
      BY <1>5, Zenon DEF IsField
    <2> QED  BY <2>1, <2>2, Zenon
  <1>9. Given(i) = <<>>
    BY <1>5, Zenon DEF Given
  <1>10. p' = (Place + Len(Spelled(i))) + 1
    BY <1>1, <1>2, <1>6
  <1> QED  BY <1>1, <1>8, <1>9, <1>10, ItemPrinted DEF i

LEMMA ConvertInv == ASSUME FmtInv, Convert PROVE FmtInv'
  <1> DEFINE i == NextItem
             text == Spelled(i)
             N == Len(out)
             M == Len(print)
  <1>1. /\ Scanning /\ fmt[p] = "%" /\ out' = Append(out, Field) /\ p' = Conversion + 1
        /\ print' = print /\ fmt' = fmt
        /\ args' = IF CharAt(Conversion) \in Fetching THEN Tail(args) ELSE args
    BY DEF Convert
  <1>2. /\ PrintedTo(N) /\ p = Place + 1 /\ Place \in Nat /\ fmt \in Seq(Chars)
        /\ N \in Nat /\ N + 1 \in 1 .. M /\ M \in Nat
        /\ IsItem(i) /\ LiesAt(Place, text) /\ HasPlace(Format(print), text, N + 1, M)
    BY <1>1, NextIs
  <1>3. print \in Prints /\ fmt = Format(print)[M]
    BY <1>2 DEF PrintedTo
  <1>4. ~ IsLiteral(i) /\ i.conv = NUL => N + 1 = M
    BY <1>2, <1>3, ItemsAre DEF NextItem
  <1> HIDE DEF i, N, M
  <1>5. Len(text) \in Nat \ {0}
    BY <1>2, SpelledIs
  <1>6. ~ IsLiteral(i)
    <2>1. 1 \in 1 .. Len(text)
      BY <1>5
    <2>2. fmt[p] = text[1]
      BY <1>2, <2>1 DEF LiesAt
    <2> QED  BY <1>1, <1>2, <2>2, SpelledIs
  <1>7. PICK a, z, c : SpeltAs(i, text, a, z, c)
    BY <1>2, <1>6, FieldSpelled
  <1>8. /\ a \in {0, 1} /\ c \in {0, 1} /\ (a = 1 <=> i.left) /\ (z = 1 <=> i.zero)
        /\ c = 0 <=> i.conv = NUL
    BY <1>7 DEF SpeltAs
  <1> HIDE DEF text
  <1>9. N + 1 = M => Len(fmt) = Place + Len(text)
    <2>1. (N + 1) - 1 = N
      BY <1>2
    <2> QED  BY <1>2, <1>3, <2>1 DEF HasPlace, Place, N
  <1>10. c = 0 => Len(fmt) = Place + Len(text)
    BY <1>4, <1>6, <1>8, <1>9
  <1>11. /\ (Left <=> a = 1) /\ (Zero <=> a = 0 /\ z = 1)
         /\ Conversion = Place + Len(text) + 1 - c /\ CharAt(Conversion) = i.conv
         /\ FieldWidth = WidthOf(i)
    BY <1>2, <1>6, <1>7, <1>10, FieldScanned
  <1>12. (Left <=> i.left) /\ (Zero <=> i.zero /\ ~ i.left)
    BY <1>8, <1>11
  <1>13. Given(i) = IF i.conv \in Fetching THEN <<i.arg>> ELSE <<>>
    BY <1>6, Zenon DEF Given
  <1>14. i.conv \in Fetching => Given(i) # <<>> /\ Given(i)[1] = i.arg
    BY <1>13
  <1>15. i.conv \in Fetching => Head(args) = i.arg
    BY <1>1, <1>14, ArgsAre DEF i
  <1>16. Field \in Seq(Chars) /\ IsField(i, Field)
    BY <1>2, <1>6, <1>11, <1>12, <1>15, FieldShown
  <1>17. args' = IF Given(i) = <<>> THEN args ELSE Tail(args)
    BY <1>1, <1>11, <1>13, <1>14, Zenon
  <1>18. \/ p' = (Place + Len(text)) + 1
         \/ N + 1 = M /\ ~ IsLiteral(i) /\ i.conv = NUL /\ p' = Len(fmt) + 2
    <2>1. CASE c = 1
      <3>1. p' = (Place + Len(text)) + 1
        BY <1>1, <1>2, <1>5, <1>11, <2>1
      <3> QED  BY <3>1
    <2>2. CASE c = 0
      <3>1. p' = Len(fmt) + 2
        BY <1>1, <1>2, <1>5, <1>10, <1>11, <2>2
      <3> QED  BY <1>4, <1>6, <1>8, <2>2, <3>1
    <2> QED  BY <1>8, <2>1, <2>2
  <1> QED  BY <1>1, <1>16, <1>17, <1>18, ItemPrinted DEF i, N, M, text

LEMMA FmtInvStep == ASSUME FmtInv, [FmtNext]_fmtVars PROVE FmtInv'
  <1>1. CASE CallKprintf
    BY <1>1, CallInv
  <1>2. CASE Literal
    BY <1>2, LiteralInv
  <1>3. CASE Convert
    BY <1>3, ConvertInv
  <1>4. CASE ReturnKprintf
    BY <1>4 DEF ReturnKprintf, FmtInv, FmtInit
  <1>5. CASE UNCHANGED fmtVars
    BY <1>5 DEF fmtVars, FmtInv, FmtInit, PrintedTo
  <1> QED  BY <1>1, <1>2, <1>3, <1>4, <1>5 DEF FmtNext

(* When the scan has reached the end of the format, no item is left.       *)
LEMMA AllPrinted == ASSUME FmtInv PROVE OnlySignsAndCharsDiffer
  <1> DEFINE N == Len(out)
             M == Len(print)
             F == Format(print)
  <1> SUFFICES ASSUME Printed
               PROVE  /\ N = M
                      /\ \A k \in DOMAIN print : IsField(print[k], out[k])
                      /\ p = Len(fmt) + 1 \/ print[M].conv = NUL
    BY DEF OnlySignsAndCharsDiffer
  <1>1. print # <<>> /\ p > Len(fmt)
    BY DEF Printed
  <1>2. PrintedTo(N)
    BY <1>1 DEF FmtInv, FmtInit
  <1>3. /\ print \in Prints /\ out \in Seq(Seq(Chars)) /\ N <= M /\ fmt = F[M]
        /\ \A k \in 1 .. N : IsField(print[k], out[k])
        /\ \/ p = Len(F[N]) + 1
           \/ N = M /\ print[N].conv = NUL
    BY <1>2 DEF PrintedTo
  <1>4. /\ M \in Nat /\ DOMAIN print = 1 .. M /\ \A k \in 1 .. M : IsItem(print[k])
    BY <1>3, ItemsAre
  <1>5. /\ \A k \in 0 .. M : Len(F[k]) \in Nat
        /\ \A k \in 1 .. M : HasPlace(F, Spelled(print[k]), k, M)
    BY <1>3, PrintIs
  <1>6. N \in Nat
    BY <1>3, LenProperties
  <1> HIDE DEF N, M, F
  <1>7. N = M
    <2> SUFFICES ASSUME N # M PROVE FALSE
      OBVIOUS
    <2>1. N + 1 \in 1 .. M /\ N \in 0 .. M /\ M \in 0 .. M /\ (N + 1) - 1 = N
      BY <1>3, <1>4, <1>6
    <2> DEFINE L == Len(Spelled(print[N + 1]))
    <2>2. L \in Nat \ {0}
      BY <1>4, <2>1, SpelledIs
    <2>3. Len(F[N + 1]) = Len(F[N]) + L /\ Len(F[N + 1]) <= Len(F[M])
      <3>1. HasPlace(F, Spelled(print[N + 1]), N + 1, M)
        BY <1>5, <2>1
      <3> QED  BY <2>1, <3>1 DEF HasPlace
    <2>4. p = Len(F[N]) + 1 /\ Len(F[N]) \in Nat /\ Len(F[M]) \in Nat
      BY <1>3, <1>5, <2>1
    <2> HIDE DEF L
    <2> QED  BY <1>1, <1>3, <2>2, <2>3, <2>4
  <1> QED  BY <1>3, <1>4, <1>7

(* Of the conversions that kprintf.h lists, kprintf prints what printf     *)
(* would, except for the place of the sign in front of blanks and the      *)
(* width of %c, and nothing is left out: whatever its callers spell, with  *)
(* flags in the order it takes them, for every word size and every scratch *)
(* buffer that takes the digits of a word.                                 *)
THEOREM KprintfPrints == FmtSpec => []OnlySignsAndCharsDiffer
  <1>1. FmtInit => FmtInv
    BY DEF FmtInv
  <1>2. FmtInv /\ [FmtNext]_fmtVars => FmtInv'
    BY FmtInvStep
  <1>3. FmtInv => OnlySignsAndCharsDiffer
    BY AllPrinted
  <1> QED  BY <1>1, <1>2, <1>3, PTL DEF FmtSpec
=============================================================================
