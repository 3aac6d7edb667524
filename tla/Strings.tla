------------------------------ MODULE Strings ------------------------------
(***************************************************************************)
(* The memory and string functions of kernel/string.c.  The functions are  *)
(* loops that move two pointers and count down; a call takes one step per  *)
(* round of its loop.  Memory is a handful of bytes, 0 ends a string.      *)
(*                                                                         *)
(* Callers keep to what C requires: objects that exist, strings that end,  *)
(* and, for every function but memmove, source and destination apart.      *)
(***************************************************************************)
EXTENDS Integers

CONSTANTS
    MemSize,    \* bytes of memory
    ByteMax     \* the largest byte

ASSUME MemSizeAssumption == MemSize \in Nat
ASSUME ByteMaxAssumption == ByteMax \in Nat

Addr  == 0 .. MemSize - 1
Bytes == 0 .. ByteMax

Writers   == {"memset", "memcpy", "memmove", "strcpy", "strncpy"}
Comparers == {"memcmp", "strlen", "strcmp", "strncmp"}
(* dest and src are the first and the second pointer that the function     *)
(* takes; strlen has the second only.                                      *)
Calls == [fn : Writers \cup Comparers, dest : 0 .. MemSize, src : 0 .. MemSize,
          n : 0 .. MemSize, val : Bytes]
NoCall == [fn |-> "none", dest |-> 0, src |-> 0, n |-> 0, val |-> 0]

VARIABLES
    bytes,      \* the memory
    before,     \* what it held when the call was made
    call,       \* the call that is being executed
    d, s, n,    \* its pointers and its count, or strlen's len
    ret,
    loop        \* which loop it is in

strVars == <<bytes, before, call, d, s, n, ret, loop>>

StrInit ==
    /\ bytes \in [Addr -> Bytes] /\ before = bytes
    /\ call = NoCall
    /\ d = 0 /\ s = 0 /\ n = 0 /\ ret = 0
    /\ loop = "idle"

----------------------------------------------------------------------------
(* The legal calls.                                                        *)

(* The string at a ends at z.                                              *)
Ends(m, a, z) ==
    z \in Addr /\ a <= z /\ m[z] = 0 /\ \A k \in a .. z - 1 : m[k] # 0
IsString(m, a) == \E z \in Addr : Ends(m, a, z)
Exists(a, size) == a + size <= MemSize
Apart(a, asize, b, bsize) == a + asize <= b \/ b + bsize <= a

Legal(m, c) ==
    CASE c.fn = "memset"  -> Exists(c.dest, c.n) /\ c.src = 0
      [] c.fn = "memcpy"  -> /\ Exists(c.dest, c.n) /\ Exists(c.src, c.n)
                             /\ Apart(c.dest, c.n, c.src, c.n)
                             /\ c.val = 0
      [] c.fn = "memmove" -> Exists(c.dest, c.n) /\ Exists(c.src, c.n) /\ c.val = 0
      [] c.fn = "memcmp"  -> Exists(c.dest, c.n) /\ Exists(c.src, c.n) /\ c.val = 0
      [] c.fn = "strlen"  -> IsString(m, c.src) /\ c.dest = 0 /\ c.n = 0 /\ c.val = 0
      [] c.fn = "strcmp"  -> /\ IsString(m, c.dest) /\ IsString(m, c.src)
                             /\ c.n = 0 /\ c.val = 0
      [] c.fn = "strncmp" -> /\ Exists(c.dest, c.n) \/ IsString(m, c.dest)
                             /\ Exists(c.src, c.n) \/ IsString(m, c.src)
                             /\ c.val = 0
      [] c.fn = "strcpy"  -> /\ \E z \in Addr :
                                  /\ Ends(m, c.src, z)
                                  /\ Exists(c.dest, z - c.src + 1)
                                  /\ Apart(c.dest, z - c.src + 1, c.src, z - c.src + 1)
                             /\ c.n = 0 /\ c.val = 0
      [] c.fn = "strncpy" -> /\ Exists(c.dest, c.n)
                             /\ \/ Exists(c.src, c.n) /\ Apart(c.dest, c.n, c.src, c.n)
                                \/ \E z \in Addr :
                                     /\ Ends(m, c.src, z)
                                     /\ Apart(c.dest, c.n, c.src, z - c.src + 1)
                             /\ c.val = 0

----------------------------------------------------------------------------
(* memmove copies upwards when dest is below src, downwards when above.    *)
\* Mutant of Direction: the test is forgotten, as if memcpy would do.
DirectionUp(c) == "forward"
Direction(c) ==
    IF c.dest < c.src THEN "forward" ELSE IF c.dest > c.src THEN "backward" ELSE "same"

FirstLoop(c) ==
    CASE c.fn = "memset"  -> "fill"
      [] c.fn = "memcpy"  -> "forward"
      [] c.fn = "memmove" -> Direction(c)
      [] c.fn = "memcmp"  -> "compare"
      [] c.fn = "strlen"  -> "measure"
      [] c.fn \in {"strcmp", "strncmp"} -> "match"
      [] c.fn = "strcpy"  -> "copy"
      [] c.fn = "strncpy" -> "copyn"

Enter ==
    /\ loop = "idle"
    /\ \E c \in Calls :
          /\ Legal(bytes, c)
          /\ call' = c
          /\ loop' = FirstLoop(c)
          /\ d' = IF FirstLoop(c) = "backward" THEN c.dest + c.n ELSE c.dest
          /\ s' = IF FirstLoop(c) = "backward" THEN c.src + c.n ELSE c.src
          /\ n' = c.n
    /\ before' = bytes
    /\ UNCHANGED <<bytes, ret>>

Return(value) ==
    /\ ret' = value /\ loop' = "return"
    /\ UNCHANGED <<bytes, before, call, d, s, n>>

Store(a, value) == bytes' = [bytes EXCEPT ![a] = value]
Advance(by) == d' = d + by /\ s' = s + by
Going == UNCHANGED <<before, call, ret, loop>>

(* memset *)
Fill ==
    /\ loop = "fill" /\ n > 0
    /\ Store(d, call.val)
    /\ d' = d + 1 /\ n' = n - 1
    /\ UNCHANGED s /\ Going

(* memcpy, and memmove to a lower address *)
Forward ==
    /\ loop = "forward" /\ n > 0
    /\ Store(d, bytes[s])
    /\ Advance(1) /\ n' = n - 1 /\ Going

(* memmove to a higher address: *--d = *--s *)
Backward ==
    /\ loop = "backward" /\ n > 0
    /\ Store(d - 1, bytes[s - 1])
    /\ Advance(-1) /\ n' = n - 1 /\ Going

Copied ==
    /\ loop = "same" \/ (loop \in {"fill", "forward", "backward"} /\ n = 0)
    /\ Return(call.dest)

(* memcmp *)
Compare ==
    /\ loop = "compare" /\ n > 0 /\ bytes[d] = bytes[s]
    /\ Advance(1) /\ n' = n - 1
    /\ UNCHANGED bytes /\ Going
Compared ==
    /\ loop = "compare"
    /\ \/ n = 0 /\ Return(0)
       \/ n > 0 /\ bytes[d] # bytes[s] /\ Return(bytes[d] - bytes[s])

(* strlen *)
Measure ==
    /\ loop = "measure" /\ bytes[s + n] # 0
    /\ n' = n + 1
    /\ UNCHANGED <<bytes, d, s>> /\ Going
Measured == loop = "measure" /\ bytes[s + n] = 0 /\ Return(n)

(* strcmp, and strncmp, which counts as well *)
Counting == call.fn = "strncmp"
Alike == bytes[d] # 0 /\ bytes[s] # 0 /\ bytes[d] = bytes[s]
Match ==
    /\ loop = "match" /\ (Counting => n > 0) /\ Alike
    /\ Advance(1) /\ n' = IF Counting THEN n - 1 ELSE n
    /\ UNCHANGED bytes /\ Going
Matched ==
    /\ loop = "match"
    /\ \/ Counting /\ n = 0 /\ Return(0)
       \/ (Counting => n > 0) /\ ~ Alike /\ Return(bytes[d] - bytes[s])

(* strcpy stores the terminator, too *)
Copy ==
    /\ loop = "copy"
    /\ Store(d, bytes[s])
    /\ Advance(1)
    /\ IF bytes[s] = 0 THEN loop' = "return" /\ ret' = call.dest
                       ELSE UNCHANGED <<loop, ret>>
    /\ UNCHANGED <<before, call, n>>

(* strncpy: at most n characters, and zeroes for the rest *)
CopyN ==
    /\ loop = "copyn" /\ n > 0 /\ bytes[s] # 0
    /\ Store(d, bytes[s])
    /\ Advance(1) /\ n' = n - 1 /\ Going
CopiedN ==
    /\ loop = "copyn" /\ ~ (n > 0 /\ bytes[s] # 0)
    /\ loop' = "pad"
    /\ UNCHANGED <<bytes, before, call, d, s, n, ret>>
Pad ==
    /\ loop = "pad" /\ n > 0
    /\ Store(d, 0)
    /\ d' = d + 1 /\ n' = n - 1
    /\ UNCHANGED s /\ Going
Padded == loop = "pad" /\ n = 0 /\ Return(call.dest)

(* The caller has its result.                                              *)
Leave ==
    /\ loop = "return"
    /\ call' = NoCall /\ d' = 0 /\ s' = 0 /\ n' = 0 /\ ret' = 0
    /\ loop' = "idle"
    /\ before' = bytes
    /\ UNCHANGED bytes

StrStep ==
    \/ Fill \/ Forward \/ Backward \/ Copied \/ Compare \/ Compared
    \/ Measure \/ Measured \/ Match \/ Matched
    \/ Copy \/ CopyN \/ CopiedN \/ Pad \/ Padded

StrNext == Enter \/ StrStep \/ Leave

StrSpec == StrInit /\ [][StrNext]_strVars

----------------------------------------------------------------------------
(* Properties.                                                             *)

(* Byte a of the memory, when size bytes from src have been copied.        *)
Moved(a, size) ==
    IF call.dest <= a /\ a < call.dest + size
    THEN before[a - call.dest + call.src] ELSE before[a]

(* What a writing function leaves: its destination holds what the source   *)
(* held when the call was made, even where the two overlap (memmove), and  *)
(* no other byte has changed.                                              *)
Written ==
    CASE call.fn = "memset" ->
            \A a \in Addr : bytes[a] =
                IF call.dest <= a /\ a < call.dest + call.n THEN call.val ELSE before[a]
      [] call.fn \in {"memcpy", "memmove"} ->
            \A a \in Addr : bytes[a] = Moved(a, call.n)
      [] call.fn = "strcpy" ->
            \A z \in Addr : Ends(before, call.src, z) =>
                \A a \in Addr : bytes[a] = Moved(a, z - call.src + 1)
      [] call.fn = "strncpy" ->
            \/ \E z \in Addr :
                 /\ Ends(before, call.src, z) /\ z < call.src + call.n
                 /\ \A a \in Addr : bytes[a] =
                      IF call.dest + (z - call.src) <= a /\ a < call.dest + call.n
                      THEN 0 ELSE Moved(a, z - call.src)
            \/ /\ \A k \in call.src .. call.src + call.n - 1 : before[k] # 0
               /\ \A a \in Addr : bytes[a] = Moved(a, call.n)
      [] OTHER -> bytes = before

(* Where the two arguments first differ: k bytes on.                       *)
Same(k) == \A j \in 0 .. k - 1 : before[call.dest + j] = before[call.src + j]
Difference(k) == before[call.dest + k] - before[call.src + k]
NoEnd(k) == \A j \in 0 .. k - 1 : before[call.dest + j] # 0

(* What a comparing function answers.                                      *)
Answer ==
    CASE call.fn = "memcmp" ->
            \/ ret = 0 /\ Same(call.n)
            \/ \E k \in 0 .. call.n - 1 :
                  Same(k) /\ ret = Difference(k) /\ ret # 0
      [] call.fn = "strlen" -> Ends(before, call.src, call.src + ret)
      [] call.fn = "strcmp" ->
            \E k \in 0 .. MemSize - 1 :
                /\ NoEnd(k) /\ Same(k) /\ ret = Difference(k)
                /\ ret # 0 \/ before[call.dest + k] = 0
      [] call.fn = "strncmp" ->
            \/ ret = 0 /\ NoEnd(call.n) /\ Same(call.n)
            \/ \E k \in 0 .. call.n - 1 :
                /\ NoEnd(k) /\ Same(k) /\ ret = Difference(k)
                /\ ret # 0 \/ before[call.dest + k] = 0
      [] OTHER -> ret = call.dest

(* Every function keeps the promise that its header comment and the C      *)
(* standard make, for every legal call.                                    *)
StringsKeepTheirPromise == loop = "return" => Written /\ Answer
=============================================================================
