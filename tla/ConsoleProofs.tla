--------------------------- MODULE ConsoleProofs ---------------------------
(***************************************************************************)
(* Proofs about the text console and the string functions, for every       *)
(* screen, every set of characters and texts of every length: the screen   *)
(* shows the last lines of the text, memmove moves overlapping bytes as    *)
(* they were, vsnprintf fills its buffer and no more, and                  *)
(* vfs_normalize_path works in place and follows "." and "..".             *)
(*                                                                         *)
(* What a loop computes is a recursive function of the number of rounds.   *)
(* Facts about it are proved by looking at the least number of rounds for  *)
(* which they fail.                                                        *)
(***************************************************************************)
EXTENDS Console, TLAPS, SequenceTheorems, WellFoundedInduction

-----------------------------------------------------------------------------
(* Loops.                                                                  *)

(* If a set does not contain every natural number, there is a least one    *)
(* that it does not contain.                                               *)
LEMMA LeastMissing ==
  ASSUME NEW T \in SUBSET Nat, NEW m \in Nat, m \notin T
  PROVE  \E n \in Nat : n \notin T /\ \A k \in Nat : k < n => k \in T
<1> DEFINE S == Nat \ T
<1>1. S \subseteq Nat /\ S # {}
  OBVIOUS
<1>2. PICK n \in S : \A j \in S : <<j, n>> \notin OpToRel(<, Nat)
  BY <1>1, NatLessThanWellFounded, WFMin, Zenon
<1>3. \A k \in Nat : k < n => k \in T
  BY <1>2 DEF OpToRel
<1> QED
  BY <1>2, <1>3

(* What holds before the first round and is kept by each of n rounds       *)
(* holds after each of them.                                               *)
LEMMA UpTo ==
  ASSUME NEW n \in Nat, NEW T, 0 \in T, \A k \in 1 .. n : k - 1 \in T => k \in T
  PROVE  \A k \in 0 .. n : k \in T
<1> DEFINE U == {k \in Nat : k <= n => k \in T}
<1>1. SUFFICES ASSUME NEW m \in 0 .. n, m \notin U PROVE FALSE
  OBVIOUS
<1>2. PICK k \in Nat : k \notin U /\ \A j \in Nat : j < k => j \in U
  <2>1. U \in SUBSET Nat /\ m \in Nat
    OBVIOUS
  <2> HIDE DEF U
  <2> QED
    BY <1>1, <2>1, LeastMissing
<1>3. k <= n /\ k \notin T
  BY <1>2
<1>4. k # 0 /\ k - 1 \in Nat /\ k \in 1 .. n
  BY <1>3
<1>5. k - 1 \in T
  BY <1>2, <1>3, <1>4
<1> QED
  BY <1>3, <1>4, <1>5

(* f goes from b through n rounds of step. *)
Iterates(f, n, b, step) ==
  f[0] = b /\ \A k \in 1 .. n : f[k] = step[<<k, f[k - 1]>>]

(* A loop whose rounds stay in S has a history. *)
LEMMA HistoryExists ==
  ASSUME NEW N \in Nat, NEW S, NEW b \in S, NEW step \in [(1 .. N) \X S -> S]
  PROVE  \E f \in [0 .. N -> S] : Iterates(f, N, b, step)
<1> DEFINE T == {n \in 0 .. N : \E f \in [0 .. n -> S] : Iterates(f, n, b, step)}
<1>1. 0 \in T
  <2>1. [k \in 0 .. 0 |-> b] \in [0 .. 0 -> S] /\ Iterates([k \in 0 .. 0 |-> b], 0, b, step)
    BY DEF Iterates
  <2> QED
    BY <2>1
<1>2. ASSUME NEW n \in 1 .. N, n - 1 \in T PROVE n \in T
  <2>1. PICK g \in [0 .. n - 1 -> S] : Iterates(g, n - 1, b, step)
    BY <1>2
  <2> DEFINE h == [k \in 0 .. n |-> IF k = n THEN step[<<n, g[n - 1]>>] ELSE g[k]]
  <2>2. step[<<n, g[n - 1]>>] \in S
    BY <2>1
  <2>3. h \in [0 .. n -> S]
    BY <2>1, <2>2
  <2>4. h[0] = b
    BY <2>1 DEF Iterates
  <2>5. ASSUME NEW k \in 1 .. n PROVE h[k] = step[<<k, h[k - 1]>>]
    <3>1. h[k - 1] = g[k - 1]
      OBVIOUS
    <3>2. CASE k = n
      <4>1. h[n] = step[<<n, g[n - 1]>>]
        OBVIOUS
      <4> HIDE DEF h
      <4> QED
        BY <3>1, <3>2, <4>1
    <3>3. CASE k # n
      <4>1. h[k] = g[k] /\ k \in 1 .. n - 1
        BY <3>3
      <4> QED
        BY <2>1, <3>1, <4>1 DEF Iterates
    <3> QED
      BY <3>2, <3>3
  <2> HIDE DEF h
  <2> QED
    BY <2>3, <2>4, <2>5 DEF Iterates
<1> HIDE DEF T
<1>3. N \in T
  BY <1>1, <1>2, UpTo
<1> QED
  BY <1>3 DEF T

(* A function on 0 .. n. *)
Counted(f, n) == f = [k \in 0 .. n |-> f[k]]

(* Two histories that begin alike and have the same rounds are the same. *)
LEMMA HistoriesAgree ==
  ASSUME NEW n \in Nat, NEW f, NEW g, Counted(f, n), Counted(g, n), f[0] = g[0],
         \A k \in 1 .. n : f[k - 1] = g[k - 1] => f[k] = g[k]
  PROVE  f = g
<1> DEFINE T == {k \in 0 .. n : f[k] = g[k]}
<1>1. 0 \in T /\ \A k \in 1 .. n : k - 1 \in T => k \in T
  OBVIOUS
<1> HIDE DEF T
<1>2. \A k \in 0 .. n : k \in T
  BY <1>1, UpTo
<1> QED
  BY <1>2 DEF T, Counted

-----------------------------------------------------------------------------
(* memcpy and memmove.                                                     *)

(* f is the memory after each byte of a copy. *)
CopyHistory(f, C, m, dest, src, n, order) ==
  /\ f \in [0 .. n -> [1 .. Len(m) -> C]]
  /\ f[0] = m
  /\ \A k \in 1 .. n : f[k] = CopyByte(dest, src, f[k - 1], order[k])

(* The rounds of a copy. *)
LEMMA CopyingRounds ==
  ASSUME NEW C, NEW m \in Seq(C), NEW dest \in Nat, NEW src \in Nat, NEW n \in Nat,
         NEW order \in [1 .. n -> Nat], \A k \in 1 .. n : src + order[k] \in 1 .. Len(m)
  PROVE  CopyHistory(Copying(m, dest, src, order), C, m, dest, src, n, order)
<1> DEFINE S == [1 .. Len(m) -> C]
           step == [q \in (1 .. n) \X S |-> CopyByte(dest, src, q[2], order[q[1]])]
           F == Copying(m, dest, src, order)
<1>1. m \in S /\ Len(order) = n
  OBVIOUS
<1>2. ASSUME NEW k \in 1 .. n, NEW v \in S PROVE CopyByte(dest, src, v, order[k]) \in S
  <2>1. src + order[k] \in 1 .. Len(m)
    OBVIOUS
  <2> QED
    BY <2>1 DEF CopyByte
<1>3. step \in [(1 .. n) \X S -> S]
  BY <1>2
<1>4. \A k \in 1 .. n, v \in S : step[<<k, v>>] = CopyByte(dest, src, v, order[k])
  OBVIOUS
<1> HIDE DEF step, S
<1>5. PICK f \in [0 .. n -> S] : Iterates(f, n, m, step)
  BY <1>1, <1>3, HistoryExists
<1>6. f[0] = m /\ \A k \in 1 .. n : f[k] = CopyByte(dest, src, f[k - 1], order[k])
  <2>1. \A k \in 1 .. n : f[k - 1] \in S
    BY <1>5
  <2> QED
    BY <1>4, <1>5, <2>1 DEF Iterates
<1>7. f = [k \in 0 .. n |-> IF k = 0 THEN m ELSE CopyByte(dest, src, f[k - 1], order[k])]
  BY <1>6
<1>8. F = [k \in 0 .. n |-> IF k = 0 THEN m ELSE CopyByte(dest, src, F[k - 1], order[k])]
  BY <1>1, <1>7 DEF Copying
<1> HIDE DEF F
<1>9. F = f
  <2>1. Counted(F, n) /\ Counted(f, n) /\ F[0] = f[0]
    BY <1>6, <1>8 DEF Counted
  <2>2. \A k \in 1 .. n : F[k] = CopyByte(dest, src, F[k - 1], order[k])
    BY <1>8, SMTT(60)
  <2> QED
    BY <1>6, <2>1, <2>2, HistoriesAgree
<1> QED
  BY <1>5, <1>6, <1>9 DEF S, F, CopyHistory

(* The bytes of positions a to b are the source's. *)
MovedFrom(m, dest, src, a, b) ==
  [i \in 1 .. Len(m) |-> IF i \in a .. b THEN m[i - dest + src] ELSE m[i]]

(* Byte i moves when the bytes of positions a to b have. *)
ByteMoves(m, dest, src, i, a, b, a1, b1) ==
  CopyByte(dest, src, MovedFrom(m, dest, src, a, b), i) = MovedFrom(m, dest, src, a1, b1)

(* One more byte, from a place that still holds what it did. *)
LEMMA OneMoreByte ==
  ASSUME NEW C, NEW m \in Seq(C), NEW dest \in Nat, NEW src \in Nat, NEW i \in Nat,
         NEW a \in Nat, NEW b \in Int, NEW a1 \in Nat, NEW b1 \in Int,
         src + i \in 1 .. Len(m), src + i \notin a .. b, dest + i \in 1 .. Len(m),
         a1 .. b1 = (a .. b) \cup {dest + i}
  PROVE  ByteMoves(m, dest, src, i, a, b, a1, b1)
<1> DEFINE v == MovedFrom(m, dest, src, a, b)
           w == MovedFrom(m, dest, src, a1, b1)
<1>1. v[src + i] = m[src + i]
  BY DEF MovedFrom
<1>2. (dest + i) - dest + src = src + i
  OBVIOUS
<1>3. w[dest + i] = m[src + i]
  <2>1. dest + i \in a1 .. b1
    OBVIOUS
  <2>2. w[dest + i] = m[(dest + i) - dest + src]
    BY <2>1 DEF MovedFrom
  <2> QED
    BY <1>2, <2>2
<1>4. \A j \in 1 .. Len(m) : j # dest + i => w[j] = v[j]
  <2>1. \A j \in 1 .. Len(m) : j # dest + i => (j \in a1 .. b1 <=> j \in a .. b)
    OBVIOUS
  <2> QED
    BY <2>1, Zenon DEF MovedFrom
<1>5. DOMAIN v = 1 .. Len(m) /\ w = [j \in 1 .. Len(m) |-> w[j]]
  BY DEF MovedFrom
<1> HIDE DEF v, w
<1>6. CopyByte(dest, src, v, i) = [j \in 1 .. Len(m) |-> IF j = dest + i THEN v[src + i] ELSE v[j]]
  BY <1>5 DEF CopyByte
<1>7. CopyByte(dest, src, v, i) = w
  BY <1>1, <1>3, <1>4, <1>5, <1>6
<1> QED
  BY <1>7 DEF v, w, ByteMoves

(* Copying up moves the bytes when the destination begins first. *)
LEMMA CopyUpMoves ==
  ASSUME NEW C, NEW m \in Seq(C), NEW n \in Nat,
         NEW dest \in 1 .. Len(m) - n + 1, NEW src \in 1 .. Len(m) - n + 1, dest < src
  PROVE  CopyUp(m, dest, src, n) = Moved(m, dest, src, n)
<1> DEFINE order == [k \in 1 .. n |-> k - 1]
           f == Copying(m, dest, src, order)
           T == {k \in 0 .. n : f[k] = MovedFrom(m, dest, src, dest, dest + k - 1)}
<1>1. /\ f[0] = m
      /\ \A k \in 1 .. n : f[k] = CopyByte(dest, src, f[k - 1], order[k])
  <2>1. order \in [1 .. n -> Nat] /\ \A k \in 1 .. n : src + order[k] \in 1 .. Len(m)
    OBVIOUS
  <2>2. dest \in Nat /\ src \in Nat
    OBVIOUS
  <2> HIDE DEF order
  <2>3. CopyHistory(f, C, m, dest, src, n, order)
    BY <2>1, <2>2, CopyingRounds
  <2> QED
    BY <2>3 DEF CopyHistory
<1> HIDE DEF f
<1>2. 0 \in T
  <2>1. m = MovedFrom(m, dest, src, dest, dest + 0 - 1)
    BY DEF MovedFrom
  <2> QED
    BY <1>1, <2>1
<1>3. ASSUME NEW k \in 1 .. n, k - 1 \in T PROVE k \in T
  <2>1. f[k] = CopyByte(dest, src, MovedFrom(m, dest, src, dest, dest + (k - 1) - 1), k - 1)
    BY <1>1, <1>3
  <2>2. CopyByte(dest, src, MovedFrom(m, dest, src, dest, dest + (k - 1) - 1), k - 1)
          = MovedFrom(m, dest, src, dest, dest + k - 1)
    <3>1. /\ src + (k - 1) \in 1 .. Len(m) /\ dest + (k - 1) \in 1 .. Len(m)
          /\ k - 1 \in Nat /\ dest + (k - 1) - 1 \in Int /\ dest + k - 1 \in Int
          /\ src + (k - 1) \notin dest .. dest + (k - 1) - 1
          /\ dest .. dest + k - 1 = (dest .. dest + (k - 1) - 1) \cup {dest + (k - 1)}
      OBVIOUS
    <3>2. dest \in Nat /\ src \in Nat
      OBVIOUS
    <3>3. ByteMoves(m, dest, src, k - 1, dest, dest + (k - 1) - 1, dest, dest + k - 1)
      BY <3>1, <3>2, OneMoreByte, Zenon
    <3> QED
      BY <3>3 DEF ByteMoves
  <2> QED
    BY <2>1, <2>2
<1> HIDE DEF T
<1>4. n \in T
  <2>1. \A k \in 0 .. n : k \in T
    BY <1>2, <1>3, UpTo
  <2> QED
    BY <2>1
<1>5. f[n] = MovedFrom(m, dest, src, dest, dest + n - 1)
  BY <1>4 DEF T
<1>6. CopyUp(m, dest, src, n) = f[n]
  BY DEF f, CopyUp
<1>7. Moved(m, dest, src, n) = MovedFrom(m, dest, src, dest, dest + n - 1)
  BY DEF Moved, MovedFrom
<1> QED
  BY <1>5, <1>6, <1>7

(* Copying down moves the bytes when the source begins first. *)
LEMMA CopyDownMoves ==
  ASSUME NEW C, NEW m \in Seq(C), NEW n \in Nat,
         NEW dest \in 1 .. Len(m) - n + 1, NEW src \in 1 .. Len(m) - n + 1, src < dest
  PROVE  CopyDown(m, dest, src, n) = Moved(m, dest, src, n)
<1> DEFINE order == [k \in 1 .. n |-> n - k]
           f == Copying(m, dest, src, order)
           T == {k \in 0 .. n : f[k] = MovedFrom(m, dest, src, dest + n - k, dest + n - 1)}
<1>1. /\ f[0] = m
      /\ \A k \in 1 .. n : f[k] = CopyByte(dest, src, f[k - 1], order[k])
  <2>1. order \in [1 .. n -> Nat] /\ \A k \in 1 .. n : src + order[k] \in 1 .. Len(m)
    OBVIOUS
  <2>2. dest \in Nat /\ src \in Nat
    OBVIOUS
  <2> HIDE DEF order
  <2>3. CopyHistory(f, C, m, dest, src, n, order)
    BY <2>1, <2>2, CopyingRounds
  <2> QED
    BY <2>3 DEF CopyHistory
<1> HIDE DEF f
<1>2. 0 \in T
  <2>1. m = MovedFrom(m, dest, src, dest + n - 0, dest + n - 1)
    BY DEF MovedFrom
  <2> QED
    BY <1>1, <2>1
<1>3. ASSUME NEW k \in 1 .. n, k - 1 \in T PROVE k \in T
  <2>1. f[k] = CopyByte(dest, src, MovedFrom(m, dest, src, dest + n - (k - 1), dest + n - 1), n - k)
    BY <1>1, <1>3
  <2>2. CopyByte(dest, src, MovedFrom(m, dest, src, dest + n - (k - 1), dest + n - 1), n - k)
          = MovedFrom(m, dest, src, dest + n - k, dest + n - 1)
    <3>1. /\ src + (n - k) \in 1 .. Len(m) /\ dest + (n - k) \in 1 .. Len(m)
          /\ src + (n - k) \notin dest + n - (k - 1) .. dest + n - 1
          /\ dest + n - k .. dest + n - 1
               = (dest + n - (k - 1) .. dest + n - 1) \cup {dest + (n - k)}
          /\ n - k \in Nat /\ dest + n - k \in Nat /\ dest + n - (k - 1) \in Nat
          /\ dest + n - 1 \in Int
      OBVIOUS
    <3>2. dest \in Nat /\ src \in Nat
      OBVIOUS
    <3>3. ByteMoves(m, dest, src, n - k, dest + n - (k - 1), dest + n - 1, dest + n - k, dest + n - 1)
      BY <3>1, <3>2, OneMoreByte, Zenon
    <3> QED
      BY <3>3 DEF ByteMoves
  <2> QED
    BY <2>1, <2>2
<1> HIDE DEF T
<1>4. n \in T
  <2>1. \A k \in 0 .. n : k \in T
    BY <1>2, <1>3, UpTo
  <2> QED
    BY <2>1
<1>5. f[n] = MovedFrom(m, dest, src, dest + n - n, dest + n - 1)
  BY <1>4 DEF T
<1>6. dest + n - n = dest
  OBVIOUS
<1>7. CopyDown(m, dest, src, n) = f[n]
  BY DEF f, CopyDown
<1>8. Moved(m, dest, src, n) = MovedFrom(m, dest, src, dest, dest + n - 1)
  BY DEF Moved, MovedFrom
<1> QED
  BY <1>5, <1>6, <1>7, <1>8

-----------------------------------------------------------------------------
(* The text.                                                               *)

(* What can stand in the text: print_clear leaves blanks. *)
Printed == Characters \cup {Blank}
TextOK == text \in Seq(Printed)

(* print_char appends a character and print_clear leaves blanks: the text  *)
(* stays a sequence of characters, of any length.                          *)
THEOREM TextTyped == ConsoleSpec => []TextOK
<1>1. ConsoleInit => TextOK
  BY DEF ConsoleInit, TextOK
<1>2. TextOK /\ [ConsoleNext]_consoleVars => TextOK'
  <2> SUFFICES ASSUME TextOK, [ConsoleNext]_consoleVars PROVE TextOK'
    OBVIOUS
  <2>1. CASE UNCHANGED consoleVars
    BY <2>1 DEF TextOK, consoleVars
  <2>2. CASE print_clear
    BY <2>2 DEF TextOK, print_clear, Printed
  <2>3. ASSUME NEW c \in Characters, print_char(c) PROVE TextOK'
    BY <2>3 DEF TextOK, print_char, Printed
  <2> QED
    BY <2>1, <2>2, <2>3 DEF ConsoleNext
<1> QED
  BY <1>1, <1>2, PTL DEF ConsoleSpec

(* memmove moves overlapping bytes of every text as they were, and memcpy  *)
(* does when the destination begins before the source.                     *)
LEMMA MovesEveryText ==
  ASSUME TextOK
  PROVE  MovesOverlapping
<1> SUFFICES ASSUME NEW n \in 2 .. Len(text), NEW dest \in 1 .. Len(text) - n + 1,
                    NEW src \in 1 .. Len(text) - n + 1, dest # src
             PROVE  /\ memmove(text, dest, src, n) = Moved(text, dest, src, n)
                    /\ dest < src => memcpy(text, dest, src, n) = Moved(text, dest, src, n)
  BY DEF MovesOverlapping
<1>1. text \in Seq(Printed) /\ n \in Nat
  BY DEF TextOK
<1>2. CASE dest < src
  <2>1. CopyUp(text, dest, src, n) = Moved(text, dest, src, n)
    BY <1>1, <1>2, CopyUpMoves
  <2> QED
    BY <1>2, <2>1 DEF memmove, memcpy
<1>3. CASE ~(dest < src)
  <2>1. CopyDown(text, dest, src, n) = Moved(text, dest, src, n)
    <3>1. src < dest
      BY <1>3
    <3> QED
      BY <1>1, <3>1, CopyDownMoves
  <2> QED
    BY <1>3, <2>1 DEF memmove, memcpy
<1> QED
  BY <1>2, <1>3

(* memmove and memcpy move the bytes of every text that can be printed, at *)
(* every distance and of every number.                                     *)
THEOREM MovesBytesAsTheyWere == ConsoleSpec => []MovesOverlapping
BY TextTyped, MovesEveryText, PTL

-----------------------------------------------------------------------------
(* vsnprintf.                                                              *)

(* Position i of the format is escaped by the one before it. *)
EscapedBy(format, e, i) == i > 1 /\ format[i - 1] = "%" /\ ~e[i - 1]

(* What Escaped computes. *)
LEMMA EscapedRounds ==
  ASSUME NEW C, NEW format \in Seq(C)
  PROVE  LET e == Escaped(format) IN
         /\ \A i \in 0 .. Len(format) : e[i] \in BOOLEAN
         /\ \A i \in 1 .. Len(format) : e[i] <=> EscapedBy(format, e, i)
<1> DEFINE n == Len(format)
           step == [q \in (1 .. n) \X BOOLEAN |-> q[1] > 1 /\ format[q[1] - 1] = "%" /\ ~q[2]]
           F == Escaped(format)
<1>0. n \in Nat
  OBVIOUS
<1>1. step \in [(1 .. n) \X BOOLEAN -> BOOLEAN]
  <2>1. ASSUME NEW q \in (1 .. n) \X BOOLEAN
        PROVE (q[1] > 1 /\ format[q[1] - 1] = "%" /\ ~q[2]) \in BOOLEAN
    BY Zenon
  <2> QED
    BY <2>1, Zenon
<1>2. \A k \in 1 .. n, v \in BOOLEAN :
        step[<<k, v>>] = (k > 1 /\ format[k - 1] = "%" /\ ~v)
  <2> TAKE k \in 1 .. n, v \in BOOLEAN
  <2>1. <<k, v>> \in (1 .. n) \X BOOLEAN /\ <<k, v>>[1] = k /\ <<k, v>>[2] = v
    OBVIOUS
  <2> QED
    BY <2>1, Zenon
<1> HIDE DEF step, n
<1>3. PICK f \in [0 .. n -> BOOLEAN] : Iterates(f, n, FALSE, step)
  BY <1>0, <1>1, HistoryExists
<1>4. f[0] = FALSE /\ \A k \in 1 .. n : f[k] = (k > 1 /\ format[k - 1] = "%" /\ ~f[k - 1])
  <2>1. \A k \in 1 .. n : k - 1 \in 0 .. n
    BY <1>0
  <2>2. \A k \in 1 .. n : f[k - 1] \in BOOLEAN
    BY <1>3, <2>1, Zenon
  <2> QED
    BY <1>2, <1>3, <2>2, Zenon DEF Iterates
<1>5. \A k \in 0 .. n : f[k] = (k > 1 /\ format[k - 1] = "%" /\ ~f[k - 1])
  <2>1. \A k \in 0 .. n : k = 0 \/ k \in 1 .. n
    BY <1>0
  <2>2. ~(0 > 1)
    OBVIOUS
  <2> QED
    BY <1>4, <2>1, <2>2, Zenon
<1>6. f = [k \in 0 .. n |-> k > 1 /\ format[k - 1] = "%" /\ ~f[k - 1]]
  BY <1>3, <1>5, Zenon
<1>7. F = [k \in 0 .. n |-> k > 1 /\ format[k - 1] = "%" /\ ~F[k - 1]]
  BY <1>6, Zenon DEF Escaped, n
<1> HIDE DEF F
<1>8. ASSUME NEW i \in 0 .. n PROVE F[i] \in BOOLEAN /\ (F[i] <=> EscapedBy(format, F, i))
  <2>1. F[i] = (i > 1 /\ format[i - 1] = "%" /\ ~F[i - 1])
    BY <1>7, Zenon
  <2> QED
    BY <2>1, Zenon DEF EscapedBy
<1>9. \A i \in 1 .. n : i \in 0 .. n
  BY <1>0
<1> QED
  BY <1>8, <1>9 DEF F, n

(* What a numeral is made of, and what vsnprintf is given. *)
NumeralChars == {"-"} \cup {DigitCharacters[i] : i \in 1 .. 16}
Arguments(C) == [s : Seq(C), d : Int, x : Nat]

Divisions(base) == [num : Nat, buf : Seq(0 .. base - 1)]

(* f holds the number and its digits after each division. *)
DigitHistory(f, base, num) ==
  /\ f \in [0 .. NUM_DIGITS -> Divisions(base)]
  /\ f[0] = Division(num, <<>>)
  /\ \A k \in 1 .. NUM_DIGITS : f[k] = DigitRound(base, f[k - 1])

(* Division with remainder by the two bases. *)
LEMMA DividedByTen ==
  ASSUME NEW n \in Nat
  PROVE  /\ n \div 10 \in Nat /\ n % 10 \in 0 .. 9 /\ 10 * (n \div 10) <= n
         /\ n = 10 * (n \div 10) + (n % 10)
<1>1. n \div 10 \in Nat
  OBVIOUS
<1>2. n % 10 \in 0 .. 9
  OBVIOUS
<1>3. n = 10 * (n \div 10) + (n % 10)
  OBVIOUS
<1>4. 10 * (n \div 10) <= n
  OBVIOUS
<1> QED
  BY <1>1, <1>2, <1>3, <1>4, Zenon

LEMMA DividedBySixteen ==
  ASSUME NEW n \in Nat
  PROVE  /\ n \div 16 \in Nat /\ n % 16 \in 0 .. 15 /\ 10 * (n \div 16) <= n
         /\ n = 16 * (n \div 16) + (n % 16)
<1>1. n \div 16 \in Nat
  OBVIOUS
<1>2. n % 16 \in 0 .. 15
  OBVIOUS
<1>3. n = 16 * (n \div 16) + (n % 16)
  OBVIOUS
<1>4. 10 * (n \div 16) <= n
  OBVIOUS
<1> QED
  BY <1>1, <1>2, <1>3, <1>4, Zenon

LEMMA Divided ==
  ASSUME NEW base \in {10, 16}, NEW n \in Nat
  PROVE  /\ n \div base \in Nat /\ n % base \in 0 .. base - 1
         /\ n = base * (n \div base) + (n % base)
         /\ 10 * (n \div base) <= n
<1>1. CASE base = 10
  <2>1. 0 .. base - 1 = 0 .. 9
    BY <1>1
  <2> QED
    BY <1>1, <2>1, DividedByTen, Zenon
<1>2. CASE base = 16
  <2>1. 0 .. base - 1 = 0 .. 15
    BY <1>2
  <2> QED
    BY <1>2, <2>1, DividedBySixteen, Zenon
<1> QED
  BY <1>1, <1>2

(* A round of the loop that makes digits. *)
LEMMA DigitRoundTyped ==
  ASSUME NEW base \in {10, 16}, NEW c \in Divisions(base)
  PROVE  DigitRound(base, c) \in Divisions(base)
<1>1. c.num \in Nat /\ c.buf \in Seq(0 .. base - 1)
  BY DEF Divisions
<1> DEFINE d == c.num \div base
           m == c.num % base
<1>2. d \in Nat /\ m \in 0 .. base - 1
  BY <1>1, Divided
<1> HIDE DEF d, m
<1>3. Append(c.buf, m) \in Seq(0 .. base - 1)
  BY <1>1, <1>2
<1>4. Division(d, Append(c.buf, m)) \in Divisions(base)
  BY <1>2, <1>3 DEF Division, Divisions
<1> QED
  BY <1>4, Zenon DEF DigitRound, d, m

(* What the rounds of that loop compute. *)
LEMMA DigitRoundsHistory ==
  ASSUME NEW base \in {10, 16}, NEW num \in Nat
  PROVE  DigitHistory(DigitRounds(base, num), base, num)
<1> DEFINE n == NUM_DIGITS
           S == Divisions(base)
           b == Division(num, <<>>)
           step == [q \in (1 .. n) \X S |-> DigitRound(base, q[2])]
           F == DigitRounds(base, num)
<1>1. n \in Nat
  BY DEF NUM_DIGITS
<1>2. b \in S
  BY DEF Division, Divisions
<1>3. ASSUME NEW v \in S PROVE DigitRound(base, v) \in S
  BY DigitRoundTyped
<1> HIDE DEF S, b, n
<1>4. step \in [(1 .. n) \X S -> S]
  BY <1>3
<1>5. \A k \in 1 .. n, v \in S : step[<<k, v>>] = DigitRound(base, v)
  OBVIOUS
<1> HIDE DEF step
<1>6. PICK f \in [0 .. n -> S] : Iterates(f, n, b, step)
  BY <1>1, <1>2, <1>4, HistoryExists
<1>7. f[0] = b /\ \A k \in 1 .. n : f[k] = DigitRound(base, f[k - 1])
  <2>1. \A k \in 1 .. n : f[k - 1] \in S
    BY <1>1, <1>6
  <2> QED
    BY <1>5, <1>6, <2>1 DEF Iterates
<1>8. f = [k \in 0 .. n |-> IF k = 0 THEN b ELSE DigitRound(base, f[k - 1])]
  BY <1>1, <1>7
<1>9. F = [k \in 0 .. n |-> IF k = 0 THEN b ELSE DigitRound(base, F[k - 1])]
  BY <1>8, Zenon DEF DigitRounds, n, b
<1> HIDE DEF F
<1>10. F = f
  <2>1. Counted(F, n) /\ Counted(f, n) /\ F[0] = f[0]
    BY <1>1, <1>7, <1>8, <1>9 DEF Counted
  <2>2. \A k \in 1 .. n : F[k] = DigitRound(base, F[k - 1])
    <3>1. \A k \in 1 .. n : k \in 0 .. n /\ k # 0
      BY <1>1
    <3> QED
      BY <1>9, <3>1, Zenon
  <2> QED
    BY <1>1, <1>7, <2>1, <2>2, HistoriesAgree
<1>11. F \in [0 .. n -> S] /\ F[0] = b /\ \A k \in 1 .. n : F[k] = DigitRound(base, F[k - 1])
  BY <1>6, <1>7, <1>10, Zenon
<1> QED
  BY <1>11, Zenon DEF F, n, b, S, DigitHistory

(* After round k: each digit is what one division has left over, the one   *)
(* before it divided something, and the loop goes on until nothing is left. *)
DigitsSoFar(f, base, k) ==
  /\ Len(f[k].buf) \in 0 .. k /\ (k # 0 => Len(f[k].buf) # 0)
  /\ Len(f[k].buf) = k \/ f[k].num = 0
  /\ f[Len(f[k].buf)].num = f[k].num
  /\ \A i \in 1 .. Len(f[k].buf) : f[i - 1].num = base * f[i].num + f[k].buf[i]
  /\ \A i \in 2 .. Len(f[k].buf) : f[i - 1].num # 0

(* Every round keeps that. *)
LEMMA DigitsKept ==
  ASSUME NEW base \in {10, 16}, NEW num \in Nat, NEW f, DigitHistory(f, base, num),
         NEW k \in 1 .. NUM_DIGITS, DigitsSoFar(f, base, k - 1)
  PROVE  DigitsSoFar(f, base, k)
<1> DEFINE u == f[k - 1].buf
           v == f[k].buf
           a == f[k - 1].num
           z == f[k].num
<1>1. /\ k \in Nat /\ k >= 1 /\ k - 1 \in 0 .. NUM_DIGITS /\ k \in 0 .. NUM_DIGITS
      /\ k - 1 \in Nat
  BY DEF NUM_DIGITS
<1>2. f[k - 1] \in Divisions(base) /\ f[k] \in Divisions(base)
  BY <1>1, Zenon DEF DigitHistory
<1>3. u \in Seq(0 .. base - 1) /\ a \in Nat /\ z \in Nat /\ Len(u) \in Nat
  BY <1>2 DEF Divisions
<1>4. f[k] = DigitRound(base, f[k - 1])
  BY Zenon DEF DigitHistory
<1>5. /\ Len(u) \in 0 .. k - 1 /\ (k - 1 # 0 => Len(u) # 0)
      /\ Len(u) = k - 1 \/ a = 0
      /\ f[Len(u)].num = a
      /\ \A i \in 1 .. Len(u) : f[i - 1].num = base * f[i].num + u[i]
      /\ \A i \in 2 .. Len(u) : f[i - 1].num # 0
  BY Zenon DEF DigitsSoFar
<1>6. CASE a = 0 /\ u # <<>>
  <2>1. f[k] = f[k - 1]
    BY <1>4, <1>6, Zenon DEF DigitRound
  <2>2. Len(u) # 0
    BY <1>3, <1>6
  <2>3. Len(u) \in 0 .. k
    BY <1>1, <1>5
  <2> QED
    BY <1>5, <1>6, <2>1, <2>2, <2>3, Zenon DEF DigitsSoFar
<1>7. CASE ~(a = 0 /\ u # <<>>)
  <2> DEFINE m == a % base
  <2>1. f[k] = Division(a \div base, Append(u, m))
    BY <1>4, <1>7, Zenon DEF DigitRound
  <2>2. z = a \div base /\ v = Append(u, m)
    BY <2>1 DEF Division
  <2>3. a = base * z + m /\ m \in 0 .. base - 1
    <3>1. a = base * (a \div base) + (a % base) /\ a % base \in 0 .. base - 1
      BY <1>3, Divided, Zenon
    <3> QED
      BY <2>2, <3>1, Zenon
  <2> HIDE DEF m
  <2>4. Len(u) = k - 1 /\ (a = 0 => k = 1)
    <3>1. a = 0 => Len(u) = 0
      BY <1>7
    <3>2. Len(u) \in 0 .. k - 1 /\ (k - 1 # 0 => Len(u) # 0) /\ (Len(u) = k - 1 \/ a = 0)
      BY <1>5, Zenon
    <3> HIDE DEF u, a
    <3> QED
      BY <1>1, <3>1, <3>2
  <2>5. Len(v) = k /\ v[k] = m /\ \A i \in 1 .. k - 1 : v[i] = u[i]
    <3>1. u \in Seq(0 .. base - 1) /\ Len(u) = k - 1 /\ v = Append(u, m)
      BY <1>3, <2>2, <2>4
    <3> HIDE DEF u, v
    <3>2. /\ Len(v) = Len(u) + 1 /\ v[Len(u) + 1] = m
          /\ \A i \in 1 .. Len(u) : v[i] = u[i]
      BY <2>3, <3>1, AppendProperties
    <3>3. (k - 1) + 1 = k
      BY <1>1
    <3> QED
      BY <3>1, <3>2, <3>3, Zenon
  <2>6. ASSUME NEW i \in 1 .. k PROVE f[i - 1].num = base * f[i].num + v[i]
    <3>1. CASE i = k
      BY <2>3, <2>5, <3>1, Zenon
    <3>2. CASE i # k
      <4>1. i \in 1 .. k - 1
        BY <1>1, <3>2
      <4>2. f[i - 1].num = base * f[i].num + u[i]
        BY <1>5, <2>4, <4>1, Zenon
      <4> QED
        BY <2>5, <4>1, <4>2, Zenon
    <3> QED
      BY <3>1, <3>2
  <2>7. ASSUME NEW i \in 2 .. k PROVE f[i - 1].num # 0
    <3>1. CASE i = k
      <4>1. k # 1
        BY <1>1, <3>1
      <4> QED
        BY <2>4, <3>1, <4>1, Zenon
    <3>2. CASE i # k
      <4>1. i \in 2 .. k - 1
        BY <1>1, <3>2
      <4> QED
        BY <1>5, <2>4, <4>1, Zenon
    <3> QED
      BY <3>1, <3>2
  <2>8. k \in 0 .. k /\ k # 0
    BY <1>1
  <2> QED
    BY <2>5, <2>6, <2>7, <2>8, Zenon DEF DigitsSoFar
<1> QED
  BY <1>6, <1>7

(* Nothing is left of a 32-bit number after ten rounds, or after more. *)
UINT_LIMIT == 4294967296
LEMMA DigitsEnd ==
  ASSUME NEW base \in {10, 16}, NEW num \in Nat, num < UINT_LIMIT, NEW f,
         DigitHistory(f, base, num)
  PROVE  f[NUM_DIGITS].num = 0
<1> DEFINE N == NUM_DIGITS
<1>0. N \in Nat /\ N > 10
  BY DEF NUM_DIGITS
<1>1. ASSUME NEW k \in 0 .. N PROVE f[k].num \in Nat
  <2>1. f[k] \in Divisions(base)
    BY Zenon DEF DigitHistory
  <2> QED
    BY <2>1 DEF Divisions
<1> HIDE DEF N
<1>2. ASSUME NEW k \in 1 .. N PROVE f[k].num \in Nat /\ f[k - 1].num \in Nat /\ 10 * f[k].num <= f[k - 1].num
  <2> DEFINE a == f[k - 1].num
             d == a \div base
  <2>1. f[k] = DigitRound(base, f[k - 1])
    BY Zenon DEF DigitHistory, N
  <2>2. a \in Nat /\ f[k].num \in Nat
    <3>1. k \in 0 .. N /\ k - 1 \in 0 .. N
      BY <1>0
    <3> QED
      BY <1>1, <3>1, Zenon
  <2>3. CASE a = 0 /\ f[k - 1].buf # <<>>
    <3>1. f[k].num = 0
      BY <2>1, <2>3, Zenon DEF DigitRound
    <3> QED
      BY <2>2, <2>3, <3>1
  <2>4. CASE ~(a = 0 /\ f[k - 1].buf # <<>>)
    <3>1. f[k] = Division(d, Append(f[k - 1].buf, a % base))
      BY <2>1, <2>4, Zenon DEF DigitRound
    <3>2. f[k].num = d
      <4> HIDE DEF d, a
      <4> QED
        BY <3>1 DEF Division
    <3>3. 10 * d <= a
      BY <2>2, Divided
    <3> QED
      BY <2>2, <3>2, <3>3, Zenon
  <2> QED
    BY <2>3, <2>4
<1>3. f[0].num = num
  BY DEF DigitHistory, Division
<1> DEFINE g(k) == f[k].num
           T == {k \in 0 .. N : k >= 10 => g(k) = 0}
<1>4. \A k \in 1 .. 10 : k \in 1 .. N
  BY <1>0
<1>5. /\ g(0) < UINT_LIMIT /\ g(0) \in Nat
      /\ \A k \in 1 .. 10 : g(k) \in Nat /\ 10 * g(k) <= g(k - 1)
  BY <1>2, <1>3, <1>4
<1>6. \A k \in 1 .. N : g(k) \in Nat /\ 10 * g(k) <= g(k - 1)
  BY <1>2
<1> HIDE DEF g
<1>7. g(1) < 429496730 /\ g(1) \in Nat
  BY <1>5, SMT DEF UINT_LIMIT
<1>8. g(2) < 42949673 /\ g(2) \in Nat
  BY <1>5, <1>7, SMT
<1>9. g(3) < 4294968 /\ g(3) \in Nat
  BY <1>5, <1>8, SMT
<1>10. g(4) < 429497 /\ g(4) \in Nat
  BY <1>5, <1>9, SMT
<1>11. g(5) < 42950 /\ g(5) \in Nat
  BY <1>5, <1>10, SMT
<1>12. g(6) < 4295 /\ g(6) \in Nat
  BY <1>5, <1>11, SMT
<1>13. g(7) < 430 /\ g(7) \in Nat
  BY <1>5, <1>12, SMT
<1>14. g(8) < 43 /\ g(8) \in Nat
  BY <1>5, <1>13, SMT
<1>15. g(9) < 5 /\ g(9) \in Nat
  BY <1>5, <1>14, SMT
<1>16. g(10) = 0
  BY <1>5, <1>15, SMT
<1>17. 0 \in T
  BY <1>0
<1>18. ASSUME NEW k \in 1 .. N, k - 1 \in T PROVE k \in T
  <2>1. k \in 0 .. N /\ k \in Nat
    BY <1>0
  <2>2. k > 10 => k - 1 >= 10
    BY <2>1
  <2>3. ASSUME k > 10 PROVE g(k) = 0
    <3>1. g(k - 1) = 0
      BY <1>18, <2>2, <2>3
    <3> QED
      BY <1>6, <3>1
  <2> QED
    BY <1>16, <2>1, <2>3
<1> HIDE DEF T
<1>19. N \in T
  <2>1. \A k \in 0 .. N : k \in T
    BY <1>0, <1>17, <1>18, UpTo
  <2> QED
    BY <1>0, <2>1
<1> QED
  BY <1>0, <1>19 DEF T, g, N

(* The digits of a number. *)
LEMMA DigitsShape ==
  ASSUME NEW base \in {10, 16}, NEW num \in Nat
  PROVE  /\ num_buf(base, num) \in Seq(0 .. base - 1) /\ Len(num_buf(base, num)) >= 1
         /\ DigitsSoFar(DigitRounds(base, num), base, NUM_DIGITS)
<1> DEFINE f == DigitRounds(base, num)
           T == {k \in 0 .. NUM_DIGITS : DigitsSoFar(f, base, k)}
<1>1. DigitHistory(f, base, num)
  BY DigitRoundsHistory
<1> HIDE DEF f
<1>2. NUM_DIGITS \in Nat /\ NUM_DIGITS # 0 /\ 0 \in 0 .. NUM_DIGITS /\ NUM_DIGITS \in 0 .. NUM_DIGITS
  BY DEF NUM_DIGITS
<1>3. 0 \in T
  <2>1. f[0].buf = <<>> /\ Len(f[0].buf) = 0
    BY <1>1 DEF DigitHistory, Division
  <2>2. DigitsSoFar(f, base, 0)
    BY <2>1 DEF DigitsSoFar
  <2> QED
    BY <1>2, <2>2
<1>4. ASSUME NEW k \in 1 .. NUM_DIGITS, k - 1 \in T PROVE k \in T
  <2>1. k \in 0 .. NUM_DIGITS
    BY <1>2
  <2>2. DigitsSoFar(f, base, k)
    BY <1>1, <1>4, DigitsKept
  <2> QED
    BY <2>1, <2>2
<1> HIDE DEF T
<1>5. NUM_DIGITS \in T
  <2>1. \A k \in 0 .. NUM_DIGITS : k \in T
    BY <1>2, <1>3, <1>4, UpTo
  <2> QED
    BY <1>2, <2>1
<1>6. DigitsSoFar(f, base, NUM_DIGITS)
  BY <1>5 DEF T
<1>7. f[NUM_DIGITS].buf \in Seq(0 .. base - 1)
  <2>1. f[NUM_DIGITS] \in Divisions(base)
    BY <1>1, <1>2, Zenon DEF DigitHistory
  <2> QED
    BY <2>1 DEF Divisions
<1>8. Len(f[NUM_DIGITS].buf) >= 1
  <2>1. Len(f[NUM_DIGITS].buf) # 0
    BY <1>2, <1>6, Zenon DEF DigitsSoFar
  <2> QED
    BY <1>7, <2>1
<1> QED
  BY <1>6, <1>7, <1>8, Zenon DEF f, num_buf

(* The sixteen digits, and how they are read. *)
LEMMA DigitsDiffer ==
  ASSUME NEW d \in 0 .. 15
  PROVE  /\ DigitCharacters[d + 1] \in NumeralChars
         /\ DigitValue(DigitCharacters[d + 1]) = d
         /\ DigitCharacters[d + 1] = "0" => d = 0
<1>1. \A i, j \in 0 .. 15 : DigitCharacters[i + 1] = DigitCharacters[j + 1] => i = j
  BY DEF DigitCharacters
<1>2. DigitCharacters[1] = "0"
  BY DEF DigitCharacters
<1>3. d + 1 \in 1 .. 16 /\ 0 \in 0 .. 15 /\ 0 + 1 = 1
  OBVIOUS
<1>4. DigitValue(DigitCharacters[d + 1]) = d
  <2> DEFINE e == DigitValue(DigitCharacters[d + 1])
  <2>1. e \in 0 .. 15 /\ DigitCharacters[e + 1] = DigitCharacters[d + 1]
    BY Zenon DEF DigitValue
  <2> HIDE DEF e
  <2>2. e = d
    BY <1>1, <2>1, Zenon
  <2> QED
    BY <2>2 DEF e
<1>5. DigitCharacters[d + 1] = "0" => d = 0
  BY <1>1, <1>2, <1>3, Zenon
<1>6. DigitCharacters[d + 1] \in NumeralChars
  BY <1>3, Zenon DEF NumeralChars
<1> QED
  BY <1>4, <1>5, <1>6

(* The characters of a numeral. *)
LEMMA NumeralShape ==
  ASSUME NEW base \in {10, 16}, NEW num \in Nat
  PROVE  LET s == Numeral(base, num)
             b == num_buf(base, num)
         IN /\ s \in Seq(NumeralChars) /\ Len(s) = Len(b)
            /\ \A i \in 1 .. Len(b) : s[i] = DigitCharacters[b[Len(b) + 1 - i] + 1]
<1> DEFINE b == num_buf(base, num)
           s == Numeral(base, num)
<1>1. b \in Seq(0 .. base - 1) /\ Len(b) \in Nat
  <2>1. b \in Seq(0 .. base - 1)
    BY DigitsShape, Zenon
  <2> HIDE DEF b
  <2> QED
    BY <2>1
<1>2. s = [i \in 1 .. Len(b) |-> DigitCharacters[b[Len(b) + 1 - i] + 1]]
  BY Zenon DEF Numeral
<1> HIDE DEF b, s
<1>3. ASSUME NEW i \in 1 .. Len(b) PROVE DigitCharacters[b[Len(b) + 1 - i] + 1] \in NumeralChars
  <2>1. b[Len(b) + 1 - i] \in 0 .. 15
    <3>1. Len(b) + 1 - i \in 1 .. Len(b)
      BY <1>1
    <3>2. b[Len(b) + 1 - i] \in 0 .. base - 1
      BY <1>1, <3>1
    <3>3. 0 .. base - 1 \subseteq 0 .. 15
      <4>1. CASE base = 10
        BY <4>1
      <4>2. CASE base = 16
        BY <4>2
      <4> QED
        BY <4>1, <4>2
    <3> QED
      BY <3>2, <3>3, Zenon
  <2> QED
    BY <2>1, DigitsDiffer
<1>4. s \in [1 .. Len(b) -> NumeralChars]
  BY <1>2, <1>3, Zenon
<1>5. s \in Seq(NumeralChars) /\ Len(s) = Len(b)
  BY <1>1, <1>4
<1> QED
  BY <1>2, <1>5, Zenon DEF b, s

(* What Values computes. *)
LEMMA ValuesRounds ==
  ASSUME NEW base \in Nat, NEW C, NEW s \in Seq(C), \A i \in 1 .. Len(s) : DigitValue(s[i]) \in Nat
  PROVE  LET v == Values(base, s)
         IN /\ v \in [0 .. Len(s) -> Nat] /\ v[0] = 0
            /\ \A i \in 1 .. Len(s) : v[i] = base * v[i - 1] + DigitValue(s[i])
<1> DEFINE n == Len(s)
           part(i) == DigitValue(s[i])
           step == [q \in (1 .. n) \X Nat |-> base * q[2] + part(q[1])]
           F == Values(base, s)
<1>1. n \in Nat /\ \A i \in 1 .. n : part(i) \in Nat
  OBVIOUS
<1> HIDE DEF part, n
<1>2. ASSUME NEW k \in 1 .. n, NEW v \in Nat PROVE base * v + part(k) \in Nat
  <2>1. base * v \in Nat /\ part(k) \in Nat
    BY <1>1
  <2> QED
    BY <2>1
<1>3. step \in [(1 .. n) \X Nat -> Nat]
  BY <1>2
<1>4. \A k \in 1 .. n, v \in Nat : step[<<k, v>>] = base * v + part(k)
  OBVIOUS
<1> HIDE DEF step
<1>5. PICK f \in [0 .. n -> Nat] : Iterates(f, n, 0, step)
  BY <1>1, <1>3, HistoryExists
<1>6. f[0] = 0 /\ \A k \in 1 .. n : f[k] = base * f[k - 1] + part(k)
  <2>1. \A k \in 1 .. n : f[k - 1] \in Nat
    BY <1>1, <1>5
  <2> QED
    BY <1>4, <1>5, <2>1, Zenon DEF Iterates
<1>7. f = [k \in 0 .. n |-> IF k = 0 THEN 0 ELSE base * f[k - 1] + part(k)]
  <2>1. \A k \in 0 .. n : k = 0 \/ k \in 1 .. n
    BY <1>1
  <2>2. \A k \in 0 .. n : f[k] = IF k = 0 THEN 0 ELSE base * f[k - 1] + part(k)
    BY <1>6, <2>1, Zenon
  <2> QED
    BY <1>5, <2>2, Zenon
<1>8. F = [k \in 0 .. n |-> IF k = 0 THEN 0 ELSE base * F[k - 1] + part(k)]
  BY <1>7, Zenon DEF Values, n, part
<1> HIDE DEF F
<1>9. F = f
  <2>1. Counted(F, n) /\ Counted(f, n) /\ F[0] = f[0]
    <3>1. 0 \in 0 .. n
      BY <1>1
    <3>2. F[0] = 0
      BY <1>8, <3>1, Zenon
    <3> QED
      BY <1>5, <1>6, <1>8, <3>2, Zenon DEF Counted
  <2>2. \A k \in 1 .. n : F[k] = base * F[k - 1] + part(k)
    <3>1. \A k \in 1 .. n : k \in 0 .. n /\ k # 0
      BY <1>1
    <3> QED
      BY <1>8, <3>1, Zenon
  <2>3. \A k \in 1 .. n : F[k - 1] = f[k - 1] => F[k] = f[k]
    BY <1>6, <2>2, Zenon
  <2> QED
    BY <1>1, <2>1, <2>3, HistoriesAgree
<1>10. /\ F \in [0 .. n -> Nat] /\ F[0] = 0
       /\ \A k \in 1 .. n : F[k] = base * F[k - 1] + part(k)
  BY <1>5, <1>6, <1>9, Zenon
<1> QED
  BY <1>10, Zenon DEF F, n, part

(* The numeral of a 32-bit number is read as that number, and has no zero  *)
(* in front: the digits left to read are what the division had not yet     *)
(* taken off.                                                              *)
LEMMA NumeralsReadBack ==
  ASSUME NEW base \in {10, 16}, NEW num \in Nat, num < UINT_LIMIT
  PROVE  IsNumeral(base, Numeral(base, num), num)
<1> DEFINE f == DigitRounds(base, num)
           b == num_buf(base, num)
           s == Numeral(base, num)
           n == Len(b)
           v == Values(base, s)
<1>1. b \in Seq(0 .. base - 1) /\ n >= 1 /\ DigitsSoFar(f, base, NUM_DIGITS)
  BY DigitsShape
<1>2. DigitHistory(f, base, num)
  BY DigitRoundsHistory
<1>3. f[NUM_DIGITS].num = 0
  BY <1>2, DigitsEnd
<1>4. b = f[NUM_DIGITS].buf
  BY DEF num_buf
<1>5. f[0].num = num
  BY <1>2 DEF DigitHistory, Division
<1>6. s \in Seq(NumeralChars) /\ Len(s) = n /\ \A i \in 1 .. n : s[i] = DigitCharacters[b[n + 1 - i] + 1]
  BY NumeralShape, Zenon
<1> HIDE DEF f, b, s
<1>7. n \in Nat /\ n \in 1 .. n /\ 1 \in 1 .. n
  BY <1>1
<1>8. /\ f[n].num = 0
      /\ \A i \in 1 .. n : f[i - 1].num = base * f[i].num + b[i]
      /\ \A i \in 2 .. n : f[i - 1].num # 0
  BY <1>1, <1>3, <1>4, Zenon DEF DigitsSoFar
<1>9. ASSUME NEW i \in 1 .. n
      PROVE  /\ n + 1 - i \in 1 .. n /\ b[n + 1 - i] \in 0 .. 15
             /\ DigitValue(s[i]) = b[n + 1 - i]
             /\ s[i] = "0" => b[n + 1 - i] = 0
  <2>1. n + 1 - i \in 1 .. n
    BY <1>7
  <2>2. b[n + 1 - i] \in 0 .. base - 1
    BY <1>1, <2>1
  <2>3. b[n + 1 - i] \in 0 .. 15
    <3>1. CASE base = 10
      BY <2>2, <3>1
    <3>2. CASE base = 16
      BY <2>2, <3>2
    <3> QED
      BY <3>1, <3>2
  <2>4. s[i] = DigitCharacters[b[n + 1 - i] + 1]
    BY <1>6
  <2> QED
    BY <2>1, <2>3, <2>4, DigitsDiffer, Zenon
<1>10. /\ v[0] = 0 /\ \A i \in 1 .. n : v[i] = base * v[i - 1] + b[n + 1 - i]
  <2>1. \A i \in 1 .. Len(s) : DigitValue(s[i]) \in Nat
    <3>1. 0 .. 15 \subseteq Nat
      OBVIOUS
    <3> QED
      BY <1>6, <1>9, <3>1, Zenon
  <2>2. base \in Nat
    OBVIOUS
  <2>3. v[0] = 0 /\ \A i \in 1 .. Len(s) : v[i] = base * v[i - 1] + DigitValue(s[i])
    BY <1>6, <2>1, <2>2, ValuesRounds, Zenon
  <2> QED
    BY <1>6, <1>9, <2>3, ZenonT(40)
<1> HIDE DEF v, n
<1> DEFINE T == {i \in 0 .. n : v[i] = f[n - i].num}
<1>11. 0 \in T
  <2>1. n - 0 = n /\ 0 \in 0 .. n
    BY <1>7
  <2> QED
    BY <1>8, <1>10, <2>1
<1>12. ASSUME NEW i \in 1 .. n, i - 1 \in T PROVE i \in T
  <2> DEFINE j == n + 1 - i
  <2>1. j \in 1 .. n /\ i \in 0 .. n /\ j - 1 = n - i /\ n - (i - 1) = j
    BY <1>7
  <2>2. v[i - 1] = f[j].num
    BY <1>12, <2>1
  <2>3. v[i] = base * v[i - 1] + b[j]
    BY <1>10
  <2> HIDE DEF j
  <2>4. f[j - 1].num = base * f[j].num + b[j]
    BY <1>8, <2>1, Zenon
  <2>5. v[i] = f[n - i].num
    BY <2>1, <2>2, <2>3, <2>4, Zenon
  <2> QED
    BY <2>1, <2>5
<1> HIDE DEF T
<1>13. v[n] = num
  <2>1. \A i \in 0 .. n : i \in T
    BY <1>7, <1>11, <1>12, UpTo
  <2>2. n \in T /\ n - n = 0
    BY <1>7, <2>1
  <2> QED
    BY <1>5, <2>2 DEF T
<1>14. ASSUME s[1] = "0" PROVE num = 0
  <2>1. b[n] = 0
    <3>1. n + 1 - 1 = n
      BY <1>7
    <3> QED
      BY <1>7, <1>9, <1>14, <3>1, Zenon
  <2>2. f[n - 1].num = 0
    <3>1. f[n - 1].num = base * 0 + 0
      BY <1>7, <1>8, <2>1, Zenon
    <3> QED
      BY <3>1
  <2>3. n = 1
    <3>1. n # 1 => n \in 2 .. n
      BY <1>7
    <3> QED
      BY <1>8, <2>2, <3>1, Zenon
  <2>4. 1 - 1 = 0
    OBVIOUS
  <2> QED
    BY <1>5, <2>2, <2>3, <2>4, Zenon
<1>15. Len(s) = n
  BY <1>6 DEF n
<1> QED
  BY <1>13, <1>14, <1>15, Zenon DEF IsNumeral, v, s

(* What a directive stands for. *)
LEMMA ConversionTyped ==
  ASSUME NEW C, NEW c \in C, NEW args \in Arguments(C), NumeralChars \subseteq C
  PROVE  Conversion(c, args) \in Seq(C)
<1>1. args.s \in Seq(C) /\ args.d \in Int /\ args.x \in Nat
  BY DEF Arguments
<1>2. ASSUME NEW base \in {10, 16}, NEW num \in Nat PROVE Numeral(base, num) \in Seq(C)
  <2>1. Numeral(base, num) \in Seq(NumeralChars)
    BY NumeralShape, Zenon
  <2> QED
    BY <2>1
<1>3. CASE c = "s"
  BY <1>1, <1>3 DEF Conversion
<1>4. CASE c = "d"
  <2>1. CASE args.d < 0
    <3>1. Numeral(10, -args.d) \in Seq(C)
      <4>1. -args.d \in Nat /\ 10 \in {10, 16}
        BY <1>1, <2>1
      <4> QED
        BY <1>2, <4>1, Zenon
    <3>2. <<"-">> \in Seq(C)
      BY DEF NumeralChars
    <3>3. <<"-">> \o Numeral(10, -args.d) \in Seq(C)
      BY <3>1, <3>2
    <3> QED
      BY <1>4, <2>1, <3>3 DEF Conversion
  <2>2. CASE ~(args.d < 0)
    <3>1. Numeral(10, args.d) \in Seq(C)
      <4>1. args.d \in Nat /\ 10 \in {10, 16}
        BY <1>1, <2>2
      <4> QED
        BY <1>2, <4>1, Zenon
    <3> QED
      BY <1>4, <2>2, <3>1 DEF Conversion
  <2> QED
    BY <2>1, <2>2
<1>5. CASE c = "x"
  <2>1. Numeral(16, args.x) \in Seq(C)
    BY <1>1, <1>2
  <2> QED
    BY <1>5, <2>1 DEF Conversion
<1>6. CASE c \notin {"s", "d", "x"}
  <2>1. Conversion(c, args) = <<c>>
    BY <1>6 DEF Conversion
  <2> QED
    BY <2>1
<1> QED
  BY <1>3, <1>4, <1>5, <1>6

(* What a position of the format stands for. *)
LEMMA StandsForTyped ==
  ASSUME NEW C, NEW c \in C, NEW args \in Arguments(C), NumeralChars \subseteq C, NEW e
  PROVE  StandsFor(c, e, args) \in Seq(C)
<1>1. <<>> \in Seq(C) /\ <<c>> \in Seq(C)
  OBVIOUS
<1>2. Conversion(c, args) \in Seq(C)
  BY ConversionTyped
<1> QED
  BY <1>1, <1>2, Zenon DEF StandsFor

(* A beginning of a string. *)
LEMMA ClippedShape ==
  ASSUME NEW C, NEW s \in Seq(C), NEW r \in Nat
  PROVE  /\ Clipped(s, r) \in Seq(C)
         /\ Len(Clipped(s, r)) = IF Len(s) <= r THEN Len(s) ELSE r
         /\ \A i \in 1 .. Len(Clipped(s, r)) : Clipped(s, r)[i] = s[i]
BY DEF Clipped

(* What is clipped when there is room for the first part. *)
LEMMA ClippedConcat ==
  ASSUME NEW C, NEW s \in Seq(C), NEW t \in Seq(C), NEW r \in Nat, Len(s) <= r
  PROVE  Clipped(s \o t, r) = s \o Clipped(t, r - Len(s))
<1> DEFINE u == s \o t
           c == Clipped(u, r)
           d == Clipped(t, r - Len(s))
           v == s \o d
<1>1. r - Len(s) \in Nat /\ Len(s) \in Nat /\ Len(t) \in Nat
  OBVIOUS
<1>2. u \in Seq(C) /\ Len(u) = Len(s) + Len(t)
      /\ \A i \in 1 .. Len(u) : u[i] = IF i <= Len(s) THEN s[i] ELSE t[i - Len(s)]
  OBVIOUS
<1>3. /\ d \in Seq(C)
      /\ Len(d) = IF Len(t) <= r - Len(s) THEN Len(t) ELSE r - Len(s)
      /\ \A i \in 1 .. Len(d) : d[i] = t[i]
  BY <1>1, ClippedShape
<1> HIDE DEF u, d
<1>4. /\ c \in Seq(C) /\ Len(c) = (IF Len(u) <= r THEN Len(u) ELSE r)
      /\ \A i \in 1 .. Len(c) : c[i] = u[i]
  BY <1>2, ClippedShape
<1>5. v \in Seq(C) /\ Len(v) = Len(s) + Len(d)
      /\ \A i \in 1 .. Len(s) + Len(d) : v[i] = IF i <= Len(s) THEN s[i] ELSE d[i - Len(s)]
  BY <1>3, ConcatProperties
<1> HIDE DEF c, v
<1>6. Len(c) = Len(v)
  BY <1>1, <1>2, <1>3, <1>4, <1>5
<1>7. ASSUME NEW i \in 1 .. Len(c) PROVE c[i] = v[i]
  <2>1. i \in 1 .. Len(u) /\ i \in 1 .. Len(v)
    BY <1>1, <1>2, <1>4, <1>6
  <2>2. CASE i <= Len(s)
    BY <1>2, <1>4, <1>5, <2>1, <2>2
  <2>3. CASE ~(i <= Len(s))
    <3>1. i - Len(s) \in 1 .. Len(d)
      BY <1>1, <1>3, <1>5, <2>1, <2>3
    <3>2. d[i - Len(s)] = t[i - Len(s)]
      BY <1>3, <3>1
    <3> QED
      BY <1>2, <1>4, <1>5, <2>1, <2>3, <3>2
  <2> QED
    BY <2>2, <2>3
<1>8. c = v
  BY <1>4, <1>5, <1>6, <1>7, SeqEqual
<1> QED
  BY <1>8 DEF c, v, u, d

(* A directive is reached with room for a character, and writes what it    *)
(* stands for, as much of it as there is room for.                         *)
AtDirective(C, size, format, args, o) ==
  /\ args \in Arguments(C) /\ NumeralChars \subseteq C /\ size \in Nat
  /\ o.out \in Seq(C) /\ ~(Room(size, o.out) <= 0) /\ format[o.pos + 1] \in C
WritesDirective(size, format, args, o) ==
  Directive(size, format, args, o)
    = Output(o.pos + 2,
             o.out \o Clipped(Conversion(format[o.pos + 1], args), Room(size, o.out)))

(* The sign always has room, the digits what the sign leaves. *)
LEMMA DirectiveWrites ==
  ASSUME NEW C, NEW format, NEW args, NEW size, NEW o, AtDirective(C, size, format, args, o)
  PROVE  WritesDirective(size, format, args, o)
<1> SUFFICES Directive(size, format, args, o)
               = Output(o.pos + 2,
                        o.out \o Clipped(Conversion(format[o.pos + 1], args), Room(size, o.out)))
  BY Zenon DEF WritesDirective
<1>0. /\ args \in Arguments(C) /\ NumeralChars \subseteq C /\ size \in Nat
      /\ o.out \in Seq(C) /\ ~(Room(size, o.out) <= 0) /\ format[o.pos + 1] \in C
  BY Zenon DEF AtDirective
<1> DEFINE c == format[o.pos + 1]
           r == Room(size, o.out)
           Write(s) == Written(size, o.out, s)
<1>1. \A s : Write(s) = o.out \o Clipped(s, r)
  BY DEF Written
<1>2. args.d \in Int /\ r \in Nat /\ r >= 1
  BY <1>0 DEF Arguments, Room
<1>3. CASE c = "s"
  <2>1. Conversion(c, args) = args.s
    BY <1>3 DEF Conversion
  <2>2. Directive(size, format, args, o) = Output(o.pos + 2, Write(args.s))
    BY <1>3 DEF Directive
  <2> QED
    BY <1>1, <2>1, <2>2, Zenon
<1>4. CASE c = "d" /\ args.d < 0
  <2> DEFINE m == Numeral(10, -args.d)
             u == Write(<<"-">>)
  <2>1. Conversion(c, args) = <<"-">> \o m
    BY <1>4 DEF Conversion
  <2>2. Directive(size, format, args, o) = Output(o.pos + 2, Written(size, u, m))
    BY <1>4 DEF Directive
  <2>3. m \in Seq(C)
    <3>1. -args.d \in Nat
      BY <1>2, <1>4
    <3>2. m \in Seq(NumeralChars)
      BY <3>1, NumeralShape, Zenon
    <3> HIDE DEF m
    <3> QED
      BY <1>0, <3>2
  <2>4. <<"-">> \in Seq(C) /\ Len(<<"-">>) = 1
    BY <1>0 DEF NumeralChars
  <2> HIDE DEF m
  <2>5. Clipped(<<"-">> \o m, r) = <<"-">> \o Clipped(m, r - 1)
    <3>1. Len(<<"-">>) <= r
      BY <1>2, <2>4
    <3> HIDE DEF r
    <3>2. Clipped(<<"-">> \o m, r) = <<"-">> \o Clipped(m, r - Len(<<"-">>))
      BY <1>2, <2>3, <2>4, <3>1, ClippedConcat
    <3> QED
      BY <2>4, <3>2
  <2>6. u = o.out \o <<"-">>
    <3>1. Clipped(<<"-">>, r) = <<"-">>
      <4> DEFINE d == <<"-">>
      <4>1. d \in Seq(C) /\ Len(d) <= r
        BY <1>2, <2>4
      <4> HIDE DEF d, r
      <4>2. Clipped(d, r) = SubSeq(d, 1, Len(d))
        BY <1>2, <4>1 DEF Clipped
      <4>3. SubSeq(d, 1, Len(d)) = d
        BY <4>1
      <4> QED
        BY <4>2, <4>3 DEF d
    <3> QED
      BY <1>1, <3>1, Zenon
  <2> HIDE DEF u
  <2>7. Room(size, u) = r - 1
    BY <1>0, <2>4, <2>6 DEF Room
  <2> DEFINE k == Clipped(m, r - 1)
  <2>8. Written(size, u, m) = (o.out \o <<"-">>) \o k
    BY <2>6, <2>7, Zenon DEF Written
  <2>9. k \in Seq(C)
    <3>1. r - 1 \in Nat
      BY <1>2
    <3> QED
      BY <2>3, <3>1, ClippedShape
  <2> HIDE DEF k
  <2>10. (o.out \o <<"-">>) \o k = o.out \o (<<"-">> \o k)
    <3> DEFINE a == o.out
               d == <<"-">>
    <3>1. a \in Seq(C) /\ d \in Seq(C)
      BY <1>0, <2>4
    <3> HIDE DEF a, d
    <3>2. \A x, y, z \in Seq(C) : (x \o y) \o z = x \o (y \o z)
      <4> TAKE x, y, z \in Seq(C)
      <4> QED
        BY ConcatAssociative, SMT
    <3>3. (a \o d) \o k = a \o (d \o k)
      BY <2>9, <3>1, <3>2, ZenonT(30)
    <3> QED
      BY <3>3 DEF a, d
  <2> QED
    BY <2>1, <2>2, <2>5, <2>8, <2>10, Zenon DEF k
<1>5. CASE c = "d" /\ ~(args.d < 0)
  <2>1. Conversion(c, args) = Numeral(10, args.d)
    BY <1>5 DEF Conversion
  <2>2. Directive(size, format, args, o) = Output(o.pos + 2, Write(Numeral(10, args.d)))
    BY <1>5 DEF Directive
  <2> QED
    BY <1>1, <2>1, <2>2, Zenon
<1>6. CASE c = "x"
  <2>1. Conversion(c, args) = Numeral(16, args.x)
    BY <1>6 DEF Conversion
  <2>2. Directive(size, format, args, o) = Output(o.pos + 2, Write(Numeral(16, args.x)))
    BY <1>6 DEF Directive
  <2> QED
    BY <1>1, <2>1, <2>2, Zenon
<1>7. CASE c \notin {"s", "d", "x"}
  <2>1. Conversion(c, args) = <<c>>
    BY <1>7 DEF Conversion
  <2>2. Directive(size, format, args, o) = Output(o.pos + 2, Write(<<c>>))
    BY <1>7 DEF Directive
  <2> QED
    BY <1>1, <2>1, <2>2, Zenon
<1> QED
  BY <1>3, <1>4, <1>5, <1>6, <1>7

(* x is what the first positions of the format stand for. *)
ExpansionHistory(x, C, format, args) ==
  /\ x \in [0 .. Len(format) -> Seq(C)]
  /\ x[0] = <<>>
  /\ \A i \in 1 .. Len(format) :
       x[i] = x[i - 1] \o StandsFor(format[i], Escaped(format)[i], args)

(* What Expansion computes. *)
LEMMA ExpansionRounds ==
  ASSUME NEW C, NEW format \in Seq(C), NEW args \in Arguments(C), NumeralChars \subseteq C
  PROVE  ExpansionHistory(Expansion(format, args), C, format, args)
<1> DEFINE n == Len(format)
           S == Seq(C)
           part(i) == StandsFor(format[i], Escaped(format)[i], args)
           step == [q \in (1 .. n) \X S |-> q[2] \o part(q[1])]
           F == Expansion(format, args)
<1>1. n \in Nat /\ <<>> \in S
  OBVIOUS
<1>2. ASSUME NEW k \in 1 .. n PROVE part(k) \in Seq(C)
  BY StandsForTyped
<1> HIDE DEF part
<1>3. ASSUME NEW k \in 1 .. n, NEW v \in S PROVE v \o part(k) \in S
  BY <1>2
<1>4. step \in [(1 .. n) \X S -> S]
  BY <1>3
<1>5. \A k \in 1 .. n, v \in S : step[<<k, v>>] = v \o part(k)
  OBVIOUS
<1> HIDE DEF step, S, n
<1>6. PICK f \in [0 .. n -> S] : Iterates(f, n, <<>>, step)
  BY <1>1, <1>4, HistoryExists
<1>7. f[0] = <<>> /\ \A k \in 1 .. n : f[k] = f[k - 1] \o part(k)
  <2>1. \A k \in 1 .. n : f[k - 1] \in S
    BY <1>1, <1>6
  <2> QED
    BY <1>5, <1>6, <2>1 DEF Iterates
<1>8. f = [k \in 0 .. n |-> IF k = 0 THEN <<>> ELSE f[k - 1] \o part(k)]
  BY <1>1, <1>7, SMTT(60)
<1>9. F = [k \in 0 .. n |-> IF k = 0 THEN <<>> ELSE F[k - 1] \o part(k)]
  BY <1>8, Zenon DEF Expansion, n, part
<1> HIDE DEF F
<1>10. F = f
  <2>1. Counted(F, n) /\ Counted(f, n) /\ F[0] = f[0]
    BY <1>1, <1>7, <1>8, <1>9 DEF Counted
  <2>2. \A k \in 1 .. n : F[k] = F[k - 1] \o part(k)
    <3>1. \A k \in 1 .. n : k \in 0 .. n /\ k # 0
      BY <1>1
    <3> QED
      BY <1>9, <3>1, Zenon
  <2> QED
    BY <1>1, <1>7, <2>1, <2>2, HistoriesAgree
<1> QED
  BY <1>6, <1>7, <1>10 DEF S, F, n, part, ExpansionHistory

(* f is the output after each round of vsnprintf. *)
FormatHistory(f, D, size, format, args) ==
  /\ f \in [0 .. Len(format) -> [pos : Nat, out : Seq(D)]]
  /\ f[0] = Output(1, <<>>)
  /\ \A k \in 1 .. Len(format) : f[k] = FormatRound(size, format, args, f[k - 1])

(* What can be in the output: a format that ends in a single % adds what   *)
(* lies behind it.                                                         *)
OutputChars(C, format) == C \cup {format[Len(format) + 1]}

(* A round of vsnprintf writes characters. *)
LEMMA FormatRoundTyped ==
  ASSUME NEW C, NEW format \in Seq(C), NEW args \in Arguments(C), NumeralChars \subseteq C, NEW size \in Nat,
         NEW o \in [pos : Nat, out : Seq(OutputChars(C, format))], o.pos >= 1
  PROVE  /\ FormatRound(size, format, args, o) \in [pos : Nat, out : Seq(OutputChars(C, format))]
         /\ FormatRound(size, format, args, o).pos >= 1
<1> DEFINE D == OutputChars(C, format)
<1>1. CASE o.pos > Len(format) \/ Room(size, o.out) <= 0
  BY <1>1 DEF FormatRound
<1>2. CASE ~(o.pos > Len(format) \/ Room(size, o.out) <= 0)
  <2>1. o.pos \in 1 .. Len(format) /\ Room(size, o.out) \in Nat
    BY <1>2 DEF Room
  <2>2. format[o.pos] \in D /\ format[o.pos + 1] \in D /\ args \in Arguments(D)
        /\ NumeralChars \subseteq D
    <3>1. o.pos + 1 = Len(format) + 1 \/ o.pos + 1 \in 1 .. Len(format)
      BY <2>1
    <3>2. C \subseteq D
      BY DEF OutputChars
    <3> QED
      BY <2>1, <3>1, <3>2 DEF OutputChars, Arguments
  <2> HIDE DEF D
  <2>3. CASE format[o.pos] # "%"
    <3>1. FormatRound(size, format, args, o) = Output(o.pos + 1, Append(o.out, format[o.pos]))
      BY <1>2, <2>3 DEF FormatRound
    <3>2. Append(o.out, format[o.pos]) \in Seq(D)
      BY <2>2 DEF D
    <3> QED
      BY <3>1, <3>2 DEF D, Output
  <2>4. CASE format[o.pos] = "%"
    <3> DEFINE w == Conversion(format[o.pos + 1], args)
               c == Clipped(w, Room(size, o.out))
    <3>1. w \in Seq(D)
      BY <2>2, ConversionTyped
    <3> HIDE DEF w
    <3>2. c \in Seq(D)
      BY <2>1, <3>1, ClippedShape
    <3>3. FormatRound(size, format, args, o) = Output(o.pos + 2, o.out \o c)
      <4>1. FormatRound(size, format, args, o) = Directive(size, format, args, o)
        BY <1>2, <2>4, Zenon DEF FormatRound
      <4>2. o.out \in Seq(D) /\ size \in Nat /\ ~(Room(size, o.out) <= 0)
        BY <1>2 DEF D
      <4>3. AtDirective(D, size, format, args, o)
        BY <2>2, <4>2, Zenon DEF AtDirective
      <4>4. WritesDirective(size, format, args, o)
        BY <4>3, DirectiveWrites, Zenon
      <4> QED
        BY <4>1, <4>4, Zenon DEF WritesDirective, w
    <3> HIDE DEF c
    <3>4. o.out \o c \in Seq(D)
      BY <3>2 DEF D
    <3> QED
      BY <3>3, <3>4 DEF D, Output
  <2> QED
    BY <2>3, <2>4
<1> QED
  BY <1>1, <1>2

(* What the rounds of vsnprintf compute. *)
LEMMA FormatRoundsHistory ==
  ASSUME NEW C, NEW format \in Seq(C), NEW args \in Arguments(C), NumeralChars \subseteq C, NEW size \in Nat
  PROVE  FormatHistory(FormatRounds(size, format, args), OutputChars(C, format),
                       size, format, args)
<1> DEFINE n == Len(format)
           D == OutputChars(C, format)
           R == [pos : Nat, out : Seq(D)]
           S == {o \in R : o.pos >= 1}
           b == Output(1, <<>>)
           step == [q \in (1 .. n) \X S |-> FormatRound(size, format, args, q[2])]
           F == FormatRounds(size, format, args)
<1>1. n \in Nat /\ b \in S
  BY DEF Output
<1>2. ASSUME NEW v \in S PROVE FormatRound(size, format, args, v) \in S
  <2>1. v \in R /\ v.pos >= 1
    OBVIOUS
  <2> QED
    BY <2>1, FormatRoundTyped
<1>3. S \subseteq R
  OBVIOUS
<1> HIDE DEF S, b, n, R
<1>4. step \in [(1 .. n) \X S -> S]
  BY <1>2
<1>5. \A k \in 1 .. n, v \in S : step[<<k, v>>] = FormatRound(size, format, args, v)
  OBVIOUS
<1> HIDE DEF step
<1>6. PICK f \in [0 .. n -> S] : Iterates(f, n, b, step)
  BY <1>1, <1>4, HistoryExists
<1>7. f[0] = b /\ \A k \in 1 .. n : f[k] = FormatRound(size, format, args, f[k - 1])
  <2>1. \A k \in 1 .. n : f[k - 1] \in S
    BY <1>1, <1>6
  <2> QED
    BY <1>5, <1>6, <2>1 DEF Iterates
<1>8. f = [k \in 0 .. n |-> IF k = 0 THEN b ELSE FormatRound(size, format, args, f[k - 1])]
  BY <1>1, <1>7
<1>9. F = [k \in 0 .. n |-> IF k = 0 THEN b ELSE FormatRound(size, format, args, F[k - 1])]
  BY <1>8, Zenon DEF FormatRounds, n, b
<1> HIDE DEF F
<1>10. F = f
  <2>1. Counted(F, n) /\ Counted(f, n) /\ F[0] = f[0]
    BY <1>1, <1>7, <1>8, <1>9 DEF Counted
  <2>2. \A k \in 1 .. n : F[k] = FormatRound(size, format, args, F[k - 1])
    <3>1. \A k \in 1 .. n : k \in 0 .. n /\ k # 0
      BY <1>1
    <3> QED
      BY <1>9, <3>1, Zenon
  <2> QED
    BY <1>1, <1>7, <2>1, <2>2, HistoriesAgree
<1>11. f \in [0 .. n -> R]
  BY <1>3, <1>6
<1> QED
  BY <1>7, <1>10, <1>11 DEF F, n, b, R, FormatHistory

(* What is clipped when there is no room for more than the first part. *)
LEMMA ClippedFirst ==
  ASSUME NEW C, NEW s \in Seq(C), NEW t \in Seq(C), NEW r \in Nat, Len(s) >= r
  PROVE  Clipped(s \o t, r) = Clipped(s, r)
<1> DEFINE u == s \o t
<1>1. u \in Seq(C) /\ Len(u) = Len(s) + Len(t)
      /\ \A i \in 1 .. Len(s) : u[i] = s[i]
  OBVIOUS
<1> HIDE DEF u
<1>2. /\ Clipped(s, r) \in Seq(C) /\ Len(Clipped(s, r)) = r
      /\ \A i \in 1 .. r : Clipped(s, r)[i] = s[i]
  BY ClippedShape
<1>3. /\ Clipped(u, r) \in Seq(C) /\ Len(Clipped(u, r)) = r
      /\ \A i \in 1 .. r : Clipped(u, r)[i] = u[i]
  <2>1. Len(u) >= r /\ (Len(u) <= r => Len(u) = r)
    BY <1>1
  <2> QED
    <3>1. Len(Clipped(u, r)) = r
      BY <1>1, <2>1, ClippedShape
    <3> QED
      BY <1>1, <3>1, ClippedShape
<1>4. \A i \in 1 .. r : u[i] = s[i]
  BY <1>1
<1>5. Clipped(u, r) = Clipped(s, r)
  <2> DEFINE a == Clipped(u, r)
             b == Clipped(s, r)
  <2>1. a \in Seq(C) /\ b \in Seq(C) /\ Len(a) = Len(b) /\ \A i \in 1 .. Len(a) : a[i] = b[i]
    BY <1>2, <1>3, <1>4
  <2> HIDE DEF a, b
  <2>2. a = b
    BY <2>1, SeqEqual
  <2> QED
    BY <2>2 DEF a, b
<1> QED
  BY <1>5 DEF u

(* Once the buffer is full, what follows in the format does not matter. *)
LEMMA FullStaysFull ==
  ASSUME NEW C, NEW format \in Seq(C), NEW args \in Arguments(C), NumeralChars \subseteq C, NEW r \in Nat, NEW x,
         ExpansionHistory(x, C, format, args), NEW p \in 0 .. Len(format), Len(x[p]) >= r
  PROVE  Clipped(x[Len(format)], r) = Clipped(x[p], r)
<1> DEFINE n == Len(format)
           T == {k \in 0 .. n : k >= p => Len(x[k]) >= r /\ Clipped(x[k], r) = Clipped(x[p], r)}
<1>1. n \in Nat /\ p \in Nat /\ x \in [0 .. n -> Seq(C)]
  BY DEF ExpansionHistory
<1>2. 0 \in T
  BY <1>1
<1>3. ASSUME NEW k \in 1 .. n, k - 1 \in T PROVE k \in T
  <2>1. CASE k <= p
    BY <1>1, <2>1
  <2>2. CASE ~(k <= p)
    <3> DEFINE t == StandsFor(format[k], Escaped(format)[k], args)
    <3>1. x[k] = x[k - 1] \o t /\ x[k - 1] \in Seq(C) /\ x[k] \in Seq(C)
      <4>1. x[k] = x[k - 1] \o t
        BY Zenon DEF ExpansionHistory
      <4>2. k \in 0 .. n /\ k - 1 \in 0 .. n
        BY <1>1
      <4> QED
        BY <1>1, <4>1, <4>2, Zenon
    <3>2. t \in Seq(C)
      BY StandsForTyped
    <3> HIDE DEF t
    <3>3. Len(x[k - 1]) >= r /\ Clipped(x[k - 1], r) = Clipped(x[p], r)
      BY <1>1, <1>3, <2>2
    <3>4. Clipped(x[k - 1] \o t, r) = Clipped(x[k - 1], r)
      BY <3>1, <3>2, <3>3, ClippedFirst
    <3>5. Len(x[k]) >= r
      BY <3>1, <3>2, <3>3
    <3>6. Clipped(x[k], r) = Clipped(x[p], r)
      BY <3>1, <3>3, <3>4, Zenon
    <3> QED
      BY <1>1, <3>5, <3>6
  <2> QED
    BY <2>1, <2>2
<1> HIDE DEF T
<1>4. n \in T
  <2>1. \A k \in 0 .. n : k \in T
    BY <1>1, <1>2, <1>3, UpTo
  <2> QED
    BY <1>1, <2>1
<1> QED
  BY <1>1, <1>4 DEF T

(* Which position is escaped next. *)
LEMMA EscapedNext ==
  ASSUME NEW C, NEW format \in Seq(C), NEW i \in 1 .. Len(format), i + 1 <= Len(format)
  PROVE  Escaped(format)[i + 1] <=> format[i] = "%" /\ ~Escaped(format)[i]
<1> DEFINE e == Escaped(format)
<1>1. i + 1 \in 1 .. Len(format) /\ i + 1 > 1 /\ (i + 1) - 1 = i
  OBVIOUS
<1>2. e[i + 1] <=> EscapedBy(format, e, i + 1)
  BY <1>1, EscapedRounds, Zenon
<1>3. EscapedBy(format, e, i + 1) <=> i + 1 > 1 /\ format[(i + 1) - 1] = "%" /\ ~e[(i + 1) - 1]
  BY Zenon DEF EscapedBy
<1> HIDE DEF e
<1>4. EscapedBy(format, e, i + 1) <=> format[i] = "%" /\ ~e[i]
  BY <1>1, <1>3, Zenon
<1> QED
  BY <1>2, <1>4, Zenon DEF e

(* After round k the output is the beginning of what the format stands for *)
(* up to the place that was reached, and that place is not escaped.        *)
FormatSoFar(o, format, x, r, k) ==
  /\ o.pos \in 1 .. Len(format) + 1
  /\ o.pos <= Len(format) => ~Escaped(format)[o.pos]
  /\ o.out = Clipped(x[o.pos - 1], r)
  /\ o.pos > k \/ Len(o.out) >= r

(* One round of vsnprintf where there is room and a character to read. *)
LEMMA FormatRoundWrites ==
  ASSUME NEW C, NEW format \in Seq(C), NEW args \in Arguments(C), NumeralChars \subseteq C, NEW r \in Nat, NEW x,
         ExpansionHistory(x, C, format, args), Complete(format), NEW o,
         o.pos \in 1 .. Len(format), ~Escaped(format)[o.pos], o.out = x[o.pos - 1],
         Len(o.out) < r, NEW k \in Nat, o.pos >= k
  PROVE  FormatSoFar(FormatRound(r + 1, format, args, o), format, x, r, k)
<1> DEFINE n == Len(format)
           p == o.pos
           q == FormatRound(r + 1, format, args, o)
<1>1. /\ n \in Nat /\ p \in 1 .. n /\ p - 1 \in 0 .. n /\ x \in [0 .. n -> Seq(C)]
      /\ x[p - 1] \in Seq(C) /\ o.out = x[p - 1] /\ o.out \in Seq(C) /\ Len(o.out) \in Nat
  <2>1. n \in Nat /\ p \in 1 .. n /\ p - 1 \in 0 .. n
    OBVIOUS
  <2>2. x \in [0 .. n -> Seq(C)]
    BY DEF ExpansionHistory
  <2>3. x[p - 1] \in Seq(C)
    BY <2>1, <2>2, Zenon
  <2> QED
    BY <2>1, <2>2, <2>3
<1>2. x[p] = x[p - 1] \o StandsFor(format[p], Escaped(format)[p], args)
  BY <1>1, Zenon DEF ExpansionHistory
<1>3. ~(p > n \/ Room(r + 1, o.out) <= 0) /\ Room(r + 1, o.out) = r - Len(o.out)
  BY <1>1 DEF Room
<1>4. CASE format[p] # "%"
  <2>1. q = Output(p + 1, Append(o.out, format[p]))
    BY <1>3, <1>4, Zenon DEF FormatRound
  <2>2. q.pos = p + 1 /\ q.out = Append(o.out, format[p])
    BY <2>1 DEF Output
  <2>3. StandsFor(format[p], Escaped(format)[p], args) = <<format[p]>>
    BY <1>4, Zenon DEF StandsFor
  <2>4. x[p] = Append(o.out, format[p])
    BY <1>1, <1>2, <2>3
  <2>5. Clipped(x[p], r) = x[p]
    BY <1>1, <2>4, SMTT(60) DEF Clipped
  <2>6. p + 1 <= n => ~Escaped(format)[p + 1]
    BY <1>1, <1>4, EscapedNext, Zenon
  <2>7. p + 1 \in 1 .. n + 1 /\ (p + 1) - 1 = p /\ p + 1 > k
    BY <1>1
  <2> HIDE DEF q
  <2>8. FormatSoFar(q, format, x, r, k)
    BY <2>2, <2>4, <2>5, <2>6, <2>7, Zenon DEF FormatSoFar
  <2> QED
    BY <2>8 DEF q
<1>5. CASE format[p] = "%"
  <2> DEFINE w == Conversion(format[p + 1], args)
  <2>1. p + 1 \in 1 .. n /\ p + 1 \in 0 .. n
    <3>1. p # n
      <4>1. n # 0
        BY <1>1
      <4>2. ~(format[n] = "%" /\ ~Escaped(format)[n])
        BY <4>1, Zenon DEF Complete
      <4> QED
        BY <1>5, <4>2, Zenon
    <3> QED
      BY <1>1, <3>1
  <2>2. q = Output(p + 2, o.out \o Clipped(w, r - Len(o.out)))
    <3>1. q = Directive(r + 1, format, args, o)
      BY <1>3, <1>5, Zenon DEF FormatRound
    <3>2. format[p + 1] \in C /\ r + 1 \in Nat /\ ~(Room(r + 1, o.out) <= 0)
      BY <1>3, <2>1
    <3>3. Directive(r + 1, format, args, o)
            = Output(p + 2, o.out \o Clipped(w, Room(r + 1, o.out)))
      <4>1. AtDirective(C, r + 1, format, args, o)
        BY <1>1, <3>2, Zenon DEF AtDirective
      <4>2. WritesDirective(r + 1, format, args, o)
        BY <4>1, DirectiveWrites, Zenon
      <4> QED
        BY <4>2, Zenon DEF WritesDirective
    <3> QED
      BY <1>3, <3>1, <3>3, Zenon
  <2>3. q.pos = p + 2 /\ q.out = o.out \o Clipped(w, r - Len(o.out))
    <3> HIDE DEF q, w, p
    <3> QED
      BY <2>2 DEF Output
  <2>4. StandsFor(format[p], Escaped(format)[p], args) = <<>>
    BY <1>5, Zenon DEF StandsFor
  <2>5. x[p] = x[p - 1]
    BY <1>1, <1>2, <2>4
  <2>6. Escaped(format)[p + 1]
    <3>1. p + 1 <= n
      BY <1>1, <2>1
    <3> QED
      BY <1>1, <1>5, <3>1, EscapedNext, Zenon
  <2>7. StandsFor(format[p + 1], Escaped(format)[p + 1], args) = w
    BY <2>6, Zenon DEF StandsFor
  <2>8. x[p + 1] = x[p] \o w
    <3>1. x[p + 1] = x[(p + 1) - 1] \o StandsFor(format[p + 1], Escaped(format)[p + 1], args)
      BY <2>1, Zenon DEF ExpansionHistory
    <3>2. (p + 1) - 1 = p
      BY <1>1
    <3> QED
      BY <2>7, <3>1, <3>2, Zenon
  <2>9. w \in Seq(C)
    BY <2>1, ConversionTyped
  <2> HIDE DEF w
  <2>10. Clipped(o.out \o w, r) = o.out \o Clipped(w, r - Len(o.out))
    <3>1. Len(o.out) <= r
      BY <1>1
    <3> QED
      BY <1>1, <2>9, <3>1, ClippedConcat
  <2>11. q.out = Clipped(x[p + 1], r)
    BY <1>1, <2>3, <2>5, <2>8, <2>10, Zenon
  <2>12. p + 2 <= n => ~Escaped(format)[p + 2]
    <3>1. (p + 1) + 1 = p + 2
      BY <1>1
    <3>2. (p + 1) + 1 <= n => ~Escaped(format)[(p + 1) + 1]
      BY <2>1, <2>6, EscapedNext, Zenon
    <3> QED
      BY <3>1, <3>2, Zenon
  <2>13. p + 2 \in 1 .. n + 1 /\ (p + 2) - 1 = p + 1 /\ p + 2 > k
    BY <1>1, <2>1, SMTT(60)
  <2> HIDE DEF q
  <2>14. FormatSoFar(q, format, x, r, k)
    BY <2>3, <2>11, <2>12, <2>13, Zenon DEF FormatSoFar
  <2> QED
    BY <2>14 DEF q
<1> QED
  BY <1>4, <1>5

(* Every round of vsnprintf keeps what holds of the output. *)
LEMMA FormatRoundKeeps ==
  ASSUME NEW C, NEW format \in Seq(C), NEW args \in Arguments(C), NumeralChars \subseteq C, NEW r \in Nat, NEW x,
         ExpansionHistory(x, C, format, args), Complete(format), NEW o,
         NEW k \in 1 .. Len(format), FormatSoFar(o, format, x, r, k - 1)
  PROVE  FormatSoFar(FormatRound(r + 1, format, args, o), format, x, r, k)
<1> DEFINE n == Len(format)
           p == o.pos
<1>1. n \in Nat /\ p \in 1 .. n + 1 /\ p - 1 \in 0 .. n /\ k \in Nat
  BY DEF FormatSoFar
<1>2. x[p - 1] \in Seq(C)
  BY <1>1 DEF ExpansionHistory
<1>3. /\ o.out = Clipped(x[p - 1], r) /\ o.out \in Seq(C) /\ Len(o.out) \in Nat
      /\ Len(o.out) = IF Len(x[p - 1]) <= r THEN Len(x[p - 1]) ELSE r
  BY <1>2, ClippedShape DEF FormatSoFar
<1>4. Room(r + 1, o.out) = r - Len(o.out)
  BY <1>3 DEF Room
<1>5. CASE p > n \/ Room(r + 1, o.out) <= 0
  <2>1. FormatRound(r + 1, format, args, o) = o
    BY <1>5 DEF FormatRound
  <2>2. p > k \/ Len(o.out) >= r
    BY <1>1, <1>3, <1>4, <1>5
  <2>3. FormatSoFar(o, format, x, r, k)
    BY <2>2, Zenon DEF FormatSoFar
  <2> QED
    BY <2>1, <2>3
<1>6. CASE ~(p > n \/ Room(r + 1, o.out) <= 0)
  <2>1. p \in 1 .. n /\ Len(o.out) < r
    BY <1>1, <1>3, <1>4, <1>6, SMTT(60)
  <2>2. Len(x[p - 1]) \in Nat /\ Len(x[p - 1]) <= r
    BY <1>2, <1>3, <2>1
  <2>3. o.out = x[p - 1]
    BY <1>2, <1>3, <2>2 DEF Clipped
  <2>4. p >= k
    BY <1>1, <1>3, <2>1 DEF FormatSoFar
  <2>5. ~Escaped(format)[p]
    <3>1. p <= n
      BY <1>1, <2>1
    <3> QED
      BY <3>1, Zenon DEF FormatSoFar
  <2> QED
    BY <1>1, <2>1, <2>3, <2>4, <2>5, FormatRoundWrites
<1> QED
  BY <1>5, <1>6

(* What vsnprintf writes: the beginning of what a complete format stands   *)
(* for, as much of it as leaves a byte for the terminator.                 *)
THEOREM FormatsAll ==
  ASSUME NEW C, NEW format \in Seq(C), NEW args \in Arguments(C), NumeralChars \subseteq C, NEW size \in Nat \ {0},
         Complete(format)
  PROVE  LET out == Clipped(Expanded(format, args), size - 1)
         IN vsnprintf(size, format, args) = Printing(Append(out, NUL), Len(out))
<1> DEFINE n == Len(format)
           r == size - 1
           x == Expansion(format, args)
           f == FormatRounds(size, format, args)
           T == {k \in 0 .. n : FormatSoFar(f[k], format, x, r, k)}
<1>1. n \in Nat /\ r \in Nat /\ size = r + 1
  OBVIOUS
<1>2. ExpansionHistory(x, C, format, args)
  BY ExpansionRounds
<1>3. f[0] = Output(1, <<>>) /\ \A k \in 1 .. n : f[k] = FormatRound(size, format, args, f[k - 1])
  <2>1. size \in Nat
    OBVIOUS
  <2>2. FormatHistory(f, OutputChars(C, format), size, format, args)
    BY <2>1, FormatRoundsHistory, Zenon
  <2> QED
    BY <2>2, Zenon DEF FormatHistory
<1> HIDE DEF x, f, r
<1>4. 0 \in T
  <2>1. f[0].pos = 1 /\ f[0].out = <<>>
    BY <1>3 DEF Output
  <2>2. x[0] = <<>> /\ Clipped(<<>>, r) = <<>>
    BY <1>1, <1>2 DEF ExpansionHistory, Clipped
  <2>3. 1 <= n => ~Escaped(format)[1]
    <3>1. 1 <= n => 1 \in 1 .. n
      BY <1>1
    <3>2. ~EscapedBy(format, Escaped(format), 1)
      BY DEF EscapedBy
    <3> QED
      BY <3>1, <3>2, EscapedRounds, Zenon
  <2>4. 1 \in 1 .. n + 1 /\ 1 - 1 = 0 /\ 1 > 0 /\ 0 \in 0 .. n
    BY <1>1
  <2>5. FormatSoFar(f[0], format, x, r, 0)
    BY <2>1, <2>2, <2>3, <2>4, Zenon DEF FormatSoFar
  <2> QED
    BY <2>4, <2>5
<1>5. ASSUME NEW k \in 1 .. n, k - 1 \in T PROVE k \in T
  <2>1. FormatSoFar(f[k - 1], format, x, r, k - 1) /\ k \in 0 .. n
    BY <1>1, <1>5
  <2>2. FormatSoFar(FormatRound(r + 1, format, args, f[k - 1]), format, x, r, k)
    BY <1>1, <1>2, <2>1, FormatRoundKeeps
  <2> QED
    BY <1>1, <1>3, <2>1, <2>2
<1> HIDE DEF T
<1>6. n \in T
  <2>1. \A k \in 0 .. n : k \in T
    BY <1>1, <1>4, <1>5, UpTo
  <2> QED
    BY <1>1, <2>1
<1> DEFINE o == f[n]
           p == o.pos
<1>7. p \in 1 .. n + 1 /\ o.out = Clipped(x[p - 1], r) /\ (p > n \/ Len(o.out) >= r)
  BY <1>6, Zenon DEF T, FormatSoFar
<1> HIDE DEF o
<1>8. o.out = Clipped(x[n], r)
  <2>1. CASE p > n
    <3>1. p - 1 = n
      BY <1>1, <1>7, <2>1
    <3> QED
      BY <1>7, <3>1
  <2>2. CASE ~(p > n)
    <3>1. p - 1 \in 0 .. n
      BY <1>1, <1>7
    <3>2. x[p - 1] \in Seq(C)
      BY <1>2, <3>1 DEF ExpansionHistory
    <3>3. Len(x[p - 1]) >= r
      <4>1. Len(o.out) = IF Len(x[p - 1]) <= r THEN Len(x[p - 1]) ELSE r
        BY <1>1, <1>7, <3>2, ClippedShape
      <4> QED
        BY <1>1, <1>7, <2>2, <3>2, <4>1
    <3>4. Clipped(x[n], r) = Clipped(x[p - 1], r)
      BY <1>1, <1>2, <3>1, <3>3, FullStaysFull
    <3> QED
      BY <1>7, <3>4
  <2> QED
    BY <2>1, <2>2
<1>9. vsnprintf(size, format, args) = Printing(Append(o.out, NUL), Len(o.out))
  <2>1. size # 0
    OBVIOUS
  <2> QED
    BY <2>1, Zenon DEF o, f, vsnprintf
<1> QED
  BY <1>8, <1>9, Zenon DEF x, r, Expanded

(* vsnprintf fills the buffer, leaves room for the terminator, writes what *)
(* the format stands for and returns how much of it, for every text that   *)
(* is a complete format; and the numerals in it are those of the numbers.  *)
THEOREM FormatsFillTheBuffer == ConsoleSpec => []FormatsWithinSize
<1>1. TextOK => FormatsWithinSize
  <2> SUFFICES ASSUME TextOK, Complete(text), NEW num \in Numbers
               PROVE  LET unsigned == IF num < 0 THEN -num ELSE num
                          args == [s |-> <<"a", "b">>, d |-> num, x |-> unsigned]
                          all == Expanded(text, args)
                      IN /\ \A size \in 0 .. 4 :
                              vsnprintf(size, text, args)
                                = IF size = 0 THEN Printing(<<>>, 0)
                                  ELSE Printing(Append(Clipped(all, size - 1), NUL),
                                                Len(Clipped(all, size - 1)))
                         /\ \A base \in {10, 16} :
                              IsNumeral(base, Numeral(base, unsigned), unsigned)
    BY DEF FormatsWithinSize
  <2> DEFINE C == Printed \cup NumeralChars \cup {"a", "b"}
             u == IF num < 0 THEN -num ELSE num
             args == [s |-> <<"a", "b">>, d |-> num, x |-> u]
             all == Expanded(text, args)
  <2>1. text \in Seq(C) /\ NumeralChars \subseteq C /\ <<"a", "b">> \in Seq(C)
    BY DEF TextOK
  <2>2. u \in Nat /\ u < UINT_LIMIT /\ num \in Int
    BY NumbersAssumption, SMT DEF UINT_LIMIT
  <2> HIDE DEF C, u
  <2>3. args \in Arguments(C)
    BY <2>1, <2>2 DEF Arguments
  <2> HIDE DEF args
  <2>4. ASSUME NEW size \in 0 .. 4
        PROVE vsnprintf(size, text, args)
                = IF size = 0 THEN Printing(<<>>, 0)
                  ELSE Printing(Append(Clipped(all, size - 1), NUL), Len(Clipped(all, size - 1)))
    <3>1. CASE size = 0
      BY <3>1, Zenon DEF vsnprintf
    <3>2. CASE size # 0
      <4>1. size \in Nat \ {0}
        BY <3>2
      <4> QED
        BY <2>1, <2>3, <3>2, <4>1, FormatsAll, Zenon
    <3> QED
      BY <3>1, <3>2
  <2>5. ASSUME NEW base \in {10, 16} PROVE IsNumeral(base, Numeral(base, u), u)
    BY <2>2, NumeralsReadBack
  <2> QED
    BY <2>4, <2>5, Zenon DEF args, u
<1> QED
  BY <1>1, TextTyped, PTL


-----------------------------------------------------------------------------
(* Searching in strings.                                                   *)

(* The first place from i on that is in Q, or the end. *)
LEMMA FirstExists ==
  ASSUME NEW n \in Nat, NEW i \in 1 .. n + 1, NEW Q
  PROVE  \E j \in i .. n + 1 : (j > n \/ j \in Q) /\ \A k \in i .. j - 1 : k \notin Q
<1> DEFINE T == {j \in Nat : j < i \/ (j <= n /\ j \notin Q)}
<1>1. T \in SUBSET Nat /\ n + 1 \in Nat /\ n + 1 \notin T
  OBVIOUS
<1>2. PICK j \in Nat : j \notin T /\ \A k \in Nat : k < j => k \in T
  <2> HIDE DEF T
  <2> QED
    BY <1>1, LeastMissing
<1>3. j <= n + 1
  <2>1. ~(n + 1 < j)
    BY <1>1, <1>2
  <2> QED
    BY <2>1
<1>4. j \in i .. n + 1 /\ (j > n \/ j \in Q)
  BY <1>2, <1>3
<1>5. ASSUME NEW k \in i .. j - 1 PROVE k \notin Q
  <2>1. k \in Nat /\ k < j /\ ~(k < i)
    BY <1>4
  <2> QED
    BY <1>2, <2>1
<1> QED
  BY <1>4, <1>5

(* A nonempty set of numbers up to n has a Max. *)
LEMMA MaxIsMember ==
  ASSUME NEW n \in Nat, NEW S \in SUBSET (0 .. n), S # {}
  PROVE  Max(S) \in S /\ \A y \in S : Max(S) >= y
<1> DEFINE T == {m \in Nat : \E y \in S : y > m}
<1>1. T \in SUBSET Nat /\ n \notin T
  OBVIOUS
<1>2. PICK m \in Nat : m \notin T /\ \A k \in Nat : k < m => k \in T
  <2> HIDE DEF T
  <2> QED
    BY <1>1, LeastMissing
<1>3. \A y \in S : m >= y
  BY <1>2
<1>4. m \in S
  <2>1. CASE m = 0
    <3>1. PICK y \in S : TRUE
      OBVIOUS
    <3>2. y = m
      BY <1>3, <2>1, <3>1
    <3> QED
      BY <3>2
  <2>2. CASE m # 0
    <3>1. m - 1 \in T
      BY <1>2, <2>2
    <3>2. PICK y \in S : y > m - 1
      BY <3>1
    <3>3. y = m
      BY <1>3, <3>2
    <3> QED
      BY <3>3
  <2> QED
    BY <2>1, <2>2
<1> QED
  BY <1>3, <1>4 DEF Max

(* What strrchr finds. *)
LEMMA LastSlashShape ==
  ASSUME NEW C, NEW s \in Seq(C)
  PROVE  /\ LastSlash(s) \in 0 .. Len(s)
         /\ LastSlash(s) # 0 => s[LastSlash(s)] = "/"
         /\ \A i \in 1 .. Len(s) : i > LastSlash(s) => s[i] # "/"
<1> DEFINE I == {i \in 1 .. Len(s) : s[i] = "/"}
<1>1. LastSlash(s) = IF I # {} THEN Max(I) ELSE 0
  BY DEF LastSlash, SelectLastInSeq
<1>2. I # {} => Max(I) \in I /\ \A y \in I : Max(I) >= y
  <2>1. I \in SUBSET (0 .. Len(s)) /\ Len(s) \in Nat
    OBVIOUS
  <2> HIDE DEF I
  <2> QED
    BY <2>1, MaxIsMember
<1>3. CASE I = {}
  BY <1>1, <1>3
<1>4. CASE I # {}
  <2>1. LastSlash(s) = Max(I)
    BY <1>1, <1>4
  <2>2. LastSlash(s) \in 1 .. Len(s) /\ s[LastSlash(s)] = "/"
    BY <1>2, <1>4, <2>1
  <2>3. ASSUME NEW i \in 1 .. Len(s), i > LastSlash(s) PROVE s[i] # "/"
    BY <1>2, <1>4, <2>1, <2>2, <2>3
  <2> QED
    BY <2>2, <2>3
<1> QED
  BY <1>3, <1>4

(* Where the slashes from place i on end, and the name, and the string. *)
SlashesEnd(s, i) == FirstFrom(s, i, LAMBDA c : c # "/")
NameEnd(s, i) == FirstFrom(s, i, LAMBDA c : c = "/")
StringEnd(s, i) == FirstFrom(s, i, LAMBDA c : c = NUL)

(* Slashes are skipped up to something else. *)
LEMMA SlashesEndShape ==
  ASSUME NEW C, NEW s \in Seq(C), NEW i \in 1 .. Len(s) + 1
  PROVE  /\ SlashesEnd(s, i) \in i .. Len(s) + 1
         /\ SlashesEnd(s, i) <= Len(s) => s[SlashesEnd(s, i)] # "/"
         /\ \A k \in i .. SlashesEnd(s, i) - 1 : s[k] = "/"
<1> DEFINE Q == {k \in 1 .. Len(s) : s[k] # "/"}
           P(j) == (j > Len(s) \/ s[j] # "/") /\ \A k \in i .. j - 1 : ~(s[k] # "/")
<1>1. \E j \in i .. Len(s) + 1 : (j > Len(s) \/ j \in Q) /\ \A k \in i .. j - 1 : k \notin Q
  <2>1. Len(s) \in Nat
    OBVIOUS
  <2> HIDE DEF Q
  <2> QED
    BY <2>1, FirstExists
<1>2. \E j \in i .. Len(s) + 1 : P(j)
  BY <1>1
<1>3. SlashesEnd(s, i) = CHOOSE j \in i .. Len(s) + 1 : P(j)
  BY DEF SlashesEnd, FirstFrom
<1>4. SlashesEnd(s, i) \in i .. Len(s) + 1 /\ P(SlashesEnd(s, i))
  <2> HIDE DEF P
  <2> QED
    BY <1>2, <1>3, Zenon
<1> QED
  BY <1>4

(* A name ends at a slash. *)
LEMMA NameEndShape ==
  ASSUME NEW C, NEW s \in Seq(C), NEW i \in 1 .. Len(s) + 1
  PROVE  /\ NameEnd(s, i) \in i .. Len(s) + 1
         /\ NameEnd(s, i) <= Len(s) => s[NameEnd(s, i)] = "/"
         /\ \A k \in i .. NameEnd(s, i) - 1 : s[k] # "/"
<1> DEFINE Q == {k \in 1 .. Len(s) : s[k] = "/"}
           P(j) == (j > Len(s) \/ s[j] = "/") /\ \A k \in i .. j - 1 : ~(s[k] = "/")
<1>1. \E j \in i .. Len(s) + 1 : (j > Len(s) \/ j \in Q) /\ \A k \in i .. j - 1 : k \notin Q
  <2>1. Len(s) \in Nat
    OBVIOUS
  <2> HIDE DEF Q
  <2> QED
    BY <2>1, FirstExists
<1>2. \E j \in i .. Len(s) + 1 : P(j)
  BY <1>1
<1>3. NameEnd(s, i) = CHOOSE j \in i .. Len(s) + 1 : P(j)
  BY DEF NameEnd, FirstFrom
<1>4. NameEnd(s, i) \in i .. Len(s) + 1 /\ P(NameEnd(s, i))
  <2> HIDE DEF P
  <2> QED
    BY <1>2, <1>3, Zenon
<1> QED
  BY <1>4

(* A string ends at its terminator. *)
LEMMA StringEndShape ==
  ASSUME NEW C, NEW s \in Seq(C), NEW i \in 1 .. Len(s) + 1
  PROVE  /\ StringEnd(s, i) \in i .. Len(s) + 1
         /\ StringEnd(s, i) <= Len(s) => s[StringEnd(s, i)] = NUL
         /\ \A k \in i .. StringEnd(s, i) - 1 : s[k] # NUL
<1> DEFINE Q == {k \in 1 .. Len(s) : s[k] = NUL}
           P(j) == (j > Len(s) \/ s[j] = NUL) /\ \A k \in i .. j - 1 : ~(s[k] = NUL)
<1>1. \E j \in i .. Len(s) + 1 : (j > Len(s) \/ j \in Q) /\ \A k \in i .. j - 1 : k \notin Q
  <2>1. Len(s) \in Nat
    OBVIOUS
  <2> HIDE DEF Q
  <2> QED
    BY <2>1, FirstExists
<1>2. \E j \in i .. Len(s) + 1 : P(j)
  BY <1>1
<1>3. StringEnd(s, i) = CHOOSE j \in i .. Len(s) + 1 : P(j)
  BY DEF StringEnd, FirstFrom
<1>4. StringEnd(s, i) \in i .. Len(s) + 1 /\ P(StringEnd(s, i))
  <2> HIDE DEF P
  <2> QED
    BY <1>2, <1>3, Zenon
<1> QED
  BY <1>4

-----------------------------------------------------------------------------
(* The rounds of vfs_normalize_path.                                       *)

(* Scans that have written less than they have read. *)
Scans(path, C) == {s \in [pp : 1 .. Len(path) + 1, np : Seq(C)] : Len(s.np) < s.pp}

(* A round at a slash. *)
LEMMA RoundAtSlash ==
  ASSUME NEW path, NEW s, ~(s.pp > Len(path)), path[s.pp] = "/"
  PROVE  Round(path, s) = Scan(SlashesEnd(path, s.pp),
           IF SlashesEnd(path, s.pp) <= Len(path) THEN Append(s.np, "/") ELSE s.np)
BY Zenon DEF Round, SlashAt, SlashesEnd, FirstFrom

(* A round at a name. *)
LEMMA RoundAtName ==
  ASSUME NEW path, NEW s, ~(s.pp > Len(path)), path[s.pp] # "/",
         ~DotAt(path, s.pp), ~DotDotAt(path, s.pp)
  PROVE  Round(path, s) = Scan(NameEnd(path, s.pp),
           s.np \o SubSeq(path, s.pp, NameEnd(path, s.pp) - 1))
BY Zenon DEF Round, NameEnd, FirstFrom

(* A round at "." and at "..". *)
LEMMA RoundAtDots ==
  ASSUME NEW path, NEW s, ~(s.pp > Len(path)), path[s.pp] # "/"
  PROVE  /\ DotAt(path, s.pp) => Round(path, s) = Scan(s.pp + 1, s.np)
         /\ ~DotAt(path, s.pp) /\ DotDotAt(path, s.pp) =>
              Round(path, s) = Scan(s.pp + 2, DropComponent(s.np))
BY Zenon DEF Round

(* What ".." leaves. *)
LEMMA DropComponentShape ==
  ASSUME NEW C, NEW np \in Seq(C)
  PROVE  DropComponent(np) \in Seq(C) /\ Len(DropComponent(np)) <= Len(np)
<1>1. CASE Len(np) > 1
  <2>1. Front(np) \in Seq(C) /\ Len(Front(np)) = Len(np) - 1
    BY <1>1 DEF Front
  <2>2. LastSlash(Front(np)) \in 0 .. Len(np) - 1
    BY <2>1, LastSlashShape
  <2> DEFINE l == LastSlash(Front(np))
  <2>3. DropComponent(np) = SubSeq(np, 1, l)
    BY <1>1 DEF DropComponent
  <2> HIDE DEF l
  <2>4. SubSeq(np, 1, l) \in Seq(C) /\ Len(SubSeq(np, 1, l)) = l
    BY <1>1, <2>2 DEF l
  <2> QED
    BY <2>2, <2>3, <2>4 DEF l
<1>2. CASE ~(Len(np) > 1)
  BY <1>2 DEF DropComponent
<1> QED
  BY <1>1, <1>2

(* Every round reads a character at least, and writes no more than it      *)
(* reads.                                                                  *)
LEMMA RoundTyped ==
  ASSUME NEW C, "/" \in C, NEW path \in Seq(C), NEW s \in Scans(path, C)
  PROVE  /\ Round(path, s) \in Scans(path, C)
         /\ s.pp <= Len(path) => Round(path, s).pp > s.pp
<1> DEFINE n == Len(path)
           p == s.pp
           t == Round(path, s)
<1>1. n \in Nat /\ p \in 1 .. n + 1 /\ s.np \in Seq(C) /\ Len(s.np) < p /\ Len(s.np) \in Nat
  BY DEF Scans
<1>2. SUFFICES ASSUME p <= n
               PROVE  \E q, w : t = Scan(q, w) /\ q \in p + 1 .. n + 1
                                 /\ w \in Seq(C) /\ Len(w) < q
  <2>1. CASE p <= n
    <3>1. PICK q, w : t = Scan(q, w) /\ q \in p + 1 .. n + 1 /\ w \in Seq(C) /\ Len(w) < q
      BY <1>2, <2>1
    <3> HIDE DEF t
    <3>2. t.pp = q /\ t.np = w /\ t = [pp |-> q, np |-> w]
      BY <3>1 DEF Scan
    <3>3. t \in Scans(path, C) /\ t.pp > p
      BY <1>1, <3>1, <3>2 DEF Scans
    <3> QED
      BY <3>3 DEF t
  <2>2. CASE ~(p <= n)
    <3>1. t = s
      BY <1>1, <2>2 DEF Round
    <3> QED
      BY <2>2, <3>1
  <2> QED
    BY <2>1, <2>2
<1>3. ~(p > n) /\ p \in 1 .. n /\ path[p] \in C
  BY <1>1, <1>2
<1>4. CASE path[p] = "/"
  <2> DEFINE q == SlashesEnd(path, p)
             w == IF q <= n THEN Append(s.np, "/") ELSE s.np
  <2>1. t = Scan(q, w)
    BY <1>3, <1>4, RoundAtSlash
  <2>2. q \in p .. n + 1 /\ (q <= n => path[q] # "/")
    BY <1>1, SlashesEndShape
  <2> HIDE DEF q
  <2>3. q \in p + 1 .. n + 1
    BY <1>1, <1>2, <1>4, <2>2
  <2>4. w \in Seq(C) /\ Len(w) < q
    BY <1>1, <2>3
  <2> HIDE DEF w
  <2> QED
    BY <2>1, <2>3, <2>4
<1>5. CASE path[p] # "/" /\ DotAt(path, p)
  <2>1. t = Scan(p + 1, s.np)
    BY <1>3, <1>5, RoundAtDots
  <2> QED
    BY <1>1, <1>2, <2>1
<1>6. CASE path[p] # "/" /\ ~DotAt(path, p) /\ DotDotAt(path, p)
  <2>1. t = Scan(p + 2, DropComponent(s.np))
    BY <1>3, <1>6, RoundAtDots
  <2>2. DropComponent(s.np) \in Seq(C) /\ Len(DropComponent(s.np)) <= Len(s.np)
    BY <1>1, DropComponentShape
  <2>3. p + 1 \in 1 .. n
    BY <1>1, <1>3, <1>6 DEF DotDotAt, At, NUL
  <2>4. p + 2 \in p + 1 .. n + 1 /\ Len(DropComponent(s.np)) < p + 2
    BY <1>1, <2>2, <2>3
  <2> QED
    BY <2>1, <2>2, <2>4
<1>7. CASE path[p] # "/" /\ ~DotAt(path, p) /\ ~DotDotAt(path, p)
  <2> DEFINE q == NameEnd(path, p)
             v == SubSeq(path, p, q - 1)
             w == s.np \o v
  <2>1. t = Scan(q, w)
    BY <1>3, <1>7, RoundAtName
  <2>2. q \in p .. n + 1 /\ (q <= n => path[q] = "/")
    BY <1>1, NameEndShape
  <2> HIDE DEF q
  <2>3. q \in p + 1 .. n + 1
    BY <1>1, <1>2, <1>7, <2>2
  <2>4. v \in Seq(C) /\ Len(v) = q - p
    <3>1. \A i \in p .. q - 1 : path[i] \in C
      BY <1>1, <2>3
    <3>2. p \in Int /\ q - 1 \in Int /\ p <= q - 1 /\ (q - 1) - p + 1 = q - p
      BY <1>1, <2>3
    <3> QED
      BY <3>1, <3>2, SubSeqProperties
  <2> HIDE DEF v
  <2>5. w \in Seq(C) /\ Len(w) < q
    BY <1>1, <2>3, <2>4
  <2> HIDE DEF w
  <2> QED
    BY <2>1, <2>3, <2>5
<1> QED
  BY <1>4, <1>5, <1>6, <1>7

(* f is the scan after each round. *)
ScanHistory(f, C, path) ==
  /\ f \in [0 .. Len(path) -> Scans(path, C)]
  /\ f[0] = IF At(path, 1) = "/" THEN Scan(2, <<"/">>) ELSE Scan(1, <<>>)
  /\ \A k \in 1 .. Len(path) : f[k] = Round(path, f[k - 1])

(* What the rounds compute. *)
LEMMA RoundsHistory ==
  ASSUME NEW C, "/" \in C, NEW path \in Seq(C)
  PROVE  ScanHistory(Rounds(path), C, path)
<1> DEFINE n == Len(path)
           S == Scans(path, C)
           b == IF At(path, 1) = "/" THEN Scan(2, <<"/">>) ELSE Scan(1, <<>>)
           step == [q \in (1 .. n) \X S |-> Round(path, q[2])]
           F == Rounds(path)
<1>1. n \in Nat
  OBVIOUS
<1>2. b \in S
  <2>1. CASE At(path, 1) = "/"
    <3>1. 1 <= n
      BY <1>1, <2>1 DEF At, NUL
    <3>2. <<"/">> \in Seq(C) /\ Len(<<"/">>) = 1
      OBVIOUS
    <3> DEFINE w == <<"/">>
               z == [pp |-> 2, np |-> w]
    <3>3. w \in Seq(C) /\ Len(w) = 1 /\ 2 \in 1 .. n + 1
      BY <1>1, <3>1, <3>2
    <3> HIDE DEF w
    <3>4. z \in Scans(path, C)
      <4>1. z \in [pp : 1 .. n + 1, np : Seq(C)] /\ z.np = w /\ z.pp = 2
        BY <3>3
      <4>2. Len(z.np) < z.pp
        <5>1. 1 < 2
          OBVIOUS
        <5> QED
          BY <3>3, <4>1, <5>1, Zenon
      <4> QED
        BY <4>1, <4>2, Zenon DEF Scans
    <3>5. b = z
      BY <2>1, Zenon DEF Scan, w
    <3> QED
      BY <3>4, <3>5
  <2>2. CASE At(path, 1) # "/"
    BY <1>1, <2>2 DEF Scan, Scans
  <2> QED
    BY <2>1, <2>2
<1>3. ASSUME NEW v \in S PROVE Round(path, v) \in S
  BY RoundTyped
<1> HIDE DEF S, b, n
<1>4. step \in [(1 .. n) \X S -> S]
  BY <1>3
<1>5. \A k \in 1 .. n, v \in S : step[<<k, v>>] = Round(path, v)
  OBVIOUS
<1> HIDE DEF step
<1>6. PICK f \in [0 .. n -> S] : Iterates(f, n, b, step)
  BY <1>1, <1>2, <1>4, HistoryExists
<1>7. f[0] = b /\ \A k \in 1 .. n : f[k] = Round(path, f[k - 1])
  <2>1. \A k \in 1 .. n : f[k - 1] \in S
    BY <1>1, <1>6
  <2> QED
    BY <1>5, <1>6, <2>1 DEF Iterates
<1>8. f = [k \in 0 .. n |-> IF k > 0 THEN Round(path, f[k - 1]) ELSE b]
  BY <1>1, <1>7
<1>9. F = [k \in 0 .. n |-> IF k > 0 THEN Round(path, F[k - 1]) ELSE b]
  BY <1>8, Zenon DEF Rounds, n, b
<1> HIDE DEF F
<1>10. F = f
  <2>1. Counted(F, n) /\ Counted(f, n) /\ F[0] = f[0]
    BY <1>1, <1>7, <1>8, <1>9 DEF Counted
  <2>2. \A k \in 1 .. n : F[k] = Round(path, F[k - 1])
    <3>1. \A k \in 1 .. n : k \in 0 .. n /\ k > 0
      BY <1>1
    <3> QED
      BY <1>9, <3>1, Zenon
  <2> QED
    BY <1>1, <1>7, <2>1, <2>2, HistoriesAgree
<1>11. F \in [0 .. n -> S] /\ F[0] = b /\ \A k \in 1 .. n : F[k] = Round(path, F[k - 1])
  BY <1>6, <1>7, <1>10, Zenon
<1> QED
  BY <1>11, Zenon DEF F, n, b, S, ScanHistory

(* The normalized path is no longer than the path, except that nothing     *)
(* becomes the root.                                                       *)
LEMMA NormalizedShape ==
  ASSUME NEW C, "/" \in C, NEW path \in Seq(C)
  PROVE  /\ vfs_normalize_path(path) \in Seq(C)
         /\ Len(vfs_normalize_path(path)) <= Len(path) \/ Len(vfs_normalize_path(path)) = 1
<1> DEFINE o == Rounds(path)[Len(path)]
<1>1. Rounds(path) \in [0 .. Len(path) -> Scans(path, C)]
  BY RoundsHistory DEF ScanHistory
<1>2. Len(path) \in 0 .. Len(path) /\ Len(path) \in Nat
  OBVIOUS
<1>3. o \in Scans(path, C)
  BY <1>1, <1>2, Zenon
<1> HIDE DEF o
<1>4. o.np \in Seq(C) /\ Len(o.np) <= Len(path)
  BY <1>2, <1>3 DEF Scans
<1>5. vfs_normalize_path(path) = IF o.np = <<>> THEN <<"/">> ELSE o.np
  BY DEF vfs_normalize_path, o
<1> QED
  BY <1>4, <1>5

(* The name that vfs_mkdir reads behind the parent's path is the last      *)
(* component, unless the parent is the root.                               *)
LEMMA NameSurvives ==
  ASSUME NEW C, "/" \in C, NUL \notin C, NEW path \in Seq(C),
         LastSlash(vfs_normalize_path(path)) > 1
  PROVE  MkdirName(path) = SubSeq(vfs_normalize_path(path),
                                  LastSlash(vfs_normalize_path(path)) + 1,
                                  Len(vfs_normalize_path(path)))
<1> DEFINE norm == vfs_normalize_path(path)
           l == LastSlash(norm)
           n == Len(norm)
           parent == SubSeq(norm, 1, l - 1)
           np == vfs_normalize_path(parent)
           D == C \cup {NUL}
           cut == Append([norm EXCEPT ![l] = NUL], NUL)
           after == Overwritten(cut, np)
<1>1. norm \in Seq(C) /\ n \in Nat
  BY NormalizedShape
<1>2. MkdirName(path) = StringAt(after, l + 1)
  BY DEF MkdirName, MkdirParent
<1> HIDE DEF norm
<1>3. l \in 2 .. n
  BY <1>1, LastSlashShape DEF norm
<1> HIDE DEF l
<1>4. parent \in Seq(C) /\ Len(parent) = l - 1
  BY <1>1, <1>3
<1> HIDE DEF parent
<1>5. np \in Seq(C) /\ Len(np) \in 0 .. l - 1
  <2>1. np \in Seq(C) /\ (Len(np) <= l - 1 \/ Len(np) = 1)
    BY <1>4, NormalizedShape
  <2> HIDE DEF np
  <2>2. Len(np) \in Nat
    BY <2>1
  <2>3. \A i, j, k \in Nat : j \in 2 .. k /\ (i <= j - 1 \/ i = 1) => i \in 0 .. j - 1
    OBVIOUS
  <2>4. l \in Nat
    BY <1>1, <1>3
  <2>5. Len(np) \in 0 .. l - 1
    BY <1>1, <1>3, <2>1, <2>2, <2>3, <2>4, Zenon
  <2> QED
    BY <2>1, <2>5, Zenon
<1> HIDE DEF np
<1>6. /\ cut \in Seq(D) /\ Len(cut) = n + 1 /\ DOMAIN cut = 1 .. n + 1
      /\ \A i \in 1 .. n + 1 : i > l => cut[i] = IF i <= n THEN norm[i] ELSE NUL
  <2> DEFINE m == [norm EXCEPT ![l] = NUL]
  <2>1. m \in Seq(D) /\ Len(m) = n /\ \A i \in 1 .. n : i > l => m[i] = norm[i]
    BY <1>1, <1>3
  <2> HIDE DEF m
  <2> QED
    BY <1>1, <1>3, <2>1 DEF m
<1> HIDE DEF cut
<1>7. after = [i \in 1 .. n + 1 |-> IF i <= Len(np) THEN np[i]
                                   ELSE IF i = Len(np) + 1 THEN NUL ELSE cut[i]]
  BY <1>6, Zenon DEF Overwritten
<1>8. after \in Seq(D) /\ Len(after) = n + 1
  <2>1. \A i \in 1 .. n + 1 : (IF i <= Len(np) THEN np[i]
                                 ELSE IF i = Len(np) + 1 THEN NUL ELSE cut[i]) \in D
    BY <1>1, <1>5, <1>6
  <2> HIDE DEF D, after
  <2> QED
    BY <1>1, <1>7, <2>1
<1>9. \A i \in 1 .. n + 1 : i > l => after[i] = IF i <= n THEN norm[i] ELSE NUL
  <2> HIDE DEF after
  <2>1. \A i \in 1 .. n + 1 : i > l => ~(i <= Len(np)) /\ i # Len(np) + 1
    BY <1>3, <1>5
  <2>2. \A i \in 1 .. n + 1 : i > l => after[i] = cut[i]
    BY <1>7, <2>1, Zenon
  <2> QED
    BY <1>6, <2>2, Zenon
<1> HIDE DEF after
<1>10. \A i \in l + 1 .. n : after[i] = norm[i] /\ norm[i] # NUL
  BY <1>1, <1>3, <1>9
<1>11. after[n + 1] = NUL
  BY <1>1, <1>3, <1>9
<1>12. StringEnd(after, l + 1) = n + 1
  <2> DEFINE q == StringEnd(after, l + 1)
  <2>1. l + 1 \in 1 .. Len(after) + 1
    BY <1>1, <1>3, <1>8
  <2>2. /\ q \in l + 1 .. Len(after) + 1 /\ (q <= Len(after) => after[q] = NUL)
        /\ \A k \in l + 1 .. q - 1 : after[k] # NUL
    BY <1>8, <2>1, StringEndShape
  <2> HIDE DEF q
  <2>3. ~(q <= n)
    <3>1. q <= n => q \in l + 1 .. n /\ q <= Len(after)
      BY <1>1, <1>3, <1>8, <2>2
    <3> QED
      BY <1>10, <2>2, <3>1
  <2>4. ~(q > n + 1)
    <3>1. q > n + 1 => n + 1 \in l + 1 .. q - 1
      BY <1>1, <1>3, <1>8, <2>2
    <3> QED
      BY <1>11, <2>2, <3>1
  <2>5. q = n + 1
    BY <1>1, <1>3, <1>8, <2>2, <2>3, <2>4
  <2> QED
    BY <2>5 DEF q
<1>13. StringAt(after, l + 1) = SubSeq(after, l + 1, n)
  <2>1. StringAt(after, l + 1) = SubSeq(after, l + 1, StringEnd(after, l + 1) - 1)
    BY Zenon DEF StringAt, StringEnd, FirstFrom
  <2>2. (n + 1) - 1 = n
    BY <1>1
  <2> QED
    BY <1>12, <2>1, <2>2, Zenon
<1>14. SubSeq(after, l + 1, n) = SubSeq(norm, l + 1, n)
  <2> DEFINE a == SubSeq(after, l + 1, n)
             b == SubSeq(norm, l + 1, n)
             m == IF l + 1 <= n THEN n - (l + 1) + 1 ELSE 0
  <2>1. l + 1 \in Int /\ n \in Int /\ \A i \in l + 1 .. n : norm[i] \in D /\ after[i] \in D
    BY <1>1, <1>3, <1>10
  <2>2. a \in Seq(D) /\ Len(a) = m /\ \A i \in 1 .. n - (l + 1) + 1 : a[i] = after[l + 1 + i - 1]
    BY <2>1, SubSeqProperties
  <2>3. b \in Seq(D) /\ Len(b) = m /\ \A i \in 1 .. n - (l + 1) + 1 : b[i] = norm[l + 1 + i - 1]
    BY <2>1, SubSeqProperties
  <2> HIDE DEF a, b
  <2>4. ASSUME NEW i \in 1 .. Len(a) PROVE a[i] = b[i]
    <3>1. i \in 1 .. n - (l + 1) + 1 /\ l + 1 + i - 1 \in l + 1 .. n
      BY <1>1, <1>3, <2>2
    <3> QED
      BY <1>10, <2>2, <2>3, <3>1
  <2>5. a = b
    BY <2>2, <2>3, <2>4, SeqEqual
  <2> QED
    BY <2>5 DEF a, b
<1> QED
  BY <1>2, <1>13, <1>14 DEF norm, l

(* vfs_normalize_path works in place and stays in its buffer, terminator   *)
(* included, on every text shorter than the buffer, and the name that      *)
(* vfs_mkdir reads behind the parent is the last component.                *)
THEOREM NormalisesWithinThePath == ConsoleSpec => []NormalisesInPlace
<1>1. TextOK => NormalisesInPlace
  <2> DEFINE norm == vfs_normalize_path(text)
  <2> SUFFICES ASSUME TextOK, Len(text) < MAX_PATH_LEN
               PROVE  /\ \A s \in Range(Rounds(text)) :
                           Len(s.np) < s.pp /\ Len(s.np) < MAX_PATH_LEN
                      /\ Len(norm) < MAX_PATH_LEN
                      /\ LastSlash(norm) > 1 =>
                           MkdirName(text) = SubSeq(norm, LastSlash(norm) + 1, Len(norm))
    BY Zenon DEF NormalisesInPlace
  <2> DEFINE C == Printed \cup {"/"}
  <2>1. text \in Seq(C) /\ "/" \in C
    BY DEF TextOK
  <2>2. NUL \notin C
    BY CharactersAssumption DEF Printed, Blank, NUL
  <2> HIDE DEF C
  <2>3. ASSUME NEW s \in Range(Rounds(text))
        PROVE  Len(s.np) < s.pp /\ Len(s.np) < MAX_PATH_LEN
    <3>1. Rounds(text) \in [0 .. Len(text) -> Scans(text, C)]
      BY <2>1, RoundsHistory DEF ScanHistory
    <3>2. s \in Scans(text, C)
      BY <3>1 DEF Range
    <3>3. Len(s.np) \in Nat /\ Len(text) \in Nat /\ Len(s.np) < s.pp /\ s.pp \in 1 .. Len(text) + 1
      BY <2>1, <3>2 DEF Scans
    <3> QED
      BY <3>3, PathAssumption
  <2>4. LastSlash(norm) > 1 => MkdirName(text) = SubSeq(norm, LastSlash(norm) + 1, Len(norm))
    BY <2>1, <2>2, NameSurvives
  <2>5. Len(norm) < MAX_PATH_LEN
    <3>1. norm \in Seq(C) /\ (Len(norm) <= Len(text) \/ Len(norm) = 1)
      BY <2>1, NormalizedShape
    <3> HIDE DEF norm
    <3>2. Len(norm) \in Nat /\ Len(text) \in Nat
      BY <2>1, <3>1
    <3> QED
      BY <3>1, <3>2, PathAssumption
  <2> QED
    BY <2>3, <2>4, <2>5
<1> QED
  BY <1>1, TextTyped, PTL

-----------------------------------------------------------------------------
(* The names of a path.                                                    *)

Readers(C) == [names : Seq(Seq(C)), name : Seq(C)]

(* f holds the names after each character of s. *)
ReadingHistory(f, C, s) ==
  /\ f \in [0 .. Len(s) -> Readers(C)]
  /\ f[0] = Reader(<<>>, <<>>)
  /\ \A i \in 1 .. Len(s) : f[i] = Take(f[i - 1], s[i])

(* The names that have ended, with the one being read. *)
LEMMA EndedTyped ==
  ASSUME NEW C, NEW r \in Readers(C)
  PROVE  Ended(r) \in Seq(Seq(C))
BY DEF Readers, Ended

(* Taking a character. *)
LEMMA TakeTyped ==
  ASSUME NEW C, NEW r \in Readers(C), NEW c \in C
  PROVE  Take(r, c) \in Readers(C)
<1>1. r.names \in Seq(Seq(C)) /\ r.name \in Seq(C) /\ Ended(r) \in Seq(Seq(C))
  BY EndedTyped DEF Readers
<1>2. Append(r.name, c) \in Seq(C) /\ <<>> \in Seq(C)
  BY <1>1
<1>3. \A u \in Seq(Seq(C)), v \in Seq(C) : Reader(u, v) \in Readers(C)
  BY DEF Reader, Readers
<1> QED
  BY <1>1, <1>2, <1>3, Zenon DEF Take

(* What Reading computes. *)
LEMMA ReadingRounds ==
  ASSUME NEW C, NEW s \in Seq(C)
  PROVE  ReadingHistory(Reading(s), C, s)
<1> DEFINE n == Len(s)
           S == Readers(C)
           b == Reader(<<>>, <<>>)
           step == [q \in (1 .. n) \X S |-> Take(q[2], s[q[1]])]
           F == Reading(s)
<1>1. n \in Nat
  OBVIOUS
<1>2. b \in S
  BY DEF Reader, Readers
<1>3. ASSUME NEW k \in 1 .. n, NEW v \in S PROVE Take(v, s[k]) \in S
  BY TakeTyped
<1> HIDE DEF S, b, n
<1>4. step \in [(1 .. n) \X S -> S]
  BY <1>3
<1>5. \A k \in 1 .. n, v \in S : step[<<k, v>>] = Take(v, s[k])
  OBVIOUS
<1> HIDE DEF step
<1>6. PICK f \in [0 .. n -> S] : Iterates(f, n, b, step)
  BY <1>1, <1>2, <1>4, HistoryExists
<1>7. f[0] = b /\ \A k \in 1 .. n : f[k] = Take(f[k - 1], s[k])
  <2>1. \A k \in 1 .. n : f[k - 1] \in S
    BY <1>1, <1>6
  <2> QED
    BY <1>5, <1>6, <2>1 DEF Iterates
<1>8. f = [k \in 0 .. n |-> IF k = 0 THEN b ELSE Take(f[k - 1], s[k])]
  BY <1>1, <1>7
<1>9. F = [k \in 0 .. n |-> IF k = 0 THEN b ELSE Take(F[k - 1], s[k])]
  BY <1>8, Zenon DEF Reading, n, b
<1> HIDE DEF F
<1>10. F = f
  <2>1. Counted(F, n) /\ Counted(f, n) /\ F[0] = f[0]
    BY <1>1, <1>7, <1>8, <1>9 DEF Counted
  <2>2. \A k \in 1 .. n : F[k] = Take(F[k - 1], s[k])
    <3>1. \A k \in 1 .. n : k \in 0 .. n /\ k # 0
      BY <1>1
    <3> QED
      BY <1>9, <3>1, Zenon
  <2> QED
    BY <1>1, <1>7, <2>1, <2>2, HistoriesAgree
<1>11. F \in [0 .. n -> S] /\ F[0] = b /\ \A k \in 1 .. n : F[k] = Take(F[k - 1], s[k])
  BY <1>6, <1>7, <1>10, Zenon
<1> QED
  BY <1>11, Zenon DEF F, n, b, S, ReadingHistory

(* The same, at one place. *)
LEMMA ReadingAt ==
  ASSUME NEW C, NEW s \in Seq(C), NEW i \in 0 .. Len(s)
  PROVE  /\ Reading(s)[i] \in Readers(C)
         /\ Reading(s)[i].names \in Seq(Seq(C)) /\ Reading(s)[i].name \in Seq(C)
         /\ i = 0 => Reading(s)[i] = Reader(<<>>, <<>>)
         /\ i > 0 => Reading(s)[i] = Take(Reading(s)[i - 1], s[i])
<1> DEFINE f == Reading(s)
<1>1. ReadingHistory(f, C, s)
  BY ReadingRounds
<1> HIDE DEF f
<1>2. f[i] \in Readers(C)
  BY <1>1, Zenon DEF ReadingHistory
<1>3. f[i].names \in Seq(Seq(C)) /\ f[i].name \in Seq(C)
  BY <1>2 DEF Readers
<1>4. i = 0 => f[i] = Reader(<<>>, <<>>)
  BY <1>1, Zenon DEF ReadingHistory
<1>5. i > 0 => f[i] = Take(f[i - 1], s[i])
  <2>1. i > 0 => i \in 1 .. Len(s)
    OBVIOUS
  <2> QED
    BY <1>1, <2>1, Zenon DEF ReadingHistory
<1> QED
  BY <1>2, <1>3, <1>4, <1>5 DEF f

(* s and t begin with the same i characters. *)
SameStart(s, t, i) == \A k \in 1 .. i : s[k] = t[k]

(* The names depend on the characters read. *)
LEMMA ReadingAgrees ==
  ASSUME NEW C, NEW s \in Seq(C), NEW t \in Seq(C), NEW n \in Nat,
         n <= Len(s), n <= Len(t), SameStart(s, t, n)
  PROVE  Reading(s)[n] = Reading(t)[n]
<1> DEFINE f == Reading(s)
           g == Reading(t)
           T == {k \in 0 .. n : f[k] = g[k]}
<1>1. Len(s) \in Nat /\ Len(t) \in Nat
  OBVIOUS
<1>2. \A k \in 0 .. n : k \in 0 .. Len(s) /\ k \in 0 .. Len(t)
  BY <1>1
<1>3. 0 \in T
  <2>1. 0 \in 0 .. Len(s) /\ 0 \in 0 .. Len(t) /\ 0 \in 0 .. n
    BY <1>1
  <2>2. f[0] = Reader(<<>>, <<>>) /\ g[0] = Reader(<<>>, <<>>)
    BY <2>1, ReadingAt, Zenon
  <2> QED
    BY <2>1, <2>2
<1>4. ASSUME NEW k \in 1 .. n, k - 1 \in T PROVE k \in T
  <2>1. k \in 0 .. Len(s) /\ k \in 0 .. Len(t) /\ k > 0 /\ k \in 0 .. n
    BY <1>1
  <2>2. f[k] = Take(f[k - 1], s[k]) /\ g[k] = Take(g[k - 1], t[k])
    BY <2>1, ReadingAt, Zenon
  <2>3. s[k] = t[k] /\ f[k - 1] = g[k - 1]
    BY <1>4 DEF SameStart
  <2>4. f[k] = g[k]
    BY <2>2, <2>3, Zenon
  <2> QED
    BY <2>1, <2>4
<1> HIDE DEF T
<1>5. \A k \in 0 .. n : k \in T
  BY <1>3, <1>4, UpTo
<1>6. n \in T
  BY <1>5
<1> QED
  BY <1>6 DEF T

(* Reading a name. *)
LEMMA NameRun ==
  ASSUME NEW C, NEW s \in Seq(C), NEW i \in Nat, NEW j \in Nat, i <= j, j <= Len(s),
         Reading(s)[i].name = <<>>, \A k \in i + 1 .. j : s[k] # "/"
  PROVE  Reading(s)[j] = Reader(Reading(s)[i].names, SubSeq(s, i + 1, j))
<1> DEFINE f == Reading(s)
           N == f[i].names
           n == j - i
           T == {k \in 0 .. n : f[i + k] = Reader(N, SubSeq(s, i + 1, i + k))}
<1>1. Len(s) \in Nat /\ n \in Nat /\ i \in 0 .. Len(s)
  OBVIOUS
<1>2. f[i] \in Readers(C)
  BY <1>1, ReadingAt, Zenon
<1>3. 0 \in T
  <2>1. f[i] = Reader(N, <<>>)
    BY <1>2 DEF Reader, Readers
  <2>2. SubSeq(s, i + 1, i + 0) = <<>> /\ i + 0 = i /\ 0 \in 0 .. n
    BY <1>1
  <2> QED
    BY <2>1, <2>2
<1>4. ASSUME NEW k \in 1 .. n, k - 1 \in T PROVE k \in T
  <2>1. i + k \in 0 .. Len(s) /\ i + k > 0 /\ (i + k) - 1 = i + (k - 1) /\ k \in 0 .. n
        /\ i + k \in i + 1 .. j
    BY <1>1
  <2>2. f[i + k] = Take(f[i + (k - 1)], s[i + k])
    <3>1. f[i + k] = Take(f[(i + k) - 1], s[i + k])
      BY <2>1, ReadingAt, Zenon
    <3> QED
      BY <2>1, <3>1
  <2> DEFINE v == SubSeq(s, i + 1, i + (k - 1))
  <2>3. f[i + (k - 1)] = Reader(N, v)
    BY <1>4
  <2>4. s[i + k] # "/"
    BY <2>1
  <2>5. Reader(N, v).names = N /\ Reader(N, v).name = v
    BY DEF Reader
  <2>6. f[i + k] = Reader(N, Append(v, s[i + k]))
    BY <2>2, <2>3, <2>4, <2>5, Zenon DEF Take
  <2>7. Append(v, s[i + k]) = SubSeq(s, i + 1, i + k)
    BY <1>1, <2>1
  <2> QED
    BY <2>1, <2>6, <2>7
<1> HIDE DEF T
<1>5. \A k \in 0 .. n : k \in T
  BY <1>1, <1>3, <1>4, UpTo
<1>6. n \in T /\ i + n = j
  BY <1>1, <1>5
<1> QED
  BY <1>6 DEF T

(* A slash ends a name. *)
LEMMA TakeSlash ==
  ASSUME NEW r
  PROVE  /\ Take(r, "/") = Reader(Ended(r), <<>>) /\ Take(r, "/").name = <<>>
         /\ Take(r, "/").names = Ended(r) /\ Ended(Take(r, "/")) = Ended(r)
<1>1. Take(r, "/") = Reader(Ended(r), <<>>)
  BY DEF Take
<1> DEFINE e == Ended(r)
<1> HIDE DEF e
<1>2. Reader(e, <<>>).name = <<>> /\ Reader(e, <<>>).names = e
  BY DEF Reader
<1>3. Ended(Reader(e, <<>>)) = e
  BY <1>2, Zenon DEF Ended
<1> QED
  BY <1>1, <1>2, <1>3, Zenon DEF e

(* Reading slashes. *)
LEMMA SlashRun ==
  ASSUME NEW C, NEW s \in Seq(C), NEW i \in Nat, NEW j \in Nat, i < j, j <= Len(s),
         \A k \in i + 1 .. j : s[k] = "/"
  PROVE  /\ Reading(s)[j].name = <<>> /\ Reading(s)[j].names = Ended(Reading(s)[i])
         /\ Ended(Reading(s)[j]) = Ended(Reading(s)[i])
<1> DEFINE f == Reading(s)
           n == j - i
           T == {k \in 0 .. n : Ended(f[i + k]) = Ended(f[i])}
<1>1. Len(s) \in Nat /\ n \in Nat /\ n # 0
  OBVIOUS
<1>2. 0 \in T
  BY <1>1
<1>3. ASSUME NEW k \in 1 .. n
      PROVE  /\ f[i + k].name = <<>> /\ f[i + k].names = Ended(f[i + (k - 1)])
             /\ Ended(f[i + k]) = Ended(f[i + (k - 1)])
  <2>1. i + k \in 0 .. Len(s) /\ i + k > 0 /\ (i + k) - 1 = i + (k - 1)
        /\ i + k \in i + 1 .. j
    BY <1>1
  <2>2. f[i + k] = Take(f[i + (k - 1)], s[i + k])
    <3>1. f[i + k] = Take(f[(i + k) - 1], s[i + k])
      BY <2>1, ReadingAt, Zenon
    <3> QED
      BY <2>1, <3>1
  <2>3. s[i + k] = "/"
    BY <2>1
  <2> QED
    BY <2>2, <2>3, TakeSlash
<1>4. ASSUME NEW k \in 1 .. n, k - 1 \in T PROVE k \in T
  BY <1>1, <1>3, <1>4
<1>5. \A k \in 0 .. n : k \in T
  <2> HIDE DEF T
  <2> QED
    BY <1>1, <1>2, <1>4, UpTo
<1>6. i + n = j /\ n \in 1 .. n /\ n \in 0 .. n /\ n - 1 \in 0 .. n
  BY <1>1
<1>7. Ended(f[i + n]) = Ended(f[i]) /\ Ended(f[i + (n - 1)]) = Ended(f[i])
  BY <1>5, <1>6, Zenon
<1>8. f[i + n].name = <<>> /\ f[i + n].names = Ended(f[i + (n - 1)])
  BY <1>3, <1>6, Zenon
<1> HIDE DEF f, n
<1>9. f[j].name = <<>> /\ f[j].names = Ended(f[i]) /\ Ended(f[j]) = Ended(f[i])
  BY <1>6, <1>7, <1>8
<1> QED
  BY <1>9 DEF f

(* a begins b. *)
Begins(a, b) == Len(a) <= Len(b) /\ \A k \in 1 .. Len(a) : a[k] = b[k]

(* A list of names begins the one with another name behind it. *)
LEMMA BeginsEnded ==
  ASSUME NEW C, NEW r \in Readers(C)
  PROVE  Begins(r.names, Ended(r))
BY DEF Readers, Ended, Begins

(* Names that have ended stay. *)
LEMMA NamesGrow ==
  ASSUME NEW C, NEW s \in Seq(C), NEW i \in Nat, NEW j \in Nat, i <= j, j <= Len(s)
  PROVE  Begins(Reading(s)[i].names, Reading(s)[j].names)
<1> DEFINE f == Reading(s)
           n == j - i
           a == f[i].names
           T == {k \in 0 .. n : Begins(a, f[i + k].names)}
<1>1. Len(s) \in Nat /\ n \in Nat /\ i \in 0 .. Len(s)
  OBVIOUS
<1>2. a \in Seq(Seq(C))
  BY <1>1, ReadingAt
<1>3. 0 \in T
  <2>1. Begins(a, a) /\ i + 0 = i /\ 0 \in 0 .. n
    BY <1>1, <1>2 DEF Begins
  <2> QED
    BY <2>1
<1>4. ASSUME NEW k \in 1 .. n, k - 1 \in T PROVE k \in T
  <2>1. i + k \in 0 .. Len(s) /\ i + k > 0 /\ (i + k) - 1 = i + (k - 1)
        /\ i + (k - 1) \in 0 .. Len(s) /\ k \in 0 .. n
    BY <1>1
  <2> DEFINE r == f[i + (k - 1)]
  <2>2. f[i + k] = Take(r, s[i + k])
    <3>1. f[i + k] = Take(f[(i + k) - 1], s[i + k])
      BY <2>1, ReadingAt, Zenon
    <3> QED
      BY <2>1, <3>1
  <2>3. r \in Readers(C)
    BY <2>1, ReadingAt, Zenon
  <2>4. Begins(a, r.names)
    BY <1>4
  <2> HIDE DEF r, a
  <2>5. f[i + k].names = Ended(r) \/ f[i + k].names = r.names
    BY <2>2 DEF Take, Reader
  <2>6. Begins(r.names, Ended(r))
    BY <2>3, BeginsEnded
  <2>7. Begins(a, Ended(r))
    <3>1. r.names \in Seq(Seq(C)) /\ Ended(r) \in Seq(Seq(C)) /\ a \in Seq(Seq(C))
      BY <1>2, <2>3, EndedTyped DEF Readers
    <3> QED
      BY <2>4, <2>6, <3>1, SMTT(60) DEF Begins
  <2> QED
    BY <2>1, <2>4, <2>5, <2>7
<1> HIDE DEF T
<1>5. \A k \in 0 .. n : k \in T
  BY <1>1, <1>3, <1>4, UpTo
<1>6. n \in T /\ i + n = j
  BY <1>1, <1>5
<1> QED
  BY <1>6 DEF T

-----------------------------------------------------------------------------
(* Following the names.                                                    *)

(* f holds the names that are left after each of the names N. *)
FollowingHistory(f, C, N) ==
  /\ f \in [0 .. Len(N) -> Seq(Seq(C))]
  /\ f[0] = <<>>
  /\ \A i \in 1 .. Len(N) : f[i] = Follow(f[i - 1], N[i])

(* "." and ".." differ. *)
LEMMA DotsDiffer == Dot # DotDot /\ Dot # <<>> /\ DotDot # <<>>
<1>1. Len(Dot) = 1 /\ Len(DotDot) = 2
  BY DEF Dot, DotDot
<1> QED
  BY <1>1

(* Following one name. *)
LEMMA FollowTyped ==
  ASSUME NEW S, NEW N \in Seq(S), NEW v \in S
  PROVE  Follow(N, v) \in Seq(S)
<1>1. N # <<>> => Front(N) \in Seq(S)
  BY DEF Front
<1>2. Append(N, v) \in Seq(S)
  OBVIOUS
<1>3. CASE v = Dot
  BY <1>3, DotsDiffer DEF Follow
<1>4. CASE v # Dot /\ v = DotDot
  BY <1>1, <1>4 DEF Follow
<1>5. CASE v # Dot /\ v # DotDot
  BY <1>2, <1>5 DEF Follow
<1> QED
  BY <1>3, <1>4, <1>5

(* What Following computes. *)
LEMMA FollowingRounds ==
  ASSUME NEW C, NEW N \in Seq(Seq(C))
  PROVE  FollowingHistory(Following(N), C, N)
<1> DEFINE n == Len(N)
           S == Seq(Seq(C))
           step == [q \in (1 .. n) \X S |-> Follow(q[2], N[q[1]])]
           F == Following(N)
<1>1. n \in Nat /\ <<>> \in S
  OBVIOUS
<1>2. ASSUME NEW k \in 1 .. n, NEW v \in S PROVE Follow(v, N[k]) \in S
  <2>1. N[k] \in Seq(C)
    OBVIOUS
  <2> QED
    BY <2>1, FollowTyped
<1> HIDE DEF S, n
<1>4. step \in [(1 .. n) \X S -> S]
  BY <1>2
<1>5. \A k \in 1 .. n, v \in S : step[<<k, v>>] = Follow(v, N[k])
  OBVIOUS
<1> HIDE DEF step
<1>6. PICK f \in [0 .. n -> S] : Iterates(f, n, <<>>, step)
  BY <1>1, <1>4, HistoryExists
<1>7. f[0] = <<>> /\ \A k \in 1 .. n : f[k] = Follow(f[k - 1], N[k])
  <2>1. \A k \in 1 .. n : f[k - 1] \in S
    BY <1>1, <1>6
  <2> QED
    BY <1>5, <1>6, <2>1 DEF Iterates
<1>8. f = [k \in 0 .. n |-> IF k = 0 THEN <<>> ELSE Follow(f[k - 1], N[k])]
  BY <1>1, <1>7
<1>9. F = [k \in 0 .. n |-> IF k = 0 THEN <<>> ELSE Follow(F[k - 1], N[k])]
  BY <1>8, Zenon DEF Following, n
<1> HIDE DEF F
<1>10. F = f
  <2>1. Counted(F, n) /\ Counted(f, n) /\ F[0] = f[0]
    BY <1>1, <1>7, <1>8, <1>9 DEF Counted
  <2>2. \A k \in 1 .. n : F[k] = Follow(F[k - 1], N[k])
    <3>1. \A k \in 1 .. n : k \in 0 .. n /\ k # 0
      BY <1>1
    <3> QED
      BY <1>9, <3>1, Zenon
  <2> QED
    BY <1>1, <1>7, <2>1, <2>2, HistoriesAgree
<1>11. F \in [0 .. n -> S] /\ F[0] = <<>> /\ \A k \in 1 .. n : F[k] = Follow(F[k - 1], N[k])
  BY <1>6, <1>7, <1>10, Zenon
<1> QED
  BY <1>11, Zenon DEF F, n, S, FollowingHistory

(* What is left of the names N. *)
Followed(N) == Following(N)[Len(N)]

(* Nothing is left of nothing. *)
LEMMA FollowedNone == Followed(<<>>) = <<>>
<1>1. <<>> \in Seq(Seq({})) /\ Len(<<>>) = 0
  OBVIOUS
<1>2. FollowingHistory(Following(<<>>), {}, <<>>)
  BY <1>1, FollowingRounds
<1> QED
  BY <1>1, <1>2 DEF FollowingHistory, Followed

(* The last name is followed from what the others leave. *)
LEMMA FollowedAppend ==
  ASSUME NEW C, NEW N \in Seq(Seq(C)), NEW v \in Seq(C)
  PROVE  Followed(N) \in Seq(Seq(C)) /\ Followed(Append(N, v)) = Follow(Followed(N), v)
<1> DEFINE M == Append(N, v)
           f == Following(N)
           g == Following(M)
           n == Len(N)
           T == {k \in 0 .. n : f[k] = g[k]}
<1>1. n \in Nat /\ M \in Seq(Seq(C)) /\ Len(M) = n + 1 /\ M[n + 1] = v
      /\ \A k \in 1 .. n : M[k] = N[k]
  OBVIOUS
<1> HIDE DEF M
<1>2. FollowingHistory(f, C, N) /\ FollowingHistory(g, C, M)
  BY <1>1, FollowingRounds
<1> HIDE DEF f, g
<1>3. 0 \in T
  BY <1>1, <1>2 DEF FollowingHistory
<1>4. ASSUME NEW k \in 1 .. n, k - 1 \in T PROVE k \in T
  <2>1. k \in 1 .. Len(M) /\ k \in 0 .. n
    BY <1>1
  <2>2. f[k] = Follow(f[k - 1], N[k]) /\ g[k] = Follow(g[k - 1], M[k])
    BY <1>2, <2>1, Zenon DEF FollowingHistory
  <2>3. f[k - 1] = g[k - 1] /\ M[k] = N[k]
    BY <1>1, <1>4
  <2>4. f[k] = g[k]
    BY <2>2, <2>3, Zenon
  <2> QED
    BY <2>1, <2>4
<1> HIDE DEF T
<1>5. \A k \in 0 .. n : k \in T
  BY <1>1, <1>3, <1>4, UpTo
<1>6. f[n] = g[n]
  BY <1>1, <1>5 DEF T
<1>7. n + 1 \in 1 .. Len(M) /\ (n + 1) - 1 = n /\ n \in 0 .. n
  BY <1>1
<1>8. g[n + 1] = Follow(g[n], v)
  <2>1. g[n + 1] = Follow(g[(n + 1) - 1], M[n + 1])
    BY <1>2, <1>7, Zenon DEF FollowingHistory
  <2> QED
    BY <1>1, <1>7, <2>1, Zenon
<1>9. f[n] \in Seq(Seq(C))
  BY <1>2, <1>7, Zenon DEF FollowingHistory
<1>10. Followed(M) = g[n + 1] /\ Followed(N) = f[n]
  BY <1>1 DEF Followed, f, g
<1> QED
  BY <1>6, <1>8, <1>9, <1>10 DEF M

-----------------------------------------------------------------------------
(* What a round does to the names of the path that is written.             *)

(* One more character. *)
LEMMA ReadingAppend ==
  ASSUME NEW C, NEW w \in Seq(C), NEW c \in C
  PROVE  Reading(Append(w, c))[Len(w) + 1] = Take(Reading(w)[Len(w)], c)
<1> DEFINE n == Len(w)
           u == Append(w, c)
<1>1. n \in Nat /\ u \in Seq(C) /\ Len(u) = n + 1 /\ u[n + 1] = c /\ SameStart(u, w, n)
  BY DEF SameStart
<1> HIDE DEF u
<1>2. n + 1 \in 0 .. Len(u) /\ n + 1 > 0 /\ (n + 1) - 1 = n /\ n <= Len(u) /\ n <= Len(w)
  BY <1>1
<1>3. Reading(u)[n + 1] = Take(Reading(u)[(n + 1) - 1], u[n + 1])
  BY <1>1, <1>2, ReadingAt, Zenon
<1>4. Reading(u)[n] = Reading(w)[n]
  BY <1>1, <1>2, ReadingAgrees
<1> QED
  BY <1>1, <1>2, <1>3, <1>4, Zenon DEF u

(* A slash behind it adds no name. *)
LEMMA ComponentsSlash ==
  ASSUME NEW C, "/" \in C, NEW w \in Seq(C)
  PROVE  Components(Append(w, "/")) = Components(w)
<1>1. Reading(Append(w, "/"))[Len(w) + 1] = Take(Reading(w)[Len(w)], "/")
  BY ReadingAppend
<1>2. Len(Append(w, "/")) = Len(w) + 1
  OBVIOUS
<1> QED
  BY <1>1, <1>2, TakeSlash, Zenon DEF Components

(* Behind a slash there is no name. *)
LEMMA BehindSlash ==
  ASSUME NEW C, NEW w \in Seq(C), Len(w) >= 1, w[Len(w)] = "/"
  PROVE  Reading(w)[Len(w)].name = <<>> /\ Components(w) = Reading(w)[Len(w)].names
<1>1. Len(w) \in 0 .. Len(w) /\ Len(w) > 0
  OBVIOUS
<1>2. Reading(w)[Len(w)] = Take(Reading(w)[Len(w) - 1], "/")
  BY <1>1, ReadingAt, Zenon
<1> DEFINE r == Reading(w)[Len(w)]
<1>3. r.name = <<>>
  BY <1>2, TakeSlash, Zenon
<1> QED
  BY <1>3, Zenon DEF Components, Ended

(* A name behind a slash. *)
LEMMA ComponentsName ==
  ASSUME NEW C, NEW w \in Seq(C), Len(w) >= 1, w[Len(w)] = "/",
         NEW v \in Seq(C), v # <<>>, \A k \in 1 .. Len(v) : v[k] # "/"
  PROVE  Components(w \o v) = Append(Components(w), v)
<1> DEFINE u == w \o v
           i == Len(w)
           j == Len(w) + Len(v)
<1>1. i \in Nat /\ j \in Nat /\ i <= j /\ u \in Seq(C) /\ Len(u) = j /\ i <= Len(w)
      /\ i <= Len(u) /\ j <= Len(u)
  OBVIOUS
<1>2. SameStart(u, w, i)
  BY DEF SameStart
<1>3. \A k \in i + 1 .. j : u[k] # "/"
  <2> TAKE k \in i + 1 .. j
  <2>1. k - Len(w) \in 1 .. Len(v) /\ u[k] = v[k - Len(w)]
    OBVIOUS
  <2> QED
    BY <2>1
<1>4. SubSeq(u, i + 1, j) = v
  OBVIOUS
<1> HIDE DEF u
<1>5. Reading(u)[i] = Reading(w)[i]
  BY <1>1, <1>2, ReadingAgrees
<1>6. Reading(w)[i].name = <<>> /\ Components(w) = Reading(w)[i].names
  BY BehindSlash
<1> HIDE DEF i, j
<1>7. Reading(u)[j] = Reader(Reading(u)[i].names, SubSeq(u, i + 1, j))
  BY <1>1, <1>3, <1>5, <1>6, NameRun
<1>8. Reading(u)[j] = Reader(Components(w), v)
  BY <1>4, <1>5, <1>6, <1>7, Zenon
<1>9. Ended(Reader(Components(w), v)) = Append(Components(w), v)
  <2> DEFINE a == Components(w)
  <2> HIDE DEF a
  <2>1. Reader(a, v).names = a /\ Reader(a, v).name = v
    BY DEF Reader
  <2>2. Ended(Reader(a, v)) = Append(a, v)
    BY <2>1, Zenon DEF Ended
  <2> QED
    BY <2>2 DEF a
<1> QED
  BY <1>1, <1>8, <1>9, Zenon DEF u, Components

(* What is before the last element. *)
LEMMA FrontOfAppend ==
  ASSUME NEW S, NEW a \in Seq(S), NEW v \in S
  PROVE  Append(a, v) # <<>> /\ Front(Append(a, v)) = a /\ Last(Append(a, v)) = v
<1> DEFINE u == Append(a, v)
<1>1. u \in Seq(S) /\ Len(u) = Len(a) + 1 /\ u # <<>> /\ u[Len(a) + 1] = v
      /\ \A i \in 1 .. Len(a) : u[i] = a[i]
  BY AppendProperties
<1> HIDE DEF u
<1>2. Front(u) \in Seq(S) /\ Len(Front(u)) = Len(a) /\ \A i \in 1 .. Len(a) : Front(u)[i] = a[i]
  BY <1>1 DEF Front
<1>3. Front(u) = a
  BY <1>2, SeqEqual
<1>4. Last(u) = v
  BY <1>1 DEF Last
<1> QED
  BY <1>1, <1>3, <1>4 DEF u

(* What ".." leaves of an absolute path: it ends in a slash, and what it   *)
(* takes away is the name between the last two slashes and the last one.   *)
LEMMA DropComponentLeaves ==
  ASSUME NEW C, NEW w \in Seq(C), Len(w) > 1, w[1] = "/"
  PROVE  \E l \in 1 .. Len(w) - 1 :
           /\ DropComponent(w) = SubSeq(w, 1, l) /\ w[l] = "/"
           /\ \A i \in l + 1 .. Len(w) - 1 : w[i] # "/"
<1> DEFINE u == Front(w)
           l == LastSlash(u)
<1>1. u \in Seq(C) /\ Len(u) = Len(w) - 1 /\ \A i \in 1 .. Len(w) - 1 : u[i] = w[i]
  BY DEF Front
<1>2. DropComponent(w) = SubSeq(w, 1, l)
  BY DEF DropComponent
<1> HIDE DEF u
<1>3. /\ l \in 0 .. Len(u) /\ (l # 0 => u[l] = "/")
      /\ \A i \in 1 .. Len(u) : i > l => u[i] # "/"
  BY <1>1, LastSlashShape
<1> HIDE DEF l
<1>4. l # 0
  <2>1. 1 \in 1 .. Len(u) /\ u[1] = "/" /\ (l = 0 => 1 > l)
    BY <1>1
  <2> QED
    BY <1>3, <2>1
<1>5. l \in 1 .. Len(w) - 1 /\ w[l] = "/"
  BY <1>1, <1>3, <1>4
<1>6. \A i \in l + 1 .. Len(w) - 1 : w[i] # "/"
  <2> TAKE i \in l + 1 .. Len(w) - 1
  <2>1. i \in 1 .. Len(u) /\ i > l /\ u[i] = w[i]
    BY <1>1, <1>5
  <2> QED
    BY <1>3, <2>1
<1> QED
  BY <1>2, <1>5, <1>6

(* The beginning of a path, up to a slash. *)
LEMMA ComponentsOfStart ==
  ASSUME NEW C, NEW w \in Seq(C), NEW l \in 1 .. Len(w), w[l] = "/"
  PROVE  /\ SubSeq(w, 1, l) \in Seq(C) /\ Len(SubSeq(w, 1, l)) = l
         /\ SubSeq(w, 1, l)[1] = w[1] /\ SubSeq(w, 1, l)[l] = "/"
         /\ Reading(w)[l].name = <<>> /\ Components(SubSeq(w, 1, l)) = Reading(w)[l].names
<1> DEFINE d == SubSeq(w, 1, l)
<1>1. d \in Seq(C) /\ Len(d) = l /\ \A i \in 1 .. l : d[i] = w[i]
  OBVIOUS
<1> HIDE DEF d
<1>2. SameStart(d, w, l) /\ l \in Nat /\ l <= Len(d) /\ l <= Len(w)
  BY <1>1 DEF SameStart
<1>3. d[1] = w[1] /\ d[l] = "/"
  BY <1>1
<1>4. Reading(d)[l] = Reading(w)[l]
  BY <1>1, <1>2, ReadingAgrees
<1>5. Reading(d)[l].name = <<>> /\ Components(d) = Reading(d)[l].names
  <2>1. Len(d) >= 1 /\ d[Len(d)] = "/"
    BY <1>1, <1>3
  <2>2. Reading(d)[Len(d)].name = <<>> /\ Components(d) = Reading(d)[Len(d)].names
    BY <1>1, <2>1, BehindSlash
  <2> QED
    BY <1>1, <2>2
<1> QED
  BY <1>1, <1>3, <1>4, <1>5 DEF d

(* ".." takes the last name away, if it stands between two slashes, and    *)
(* leaves a path of slashes as it is.                                      *)
LEMMA DropComponentNames ==
  ASSUME NEW C, NEW w \in Seq(C), Len(w) >= 1, w[1] = "/", w[Len(w)] = "/"
  PROVE  LET d == DropComponent(w) IN
         /\ d \in Seq(C) /\ Len(d) >= 1 /\ d[1] = "/"
         /\ Components(w) = <<>> => Components(d) = <<>>
         /\ Len(w) >= 2 /\ w[Len(w) - 1] # "/" =>
              Components(w) # <<>> /\ Components(d) = Front(Components(w))
<1> DEFINE d == DropComponent(w)
           n == Len(w)
           f == Reading(w)
<1>1. CASE Len(w) <= 1
  <2>1. d = w
    BY <1>1 DEF DropComponent
  <2> QED
    BY <1>1, <2>1
<1>2. CASE Len(w) > 1
  <2>1. PICK l \in 1 .. n - 1 :
          /\ d = SubSeq(w, 1, l) /\ w[l] = "/"
          /\ \A i \in l + 1 .. n - 1 : w[i] # "/"
    BY <1>2, DropComponentLeaves
  <2>2. n \in Nat /\ l \in 1 .. n /\ l \in Nat /\ l <= n /\ n - 1 \in Nat /\ n - 1 <= Len(w)
    BY <1>2
  <2>3. /\ d \in Seq(C) /\ Len(d) = l /\ d[1] = w[1]
        /\ f[l].name = <<>> /\ Components(d) = f[l].names
    BY <2>1, <2>2, ComponentsOfStart
  <2> HIDE DEF d
  <2>4. f[n].name = <<>> /\ Components(w) = f[n].names
    BY BehindSlash
  <2>5. ASSUME Components(w) = <<>> PROVE Components(d) = <<>>
    <3>1. Begins(f[l].names, f[n].names)
      BY <2>2, NamesGrow
    <3>2. f[l].names \in Seq(Seq(C))
      <4>1. l \in 0 .. Len(w)
        BY <2>2
      <4> QED
        BY <4>1, ReadingAt, Zenon
    <3> QED
      BY <2>3, <2>4, <2>5, <3>1, <3>2 DEF Begins
  <2>6. ASSUME w[n - 1] # "/" PROVE Components(w) # <<>> /\ Components(d) = Front(Components(w))
    <3> DEFINE v == SubSeq(w, l + 1, n - 1)
               a == f[l].names
    <3>1. l + 1 <= n - 1
      <4>1. l # n - 1
        BY <2>1, <2>6
      <4> QED
        BY <2>2, <4>1
    <3>2. f[n - 1] = Reader(a, v)
      <4>1. l <= n - 1
        BY <2>2
      <4> QED
        BY <2>1, <2>2, <2>3, <4>1, NameRun
    <3>3. v # <<>> /\ v \in Seq(C)
      <4>1. Len(v) = (n - 1) - (l + 1) + 1 /\ v \in Seq(C)
        BY <2>2, <3>1
      <4>2. (n - 1) - (l + 1) + 1 > 0
        BY <2>2, <3>1
      <4> HIDE DEF v
      <4>3. Len(v) > 0
        BY <4>1, <4>2
      <4> QED
        BY <4>1, <4>3
    <3>4. a \in Seq(Seq(C))
      <4>1. l \in 0 .. Len(w)
        BY <2>2
      <4> QED
        BY <4>1, ReadingAt, Zenon
    <3> HIDE DEF v, a
    <3>5. f[n] = Take(f[n - 1], "/")
      <4>1. n \in 0 .. Len(w) /\ n > 0
        BY <1>2
      <4> QED
        BY <4>1, ReadingAt, Zenon
    <3>6. f[n].names = Ended(Reader(a, v))
      BY <3>2, <3>5, TakeSlash, Zenon
    <3>7. Reader(a, v).names = a /\ Reader(a, v).name = v
      BY DEF Reader
    <3>8. Ended(Reader(a, v)) = Append(a, v)
      BY <3>3, <3>7, Zenon DEF Ended
    <3>9. Append(a, v) # <<>> /\ Front(Append(a, v)) = a
      BY <3>3, <3>4, FrontOfAppend
    <3>10. Components(w) = Append(a, v)
      BY <2>4, <3>6, <3>8, Zenon
    <3>11. Components(d) = a
      BY <2>3 DEF a
    <3> QED
      BY <3>9, <3>10, <3>11
  <2> QED
    BY <2>2, <2>3, <2>5, <2>6 DEF d
<1> QED
  BY <1>1, <1>2

-----------------------------------------------------------------------------
(* What vfs_normalize_path makes of an absolute path.                      *)

Plain(v) == v # Dot /\ v # DotDot

(* Following each kind of name. *)
LEMMA FollowCases ==
  ASSUME NEW N, NEW v
  PROVE  /\ Follow(N, Dot) = N
         /\ Follow(N, DotDot) = IF N = <<>> THEN N ELSE Front(N)
         /\ Plain(v) => Follow(N, v) = Append(N, v)
<1>1. Follow(N, Dot) = N
  BY DotsDiffer DEF Follow
<1>2. Follow(N, DotDot) = IF N = <<>> THEN N ELSE Front(N)
  BY DotsDiffer DEF Follow
<1>3. Plain(v) => Follow(N, v) = Append(N, v)
  BY DEF Follow, Plain
<1> QED
  BY <1>1, <1>2, <1>3

(* No ".." comes right after "." or "..". *)
DotsApart(path) ==
  \A i \in 2 .. Len(Components(path)) :
    Components(path)[i] = DotDot => Components(path)[i - 1] \notin {Dot, DotDot}

(* What has been read, and where the scan can stand: before a name, or     *)
(* before the slash behind one.                                            *)
Read(path, s) == Reading(path)[s.pp - 1]
BeforeName(path, s) ==
  /\ Read(path, s).name = <<>> /\ s.np[Len(s.np)] = "/"
  /\ \/ Read(path, s).names = <<>>
     \/ /\ path[s.pp] # "/"
        /\ Plain(Last(Read(path, s).names)) => Len(s.np) >= 2 /\ s.np[Len(s.np) - 1] # "/"
BeforeSlash(path, s) ==
  /\ path[s.pp] = "/" /\ Read(path, s).name # <<>>
  /\ Plain(Read(path, s).name) => s.np[Len(s.np)] # "/"

(* What has been written has the names that are left of the names read.    *)
ScanMeans(path, s) ==
  /\ s.pp >= 2 /\ Len(s.np) >= 1 /\ s.np[1] = "/"
  /\ Components(s.np) = Followed(Ended(Read(path, s)))
  /\ s.pp <= Len(path) => BeforeName(path, s) \/ BeforeSlash(path, s)

(* A name that ends here is one of the path's. *)
LEMMA NamesOfThePath ==
  ASSUME NEW C, NEW path \in Seq(C), NEW j \in 1 .. Len(path),
         j = Len(path) \/ path[j + 1] = "/"
  PROVE  Begins(Ended(Reading(path)[j]), Components(path))
<1> DEFINE f == Reading(path)
           n == Len(path)
           e == Ended(f[j])
<1>1. n \in Nat /\ j \in 0 .. n /\ n \in 0 .. n
  OBVIOUS
<1>2. f[j] \in Readers(C) /\ f[n] \in Readers(C)
  BY <1>1, ReadingAt, Zenon
<1>3. e \in Seq(Seq(C))
  BY <1>2, EndedTyped
<1>4. CASE j = n
  BY <1>3, <1>4 DEF Begins, Components
<1>5. CASE j # n
  <2>1. j + 1 \in 0 .. n /\ j + 1 > 0 /\ (j + 1) - 1 = j /\ j + 1 \in Nat /\ j + 1 <= n
    BY <1>1, <1>5
  <2>2. path[j + 1] = "/"
    BY <1>5
  <2>3. f[j + 1] = Take(f[j], "/")
    <3>1. f[j + 1] = Take(f[(j + 1) - 1], path[j + 1])
      BY <2>1, ReadingAt, Zenon
    <3> QED
      BY <2>1, <2>2, <3>1
  <2>4. f[j + 1].names = e
    BY <2>3, TakeSlash, Zenon
  <2>5. Begins(f[j + 1].names, f[n].names)
    BY <1>1, <2>1, NamesGrow
  <2>6. Begins(f[n].names, Ended(f[n]))
    BY <1>2, BeginsEnded
  <2>7. f[n].names \in Seq(Seq(C)) /\ Ended(f[n]) \in Seq(Seq(C))
    BY <1>2, EndedTyped DEF Readers
  <2> HIDE DEF e, f
  <2>8. Begins(e, Ended(f[n]))
    BY <1>3, <2>4, <2>5, <2>6, <2>7 DEF Begins
  <2> QED
    BY <2>8 DEF e, f, Components
<1> QED
  BY <1>4, <1>5

(* The name before a ".." is plain, if there is one. *)
LEMMA PlainBeforeDotDot ==
  ASSUME NEW C, NEW path \in Seq(C), NEW j \in 1 .. Len(path), DotsApart(path),
         j = Len(path) \/ path[j + 1] = "/", NEW N \in Seq(Seq(C)), DotDot \in Seq(C),
         Ended(Reading(path)[j]) = Append(N, DotDot), N # <<>>
  PROVE  Plain(Last(N))
<1> DEFINE c == Components(path)
           u == Append(N, DotDot)
           i == Len(N) + 1
<1>1. Begins(u, c)
  BY NamesOfThePath, Zenon
<1>2. /\ Len(N) \in Nat /\ Len(N) >= 1 /\ Len(u) = i /\ u[i] = DotDot /\ u[Len(N)] = N[Len(N)]
  BY AppendProperties
<1> HIDE DEF u
<1>3. c \in Seq(Seq(C))
  <2>1. Len(path) \in 0 .. Len(path)
    OBVIOUS
  <2>2. Reading(path)[Len(path)] \in Readers(C)
    BY <2>1, ReadingAt, Zenon
  <2> QED
    BY <2>2, EndedTyped DEF Components
<1> HIDE DEF c
<1>4. Len(c) \in Nat /\ i <= Len(c) /\ c[i] = u[i] /\ c[Len(N)] = u[Len(N)]
  BY <1>1, <1>2, <1>3, SMTT(60) DEF Begins
<1>5. i \in 2 .. Len(c) /\ i - 1 = Len(N) /\ c[i] = DotDot
  BY <1>2, <1>4
<1>6. c[i - 1] \notin {Dot, DotDot}
  BY <1>5, Zenon DEF DotsApart, c
<1>7. c[i - 1] = Last(N)
  BY <1>2, <1>4, <1>5 DEF Last
<1> QED
  BY <1>6, <1>7 DEF Plain

(* A round at a slash keeps what the scan means. *)
LEMMA SlashMeans ==
  ASSUME NEW C, "/" \in C, NEW path \in Seq(C), NEW s \in Scans(path, C),
         ScanMeans(path, s), s.pp <= Len(path), path[s.pp] = "/"
  PROVE  ScanMeans(path, Round(path, s))
<1> DEFINE n == Len(path)
           p == s.pp
           w == s.np
           q == SlashesEnd(path, p)
           x == IF q <= n THEN Append(w, "/") ELSE w
           t == Round(path, s)
           f == Reading(path)
<1>1. n \in Nat /\ p \in 2 .. n /\ w \in Seq(C) /\ Len(w) >= 1 /\ w[1] = "/"
  BY DEF Scans, ScanMeans
<1>2. t = Scan(q, x)
  <2>1. ~(p > n)
    BY <1>1
  <2> QED
    BY <2>1, RoundAtSlash
<1>3. /\ q \in p .. n + 1 /\ (q <= n => path[q] # "/")
      /\ \A k \in p .. q - 1 : path[k] = "/"
  <2>1. p \in 1 .. n + 1
    BY <1>1
  <2> QED
    BY <2>1, SlashesEndShape
<1> HIDE DEF q
<1>4. q \in p + 1 .. n + 1
  BY <1>1, <1>3
<1>5. Components(x) = Components(w) /\ x \in Seq(C) /\ Len(x) >= 1 /\ x[1] = "/"
  <2>1. Components(Append(w, "/")) = Components(w)
    BY <1>1, ComponentsSlash
  <2> QED
    BY <1>1, <2>1
<1>6. /\ f[q - 1].name = <<>> /\ f[q - 1].names = Ended(f[p - 1])
      /\ Ended(f[q - 1]) = Ended(f[p - 1])
  <2>1. p - 1 \in Nat /\ q - 1 \in Nat /\ p - 1 < q - 1 /\ q - 1 <= n /\ (p - 1) + 1 = p
    BY <1>1, <1>4, SMTT(60)
  <2>2. \A k \in (p - 1) + 1 .. q - 1 : path[k] = "/"
    BY <1>3, <2>1
  <2> QED
    BY <2>1, <2>2, SlashRun
<1>7. t.pp = q /\ t.np = x
  <2> HIDE DEF t, x
  <2> QED
    BY <1>2 DEF Scan
<1>8. Read(path, t) = f[q - 1] /\ Read(path, s) = f[p - 1]
  BY <1>7, Zenon DEF Read
<1>9. Components(x) = Followed(Ended(f[q - 1]))
  BY <1>5, <1>6, <1>8, Zenon DEF ScanMeans
<1>10. ASSUME q <= n PROVE BeforeName(path, t)
  <2>1. path[q] # "/"
    BY <1>3, <1>10
  <2>2. x = Append(w, "/")
    BY <1>10
  <2>3. /\ Len(x) = Len(w) + 1 /\ x[Len(x)] = "/" /\ Len(x) >= 2
        /\ Len(x) - 1 = Len(w) /\ x[Len(w)] = w[Len(w)]
    BY <1>1, <2>2
  <2> HIDE DEF x, f
  <2>4. f[q - 1].names = <<>>
        \/ (Plain(Last(f[q - 1].names)) => Len(x) >= 2 /\ x[Len(x) - 1] # "/")
    <3>1. BeforeName(path, s) \/ BeforeSlash(path, s)
      BY DEF ScanMeans
    <3>2. CASE BeforeName(path, s)
      <4>1. f[p - 1].name = <<>> /\ f[p - 1].names = <<>>
        BY <1>8, <3>2, Zenon DEF BeforeName
      <4>2. Ended(f[p - 1]) = <<>>
        BY <4>1 DEF Ended
      <4> QED
        BY <1>6, <4>2
    <3>3. CASE BeforeSlash(path, s)
      <4> DEFINE v == f[p - 1].name
                 a == f[p - 1].names
      <4>1. v # <<>> /\ (Plain(v) => w[Len(w)] # "/")
        BY <1>8, <3>3, Zenon DEF BeforeSlash
      <4>2. a \in Seq(Seq(C)) /\ v \in Seq(C)
        <5>1. p - 1 \in 0 .. Len(path)
          BY <1>1
        <5> QED
          BY <5>1, ReadingAt, Zenon DEF f
      <4>3. Ended(f[p - 1]) = Append(a, v)
        BY <4>1, Zenon DEF Ended
      <4> HIDE DEF v, a
      <4>4. Last(Append(a, v)) = v
        BY <4>2, FrontOfAppend
      <4> QED
        BY <1>6, <2>3, <4>1, <4>3, <4>4, Zenon
    <3> QED
      BY <3>1, <3>2, <3>3
  <2> HIDE DEF t
  <2> QED
    BY <1>6, <1>7, <1>8, <2>1, <2>3, <2>4, Zenon DEF BeforeName
<1>11. q >= 2
  BY <1>1, <1>4
<1> HIDE DEF t, x
<1>12. ScanMeans(path, t)
  BY <1>5, <1>7, <1>8, <1>9, <1>10, <1>11, Zenon DEF ScanMeans
<1> QED
  BY <1>12 DEF t

(* What holds before a name. *)
LEMMA AtAName ==
  ASSUME NEW C, NEW path \in Seq(C), NEW s \in Scans(path, C),
         ScanMeans(path, s), s.pp <= Len(path), path[s.pp] # "/"
  PROVE  /\ s.pp \in 2 .. Len(path) /\ s.pp - 1 \in Nat /\ s.np \in Seq(C)
         /\ Len(s.np) >= 1 /\ s.np[1] = "/" /\ s.np[Len(s.np)] = "/"
         /\ Read(path, s).name = <<>> /\ Read(path, s).names \in Seq(Seq(C))
         /\ Components(s.np) = Followed(Read(path, s).names)
         /\ Read(path, s).names # <<>> /\ Plain(Last(Read(path, s).names)) =>
              Len(s.np) >= 2 /\ s.np[Len(s.np) - 1] # "/"
<1>1. s.pp \in 2 .. Len(path) /\ s.np \in Seq(C) /\ Len(s.np) >= 1 /\ s.np[1] = "/"
  BY DEF Scans, ScanMeans
<1>2. s.pp - 1 \in 0 .. Len(path) /\ s.pp - 1 \in Nat
  BY <1>1
<1>3. BeforeName(path, s)
  BY DEF ScanMeans, BeforeSlash
<1>4. Read(path, s).names \in Seq(Seq(C))
  BY <1>2, ReadingAt, Zenon DEF Read
<1>5. Read(path, s).name = <<>> /\ s.np[Len(s.np)] = "/"
  BY <1>3, Zenon DEF BeforeName
<1>6. Ended(Read(path, s)) = Read(path, s).names
  BY <1>5, Zenon DEF Ended
<1>7. Components(s.np) = Followed(Read(path, s).names)
  BY <1>6, Zenon DEF ScanMeans
<1>8. Read(path, s).names # <<>> /\ Plain(Last(Read(path, s).names)) =>
        Len(s.np) >= 2 /\ s.np[Len(s.np) - 1] # "/"
  BY <1>3, Zenon DEF BeforeName
<1> QED
  BY <1>1, <1>2, <1>4, <1>5, <1>7, <1>8, Zenon

(* Behind a name that was read from the current place to before q: the     *)
(* scan means what it should if what was written has the names that are    *)
(* left, and does not end in a slash after a plain name.                   *)
LEMMA BehindAName ==
  ASSUME NEW C, NEW path \in Seq(C), NEW s \in Scans(path, C),
         ScanMeans(path, s), s.pp <= Len(path), path[s.pp] # "/",
         NEW q \in s.pp + 1 .. Len(path) + 1, NEW x, NEW v \in Seq(C),
         v = SubSeq(path, s.pp, q - 1), v # <<>>,
         \A k \in s.pp .. q - 1 : path[k] # "/", q <= Len(path) => path[q] = "/",
         Len(x) >= 1, x[1] = "/", Plain(v) => x[Len(x)] # "/",
         Components(x) = Follow(Components(s.np), v)
  PROVE  ScanMeans(path, Scan(q, x))
<1> DEFINE n == Len(path)
           p == s.pp
           a == Read(path, s).names
           t == Scan(q, x)
           r == Reading(path)[q - 1]
<1>1. p \in 2 .. n /\ p - 1 \in Nat /\ a \in Seq(Seq(C)) /\ n \in Nat
      /\ Read(path, s).name = <<>> /\ Components(s.np) = Followed(a)
  BY AtAName
<1>2. r = Reader(a, v)
  <2>0. \A i, j, k \in Nat : i \in 2 .. k /\ j \in i + 1 .. k + 1 =>
          j - 1 \in Nat /\ i - 1 <= j - 1 /\ j - 1 <= k /\ (i - 1) + 1 = i
    OBVIOUS
  <2>1. q - 1 \in Nat /\ p - 1 <= q - 1 /\ q - 1 <= n /\ (p - 1) + 1 = p
    <3>1. p \in Nat /\ q \in Nat
      BY <1>1, SMTT(60)
    <3> QED
      BY <1>1, <2>0, <3>1, Zenon
  <2>2. \A k \in (p - 1) + 1 .. q - 1 : path[k] # "/"
    BY <2>1
  <2>3. Reading(path)[p - 1].name = <<>> /\ Reading(path)[p - 1].names = a
    BY <1>1 DEF Read
  <2>4. Reading(path)[q - 1] = Reader(Reading(path)[p - 1].names, SubSeq(path, (p - 1) + 1, q - 1))
    BY <1>1, <2>1, <2>2, <2>3, NameRun
  <2> QED
    BY <2>1, <2>3, <2>4
<1> HIDE DEF a, r
<1>3. r.names = a /\ r.name = v
  BY <1>2 DEF Reader
<1>4. Ended(r) = Append(a, v)
  BY <1>3, Zenon DEF Ended
<1>5. Followed(Append(a, v)) = Follow(Followed(a), v)
  BY <1>1, FollowedAppend
<1>6. t.pp = q /\ t.np = x
  BY DEF Scan
<1> HIDE DEF t
<1>7. Read(path, t) = r
  BY <1>6 DEF Read, r
<1>8. Components(x) = Followed(Ended(r))
  BY <1>1, <1>4, <1>5, Zenon
<1>9. q <= n => BeforeSlash(path, t)
  BY <1>3, <1>6, <1>7, Zenon DEF BeforeSlash
<1>10. q >= 2
  BY <1>1, SMTT(60)
<1>11. ScanMeans(path, t)
  BY <1>6, <1>7, <1>8, <1>9, <1>10, Zenon DEF ScanMeans
<1> QED
  BY <1>11 DEF t

(* Parts of one and of two characters. *)
LEMMA ShortParts ==
  ASSUME NEW C, NEW s \in Seq(C), NEW p \in 1 .. Len(s)
  PROVE  /\ SubSeq(s, p, p) = <<s[p]>>
         /\ p + 1 <= Len(s) => SubSeq(s, p, p + 1) = <<s[p], s[p + 1]>>
<1>1. SubSeq(s, p, p) = <<s[p]>>
  <2> DEFINE u == SubSeq(s, p, p)
             v == <<s[p]>>
  <2>1. u \in Seq(C) /\ Len(u) = 1 /\ u[1] = s[p]
    OBVIOUS
  <2>2. v \in Seq(C) /\ Len(v) = 1 /\ v[1] = s[p]
    OBVIOUS
  <2> HIDE DEF u, v
  <2>3. \A i \in 1 .. 1 : u[i] = v[i]
    BY <2>1, <2>2
  <2>4. u = v
    BY <2>1, <2>2, <2>3, SeqEqual
  <2> QED
    BY <2>4 DEF u, v
<1>2. ASSUME p + 1 <= Len(s) PROVE SubSeq(s, p, p + 1) = <<s[p], s[p + 1]>>
  <2> DEFINE u == SubSeq(s, p, p + 1)
             v == <<s[p], s[p + 1]>>
  <2>1. p \in Int /\ p + 1 \in Int /\ \A i \in p .. p + 1 : s[i] \in C
    BY <1>2
  <2>2. /\ u \in Seq(C) /\ Len(u) = 2 /\ u[1] = s[p] /\ u[2] = s[p + 1]
    BY <1>2, <2>1
  <2>3. v \in Seq(C) /\ Len(v) = 2 /\ v[1] = s[p] /\ v[2] = s[p + 1]
    BY <1>2, <2>1
  <2> HIDE DEF u, v
  <2>4. \A i \in 1 .. 2 : u[i] = v[i]
    BY <2>2, <2>3
  <2>5. u = v
    BY <2>2, <2>3, <2>4, SeqEqual
  <2> QED
    BY <2>5 DEF u, v
<1> QED
  BY <1>1, <1>2

(* A round at ".". *)
LEMMA DotMeans ==
  ASSUME NEW C, NUL \notin C, NEW path \in Seq(C), NEW s \in Scans(path, C),
         ScanMeans(path, s), s.pp <= Len(path), path[s.pp] # "/", DotAt(path, s.pp)
  PROVE  ScanMeans(path, Round(path, s))
<1> DEFINE n == Len(path)
           p == s.pp
           q == p + 1
           v == SubSeq(path, p, q - 1)
<1>1. p \in 2 .. n /\ n \in Nat /\ Len(s.np) >= 1 /\ s.np[1] = "/"
  BY AtAName
<1>2. Round(path, s) = Scan(p + 1, s.np)
  <2>1. ~(p > n)
    BY <1>1
  <2> QED
    BY <2>1, RoundAtDots
<1>3. path[p] = "." /\ (q <= n => path[q] = "/")
  <2>1. q <= n => q \in 1 .. n /\ path[q] \in C
    BY <1>1
  <2> QED
    BY <2>1 DEF DotAt, At
<1>4. v = Dot /\ v \in Seq(C)
  <2>1. path[p] \in C
    BY <1>1
  <2>2. v = <<path[p]>>
    <3>1. p \in 1 .. Len(path) /\ q - 1 = p
      BY <1>1
    <3> QED
      BY <3>1, ShortParts
  <2> HIDE DEF v
  <2> QED
    BY <1>3, <2>1, <2>2 DEF Dot
<1>5. \A k \in p .. q - 1 : path[k] # "/"
  BY <1>1
<1>6. v # <<>> /\ ~Plain(v) /\ Follow(Components(s.np), v) = Components(s.np)
  BY <1>4, DotsDiffer, FollowCases, Zenon DEF Plain
<1>7. q \in p + 1 .. n + 1
  BY <1>1
<1> HIDE DEF v, q
<1>8. ScanMeans(path, Scan(q, s.np))
  BY <1>1, <1>3, <1>4, <1>5, <1>6, <1>7, BehindAName DEF v
<1> QED
  BY <1>2, <1>8 DEF q

(* A round at "..". *)
LEMMA DotDotMeans ==
  ASSUME NEW C, NUL \notin C, NEW path \in Seq(C), NEW s \in Scans(path, C), DotsApart(path),
         ScanMeans(path, s), s.pp <= Len(path), path[s.pp] # "/",
         ~DotAt(path, s.pp), DotDotAt(path, s.pp)
  PROVE  ScanMeans(path, Round(path, s))
<1> DEFINE n == Len(path)
           p == s.pp
           q == p + 2
           v == SubSeq(path, p, q - 1)
           a == Read(path, s).names
           w == s.np
           x == DropComponent(w)
<1>1. /\ p \in 2 .. n /\ n \in Nat /\ w \in Seq(C) /\ Len(w) >= 1 /\ w[1] = "/" /\ w[Len(w)] = "/"
      /\ a \in Seq(Seq(C)) /\ Read(path, s).name = <<>> /\ Components(w) = Followed(a)
      /\ a # <<>> /\ Plain(Last(a)) => Len(w) >= 2 /\ w[Len(w) - 1] # "/"
  BY AtAName
<1>2. Round(path, s) = Scan(p + 2, x)
  <2>1. ~(p > n)
    BY <1>1
  <2> QED
    BY <2>1, RoundAtDots
<1>3. path[p] = "." /\ p + 1 \in 1 .. n /\ path[p + 1] = "." /\ (q <= n => path[q] = "/")
  <2>1. q <= n => q \in 1 .. n /\ path[q] \in C
    BY <1>1
  <2>2. "." # NUL
    BY DEF NUL
  <2>3. p + 1 \in 1 .. n /\ path[p + 1] = "."
    BY <2>2 DEF DotDotAt, At
  <2> QED
    BY <2>1, <2>3 DEF DotDotAt, At
<1>4. v = DotDot /\ v \in Seq(C)
  <2>1. path[p] \in C /\ path[p + 1] \in C
    BY <1>1, <1>3
  <2>2. v = <<path[p], path[p + 1]>>
    <3>1. p \in 1 .. Len(path) /\ q - 1 = p + 1 /\ p + 1 <= Len(path)
      BY <1>1, <1>3
    <3> QED
      BY <3>1, ShortParts
  <2> HIDE DEF v
  <2> QED
    BY <1>3, <2>1, <2>2 DEF DotDot
<1>5. \A k \in p .. q - 1 : path[k] # "/"
  <2>1. \A k \in p .. q - 1 : k = p \/ k = p + 1
    BY <1>1, SMTT(60)
  <2> QED
    BY <1>3, <2>1
<1>6. v # <<>> /\ ~Plain(v)
  BY <1>4, DotsDiffer, Zenon DEF Plain
<1>7. q \in p + 1 .. n + 1
  BY <1>1, <1>3, SMTT(60)
<1>8. /\ x \in Seq(C) /\ Len(x) >= 1 /\ x[1] = "/"
      /\ Components(w) = <<>> => Components(x) = <<>>
      /\ Len(w) >= 2 /\ w[Len(w) - 1] # "/" =>
           Components(w) # <<>> /\ Components(x) = Front(Components(w))
  BY <1>1, DropComponentNames
<1> HIDE DEF v, x
<1>9. Components(x) = Follow(Components(w), v)
  <2>1. Follow(Components(w), v) = IF Components(w) = <<>> THEN Components(w) ELSE Front(Components(w))
    BY <1>4, FollowCases, Zenon
  <2>2. CASE a = <<>>
    <3>1. Components(w) = <<>>
      BY <1>1, <2>2, FollowedNone, Zenon
    <3> QED
      BY <1>8, <2>1, <3>1, Zenon
  <2>3. CASE a # <<>>
    <3>1. Plain(Last(a))
      <4> DEFINE j == p + 1
      <4>1. j \in 1 .. n /\ (j = n \/ path[j + 1] = "/")
        BY <1>1, <1>3
      <4>2. Ended(Reading(path)[j]) = Append(a, DotDot)
        <5>1. /\ p - 1 \in Nat /\ j \in Nat /\ p - 1 <= j /\ j <= n /\ (p - 1) + 1 = p
              /\ j = q - 1
          <6>1. p \in Nat /\ p >= 2 /\ p + 1 <= n
            BY <1>1, <1>3
          <6> QED
            BY <6>1
        <5>2. Reading(path)[p - 1].name = <<>> /\ Reading(path)[p - 1].names = a
          BY <1>1 DEF Read
        <5>3. \A k \in (p - 1) + 1 .. j : path[k] # "/"
          BY <1>5, <5>1
        <5> HIDE DEF j, a
        <5>4. Reading(path)[j] = Reader(Reading(path)[p - 1].names, SubSeq(path, (p - 1) + 1, j))
          BY <5>1, <5>2, <5>3, NameRun
        <5>5. SubSeq(path, (p - 1) + 1, j) = DotDot
          BY <1>4, <5>1 DEF v
        <5>6. Reading(path)[j] = Reader(a, DotDot)
          BY <5>2, <5>4, <5>5, Zenon
        <5>7. Reader(a, DotDot).names = a /\ Reader(a, DotDot).name = DotDot
          BY DEF Reader
        <5> QED
          BY <5>6, <5>7, DotsDiffer, Zenon DEF Ended
      <4>3. DotDot \in Seq(C)
        BY <1>4
      <4> HIDE DEF j, a
      <4> QED
        BY <1>1, <2>3, <4>1, <4>2, <4>3, PlainBeforeDotDot
    <3> QED
      BY <1>1, <1>8, <2>1, <2>3, <3>1, Zenon
  <2> QED
    BY <2>2, <2>3
<1> HIDE DEF q
<1>10. ScanMeans(path, Scan(q, x))
  BY <1>1, <1>3, <1>4, <1>5, <1>6, <1>7, <1>8, <1>9, BehindAName DEF v
<1> QED
  BY <1>2, <1>10 DEF q

(* A round at any other name. *)
LEMMA NameMeans ==
  ASSUME NEW C, NEW path \in Seq(C), NEW s \in Scans(path, C),
         ScanMeans(path, s), s.pp <= Len(path), path[s.pp] # "/",
         ~DotAt(path, s.pp), ~DotDotAt(path, s.pp)
  PROVE  ScanMeans(path, Round(path, s))
<1> DEFINE n == Len(path)
           p == s.pp
           q == NameEnd(path, p)
           v == SubSeq(path, p, q - 1)
           w == s.np
           x == w \o v
<1>1. /\ p \in 2 .. n /\ n \in Nat /\ w \in Seq(C) /\ Len(w) >= 1 /\ w[1] = "/" /\ w[Len(w)] = "/"
  BY AtAName
<1>2. Round(path, s) = Scan(q, x)
  <2>1. ~(p > n)
    BY <1>1
  <2> QED
    BY <2>1, RoundAtName
<1>3. /\ q \in p .. n + 1 /\ (q <= n => path[q] = "/")
      /\ \A k \in p .. q - 1 : path[k] # "/"
  <2>1. p \in 1 .. n + 1
    BY <1>1
  <2> QED
    BY <2>1, NameEndShape
<1> HIDE DEF q
<1>4. q \in p + 1 .. n + 1
  <2>1. q # p
    BY <1>1, <1>3
  <2> QED
    BY <1>1, <1>3, <2>1
<1>5. /\ v \in Seq(C) /\ Len(v) = q - p /\ Len(v) >= 1
      /\ \A k \in 1 .. q - p : v[k] = path[p + k - 1]
  <2>1. \A i \in p .. q - 1 : path[i] \in C
    BY <1>1, <1>4
  <2>2. p \in Int /\ q - 1 \in Int /\ p <= q - 1 /\ (q - 1) - p + 1 = q - p /\ q - p >= 1
    BY <1>1, <1>4
  <2> QED
    BY <2>1, <2>2, SubSeqProperties
<1>6. v # <<>>
  <2> HIDE DEF v
  <2> QED
    BY <1>5
<1>7. \A k \in 1 .. Len(v) : v[k] # "/"
  <2> TAKE k \in 1 .. Len(v)
  <2> HIDE DEF v
  <2>0. p \in Nat /\ q \in Nat
    BY <1>1, <1>4
  <2>1. k \in 1 .. q - p /\ p + k - 1 \in p .. q - 1
    BY <1>5, <2>0
  <2> QED
    BY <1>3, <1>5, <2>1
<1>8. Plain(v)
  <2> HIDE DEF v
  <2>0. p \in Nat /\ q \in Nat
    BY <1>1, <1>4
  <2>1. v[1] = path[p] /\ (q - p = 2 => v[2] = path[p + 1])
    <3>1. 1 \in 1 .. q - p /\ p + 1 - 1 = p /\ (q - p = 2 => 2 \in 1 .. q - p) /\ p + 2 - 1 = p + 1
      BY <1>4, <2>0
    <3> QED
      BY <1>5, <3>1
  <2>2. At(path, q) \in {"/", NUL}
    BY <1>1, <1>3, <1>4 DEF At
  <2>3. ASSUME v = Dot PROVE FALSE
    <3>1. q - p = 1 /\ v[1] = "."
      BY <1>5, <2>3 DEF Dot
    <3>2. q = p + 1
      BY <2>0, <3>1
    <3> QED
      BY <2>1, <2>2, <3>1, <3>2 DEF DotAt
  <2>4. ASSUME v = DotDot PROVE FALSE
    <3>1. q - p = 2 /\ v[1] = "." /\ v[2] = "."
      BY <1>5, <2>4 DEF DotDot
    <3>2. q = p + 2 /\ p + 1 \in 1 .. n
      <4>1. q = p + 2
        BY <2>0, <3>1
      <4>2. q <= n + 1
        BY <1>1, <1>4
      <4> QED
        BY <1>1, <2>0, <4>1, <4>2
    <3>3. At(path, p + 1) = "."
      BY <2>1, <3>1, <3>2 DEF At
    <3> QED
      BY <2>1, <2>2, <3>1, <3>2, <3>3 DEF DotDotAt
  <2> QED
    BY <2>3, <2>4 DEF Plain
<1>9. Components(x) = Append(Components(w), v)
  <2> HIDE DEF v
  <2> QED
    BY <1>1, <1>5, <1>6, <1>7, ComponentsName
<1>10. Components(x) = Follow(Components(w), v)
  BY <1>8, <1>9, FollowCases, Zenon
<1>11. Len(x) >= 1 /\ x[1] = "/" /\ x[Len(x)] # "/"
  <2> HIDE DEF v
  <2>1. /\ x \in Seq(C) /\ Len(x) = Len(w) + Len(v)
        /\ \A i \in 1 .. Len(w) + Len(v) : x[i] = IF i <= Len(w) THEN w[i] ELSE v[i - Len(w)]
    BY <1>1, <1>5, ConcatProperties
  <2> HIDE DEF x
  <2>2. Len(w) \in Nat /\ Len(v) \in Nat
    BY <1>1, <1>5
  <2>3. Len(v) \in 1 .. Len(v) /\ (Len(w) + Len(v)) - Len(w) = Len(v)
        /\ ~(Len(w) + Len(v) <= Len(w)) /\ Len(w) + Len(v) \in 1 .. Len(w) + Len(v)
        /\ 1 \in 1 .. Len(w) + Len(v)
    BY <1>1, <1>5, <2>2, SMTT(60)
  <2>4. x[Len(w) + Len(v)] = v[Len(v)]
    BY <2>1, <2>3, Zenon
  <2>5. x[1] = w[1]
    BY <1>1, <2>1, <2>3, Zenon
  <2> QED
    BY <1>1, <1>7, <2>1, <2>2, <2>3, <2>4, <2>5
<1> HIDE DEF v, x
<1>12. ScanMeans(path, Scan(q, x))
  BY <1>1, <1>3, <1>4, <1>5, <1>6, <1>8, <1>10, <1>11, BehindAName DEF v
<1> QED
  BY <1>2, <1>12

(* Every round keeps what the scan means. *)
LEMMA RoundMeans ==
  ASSUME NEW C, "/" \in C, NUL \notin C, NEW path \in Seq(C), NEW s \in Scans(path, C),
         DotsApart(path), ScanMeans(path, s)
  PROVE  ScanMeans(path, Round(path, s))
<1>1. Len(path) \in Nat /\ s.pp \in Nat
  BY DEF Scans
<1>2. CASE s.pp > Len(path)
  BY <1>2 DEF Round
<1>3. CASE s.pp <= Len(path)
  <2>1. CASE path[s.pp] = "/"
    BY <1>3, <2>1, SlashMeans
  <2>2. CASE path[s.pp] # "/" /\ DotAt(path, s.pp)
    BY <1>3, <2>2, DotMeans
  <2>3. CASE path[s.pp] # "/" /\ ~DotAt(path, s.pp) /\ DotDotAt(path, s.pp)
    BY <1>3, <2>3, DotDotMeans
  <2>4. CASE path[s.pp] # "/" /\ ~DotAt(path, s.pp) /\ ~DotDotAt(path, s.pp)
    BY <1>3, <2>4, NameMeans
  <2> QED
    BY <2>1, <2>2, <2>3, <2>4
<1> QED
  BY <1>1, <1>2, <1>3

(* What the scan means after every round. *)
LEMMA RoundsMean ==
  ASSUME NEW C, "/" \in C, NUL \notin C, NEW path \in Seq(C), DotsApart(path),
         At(path, 1) = "/"
  PROVE  LET f == Rounds(path)
         IN /\ f[0] = Scan(2, <<"/">>)
            /\ \A k \in 1 .. Len(path) : f[k] = Round(path, f[k - 1])
            /\ \A k \in 0 .. Len(path) :
                 f[k] \in Scans(path, C) /\ ScanMeans(path, f[k]) /\ f[k].pp > k
<1> DEFINE n == Len(path)
           f == Rounds(path)
           S == Scans(path, C)
           T == {k \in 0 .. n : ScanMeans(path, f[k]) /\ f[k].pp > k}
<1>1. n \in Nat /\ n >= 1 /\ path[1] = "/"
  BY DEF At, NUL
<1>2. f \in [0 .. n -> S] /\ f[0] = Scan(2, <<"/">>) /\ \A k \in 1 .. n : f[k] = Round(path, f[k - 1])
  BY RoundsHistory, Zenon DEF ScanHistory
<1> HIDE DEF f
<1>3. 0 \in T
  <2> DEFINE s == f[0]
             w == <<"/">>
  <2>1. s.pp = 2 /\ s.np = w
    BY <1>2 DEF Scan
  <2> HIDE DEF s
  <2>2. w \in Seq(C) /\ Len(w) = 1 /\ w[1] = "/"
    OBVIOUS
  <2> HIDE DEF w
  <2>3. \A u \in Seq(C) : Len(u) >= 1 /\ u[1] = "/" =>
          Reading(u)[1].name = <<>> /\ Reading(u)[1].names = <<>> /\ Ended(Reading(u)[1]) = <<>>
    <3> SUFFICES ASSUME NEW u \in Seq(C), Len(u) >= 1, u[1] = "/"
                 PROVE  /\ Reading(u)[1].name = <<>> /\ Reading(u)[1].names = <<>>
                        /\ Ended(Reading(u)[1]) = <<>>
      OBVIOUS
    <3>1. 0 \in 0 .. Len(u) /\ 1 \in 0 .. Len(u) /\ 1 > 0 /\ 1 - 1 = 0
      OBVIOUS
    <3>2. Reading(u)[0] = Reader(<<>>, <<>>)
      BY <3>1, ReadingAt, Zenon
    <3>3. Reading(u)[1] = Take(Reading(u)[1 - 1], u[1])
      BY <3>1, ReadingAt, Zenon
    <3>4. Reading(u)[1] = Take(Reader(<<>>, <<>>), "/")
      BY <3>1, <3>2, <3>3
    <3>5. Ended(Reader(<<>>, <<>>)) = <<>>
      BY DEF Ended, Reader
    <3> QED
      BY <3>4, <3>5, TakeSlash, Zenon
  <2>4. Read(path, s) = Reading(path)[1]
    <3>1. 2 - 1 = 1
      OBVIOUS
    <3> QED
      BY <2>1, <3>1, Zenon DEF Read
  <2>5. Read(path, s).name = <<>> /\ Read(path, s).names = <<>> /\ Ended(Read(path, s)) = <<>>
    BY <1>1, <2>3, <2>4
  <2>6. Components(w) = <<>>
    <3>1. Len(w) >= 1
      BY <2>2
    <3>2. Ended(Reading(w)[1]) = <<>>
      BY <2>2, <2>3, <3>1, Zenon
    <3> QED
      BY <2>2, <3>2, Zenon DEF Components
  <2>7. BeforeName(path, s)
    BY <2>1, <2>2, <2>5, Zenon DEF BeforeName
  <2>8. 2 >= 2 /\ 1 >= 1 /\ 2 > 0 /\ 0 \in 0 .. n
    BY <1>1
  <2>9. ScanMeans(path, s)
    BY <2>1, <2>2, <2>5, <2>6, <2>7, <2>8, FollowedNone, Zenon DEF ScanMeans
  <2> QED
    BY <2>1, <2>8, <2>9 DEF s
<1>4. ASSUME NEW k \in 1 .. n, k - 1 \in T PROVE k \in T
  <2>1. k - 1 \in 0 .. n /\ k \in 0 .. n
    BY <1>1
  <2>2. f[k - 1] \in S /\ f[k] \in S
    BY <1>2, <2>1, Zenon
  <2>3. ScanMeans(path, f[k - 1]) /\ f[k - 1].pp > k - 1
    BY <1>4
  <2>4. f[k] = Round(path, f[k - 1])
    BY <1>2
  <2>5. ScanMeans(path, f[k])
    BY <2>2, <2>3, <2>4, RoundMeans
  <2>6. f[k - 1].pp <= n => f[k].pp > f[k - 1].pp
    BY <2>2, <2>4, RoundTyped
  <2>7. f[k - 1].pp > n => f[k] = f[k - 1]
    BY <2>4 DEF Round
  <2>8. f[k].pp \in Nat /\ f[k - 1].pp \in Nat
    BY <2>2 DEF Scans
  <2>9. f[k].pp > k
    BY <1>1, <2>3, <2>6, <2>7, <2>8
  <2> QED
    BY <2>1, <2>5, <2>9
<1> HIDE DEF T
<1>5. \A k \in 0 .. n : k \in T
  BY <1>1, <1>3, <1>4, UpTo
<1>6. \A k \in 0 .. n : f[k] \in S /\ ScanMeans(path, f[k]) /\ f[k].pp > k
  BY <1>2, <1>5 DEF T
<1> QED
  BY <1>2, <1>6, Zenon DEF f, n, S

(* The names of a normalized absolute path. *)
LEMMA NormalizedMeans ==
  ASSUME NEW C, "/" \in C, NUL \notin C, NEW path \in Seq(C), DotsApart(path),
         At(path, 1) = "/"
  PROVE  Components(vfs_normalize_path(path)) = Resolved(path)
<1> DEFINE n == Len(path)
           s == Rounds(path)[n]
<1>1. n \in Nat /\ n \in 0 .. n
  OBVIOUS
<1>2. s \in Scans(path, C) /\ ScanMeans(path, s) /\ s.pp > n
  BY <1>1, RoundsMean, Zenon
<1> HIDE DEF s
<1>3. s.pp - 1 = n
  BY <1>1, <1>2 DEF Scans
<1>4. Components(s.np) = Followed(Components(path))
  BY <1>2, <1>3, Zenon DEF ScanMeans, Read, Components
<1>5. s.np # <<>>
  BY <1>2 DEF ScanMeans
<1>6. vfs_normalize_path(path) = s.np
  BY <1>5, Zenon DEF vfs_normalize_path, s
<1> QED
  BY <1>4, <1>6, Zenon DEF Resolved, Followed

-----------------------------------------------------------------------------
(* The slashes of a normalized path without "." and "..".                  *)

NoDots(path) ==
  \A i \in 1 .. Len(Components(path)) : Components(path)[i] \notin {Dot, DotDot}

(* Positions p to j of the path hold a whole name. *)
NameFromTo(path, p, j) ==
  /\ j \in p .. Len(path) /\ \A k \in p .. j : path[k] # "/"
  /\ j = Len(path) \/ path[j + 1] = "/"

(* What is read from the current place to before a slash is a name.        *)
LEMMA NameIsComponent ==
  ASSUME NEW C, NEW path \in Seq(C), NEW s \in Scans(path, C),
         ScanMeans(path, s), s.pp <= Len(path), path[s.pp] # "/",
         NEW j, NameFromTo(path, s.pp, j)
  PROVE  \E i \in 1 .. Len(Components(path)) : Components(path)[i] = SubSeq(path, s.pp, j)
<1> DEFINE n == Len(path)
           p == s.pp
           v == SubSeq(path, p, j)
           a == Read(path, s).names
           c == Components(path)
           u == Append(a, v)
<1>1. p \in 2 .. n /\ p - 1 \in Nat /\ a \in Seq(Seq(C)) /\ n \in Nat
      /\ Read(path, s).name = <<>>
  BY AtAName
<1>0. j \in p .. n /\ (\A k \in p .. j : path[k] # "/") /\ (j = n \/ path[j + 1] = "/")
  BY Zenon DEF NameFromTo
<1>2. Reading(path)[j] = Reader(a, v)
  <2>1. j \in Nat /\ p - 1 <= j /\ j <= n /\ (p - 1) + 1 = p
    BY <1>0, <1>1
  <2>2. \A k \in (p - 1) + 1 .. j : path[k] # "/"
    BY <1>0, <2>1
  <2>3. Reading(path)[p - 1].name = <<>> /\ Reading(path)[p - 1].names = a
    BY <1>1 DEF Read
  <2>4. Reading(path)[j] = Reader(Reading(path)[p - 1].names, SubSeq(path, (p - 1) + 1, j))
    BY <1>1, <2>1, <2>2, <2>3, NameRun
  <2> QED
    BY <2>1, <2>3, <2>4
<1>10. v \in Seq(C) /\ v # <<>>
  <2>1. \A i \in p .. j : path[i] \in C
    BY <1>0, <1>1
  <2>2. p \in Int /\ j \in Int /\ p <= j /\ j - p + 1 >= 1
    BY <1>0, <1>1
  <2>3. v \in Seq(C) /\ Len(v) = j - p + 1
    BY <2>1, <2>2, SubSeqProperties
  <2> HIDE DEF v
  <2> QED
    BY <2>2, <2>3
<1> HIDE DEF v
<1>3. Reader(a, v).names = a /\ Reader(a, v).name = v
  BY DEF Reader
<1> HIDE DEF a
<1>4. Ended(Reading(path)[j]) = u
  BY <1>10, <1>2, <1>3, Zenon DEF Ended
<1>5. j \in 1 .. n
  BY <1>0, <1>1
<1>6. Begins(u, c)
  BY <1>0, <1>4, <1>5, NamesOfThePath, Zenon
<1>7. c \in Seq(Seq(C))
  <2>1. n \in 0 .. n
    BY <1>1
  <2>2. Reading(path)[n] \in Readers(C)
    BY <2>1, ReadingAt, Zenon
  <2> QED
    BY <2>2, EndedTyped DEF Components
<1>8. Len(a) \in Nat /\ Len(u) = Len(a) + 1 /\ u[Len(a) + 1] = v
  BY <1>1, <1>10, AppendProperties
<1> HIDE DEF u, c
<1>9. Len(a) + 1 \in 1 .. Len(c) /\ c[Len(a) + 1] = v
  BY <1>6, <1>7, <1>8 DEF Begins
<1> QED
  BY <1>9 DEF c, v

(* Where the scan meets "." or "..", the path has such a name. *)
LEMMA DotsAreNames ==
  ASSUME NEW C, NUL \notin C, NEW path \in Seq(C), NEW s \in Scans(path, C),
         ScanMeans(path, s), s.pp <= Len(path), path[s.pp] # "/", NoDots(path)
  PROVE  ~DotAt(path, s.pp) /\ ~DotDotAt(path, s.pp)
<1> DEFINE n == Len(path)
           p == s.pp
<1>0. ASSUME NEW j, NameFromTo(path, p, j)
      PROVE  \E i \in 1 .. Len(Components(path)) : Components(path)[i] = SubSeq(path, p, j)
  BY <1>0, NameIsComponent, Zenon
<1>1. p \in 2 .. n /\ n \in Nat /\ p \in 1 .. n
  BY AtAName
<1>2. ASSUME DotAt(path, p) PROVE FALSE
  <2>1. path[p] = "." /\ (p = n \/ path[p + 1] = "/")
    <3>1. p # n => p + 1 \in 1 .. n /\ path[p + 1] \in C
      BY <1>1
    <3> QED
      BY <1>2, <3>1 DEF DotAt, At
  <2> DEFINE v == SubSeq(path, p, p)
  <2>2. v = Dot
    BY <1>1, <2>1, ShortParts, Zenon DEF Dot
  <2>3. p \in p .. n /\ \A k \in p .. p : path[k] # "/"
    BY <1>1
  <2>4. NameFromTo(path, p, p)
    BY <2>1, <2>3, Zenon DEF NameFromTo
  <2>5. \E i \in 1 .. Len(Components(path)) : Components(path)[i] = v
    BY <1>0, <2>4
  <2> QED
    BY <2>2, <2>5, Zenon DEF NoDots
<1>3. ASSUME DotDotAt(path, p) PROVE FALSE
  <2>0. "." # NUL
    BY DEF NUL
  <2>1. path[p] = "." /\ p + 1 \in 1 .. n /\ path[p + 1] = "."
    BY <1>3, <2>0 DEF DotDotAt, At
  <2>2. p + 1 = n \/ path[(p + 1) + 1] = "/"
    <3>1. p + 1 # n => p + 2 \in 1 .. n /\ path[p + 2] \in C /\ (p + 1) + 1 = p + 2
      BY <1>1, <2>1
    <3> QED
      BY <1>3, <3>1 DEF DotDotAt, At
  <2> DEFINE v == SubSeq(path, p, p + 1)
  <2>3. v = DotDot
    <3>1. p + 1 <= n
      BY <1>1, <2>1
    <3> QED
      BY <1>1, <2>1, <3>1, ShortParts, Zenon DEF DotDot
  <2>4. p + 1 \in p .. n
    BY <1>1, <2>1
  <2>5. \A k \in p .. p + 1 : path[k] # "/"
    <3>1. \A k \in p .. p + 1 : k = p \/ k = p + 1
      BY <1>1
    <3> QED
      BY <2>1, <3>1
  <2>6. NameFromTo(path, p, p + 1)
    BY <2>2, <2>4, <2>5, Zenon DEF NameFromTo
  <2>7. \E i \in 1 .. Len(Components(path)) : Components(path)[i] = v
    BY <1>0, <2>6, Zenon
  <2> QED
    BY <2>3, <2>7, Zenon DEF NoDots
<1> QED
  BY <1>2, <1>3

(* No slash is written behind another, and none is left at the end. *)
SlashesApart(w) == \A i \in 1 .. Len(w) - 1 : w[i] = "/" => w[i + 1] # "/"
TidyScan(path, s) ==
  /\ SlashesApart(s.np)
  /\ s.pp <= Len(path) /\ path[s.pp] = "/" => s.np[Len(s.np)] # "/"
  /\ s.pp > Len(path) => Len(s.np) = 1 \/ s.np[Len(s.np)] # "/"

(* A round keeps it so. *)
LEMMA RoundTidy ==
  ASSUME NEW C, "/" \in C, NUL \notin C, NEW path \in Seq(C), NEW s \in Scans(path, C),
         ScanMeans(path, s), NoDots(path), TidyScan(path, s)
  PROVE  TidyScan(path, Round(path, s))
<1> DEFINE n == Len(path)
           p == s.pp
           w == s.np
<1>1. n \in Nat /\ p \in 2 .. n + 1 /\ w \in Seq(C) /\ Len(w) >= 1 /\ Len(w) \in Nat
  BY DEF Scans, ScanMeans
<1>2. CASE p > n
  BY <1>2 DEF Round
<1>3. CASE p <= n /\ path[p] = "/"
  <2> DEFINE q == SlashesEnd(path, p)
             x == IF q <= n THEN Append(w, "/") ELSE w
  <2>1. Round(path, s) = Scan(q, x)
    <3>1. ~(p > n)
      BY <1>1, <1>3
    <3> QED
      BY <1>3, <3>1, RoundAtSlash
  <2>2. q \in p .. n + 1 /\ (q <= n => path[q] # "/")
    <3>1. p \in 1 .. n + 1
      BY <1>1
    <3> QED
      BY <3>1, SlashesEndShape
  <2> HIDE DEF q
  <2>3. w[Len(w)] # "/" /\ SlashesApart(w)
    BY <1>3, Zenon DEF TidyScan
  <2> DEFINE t == Scan(q, x)
  <2>4. t.pp = q /\ t.np = x
    <3> HIDE DEF x
    <3> QED
      BY DEF Scan
  <2> HIDE DEF t
  <2>5. CASE q <= n
    <3>1. x = Append(w, "/")
      BY <2>5
    <3> HIDE DEF x
    <3>2. Len(x) = Len(w) + 1 /\ x[Len(w) + 1] = "/" /\ \A i \in 1 .. Len(w) : x[i] = w[i]
      BY <1>1, <3>1
    <3>3. ASSUME NEW i \in 1 .. Len(x) - 1, x[i] = "/" PROVE x[i + 1] # "/"
      <4>1. i \in 1 .. Len(w) /\ x[i] = w[i]
        BY <1>1, <3>2
      <4>2. i # Len(w)
        BY <2>3, <3>3, <4>1
      <4>3. i \in 1 .. Len(w) - 1 /\ i + 1 \in 1 .. Len(w)
        BY <1>1, <4>1, <4>2
      <4> QED
        BY <2>3, <3>2, <3>3, <4>1, <4>3, Zenon DEF SlashesApart
    <3>4. SlashesApart(x)
      BY <3>3, Zenon DEF SlashesApart
    <3>5. ~(q > n)
      BY <1>1, <2>2, <2>5
    <3>6. TidyScan(path, t)
      BY <2>2, <2>4, <2>5, <3>4, <3>5, Zenon DEF TidyScan
    <3> QED
      BY <2>1, <3>6, Zenon DEF t
  <2>6. CASE ~(q <= n)
    <3>1. x = w
      BY <2>6
    <3>2. TidyScan(path, t)
      BY <2>3, <2>4, <2>6, <3>1, Zenon DEF TidyScan
    <3> QED
      BY <2>1, <3>2, Zenon DEF t
  <2> QED
    BY <2>5, <2>6
<1>4. CASE p <= n /\ path[p] # "/"
  <2> DEFINE q == NameEnd(path, p)
             v == SubSeq(path, p, q - 1)
             x == w \o v
             t == Scan(q, x)
  <2>1. Round(path, s) = t
    <3>1. ~(p > n)
      BY <1>1, <1>4
    <3>2. ~DotAt(path, p) /\ ~DotDotAt(path, p)
      BY <1>4, DotsAreNames
    <3> QED
      BY <1>4, <3>1, <3>2, RoundAtName
  <2>2. /\ q \in p .. n + 1 /\ (q <= n => path[q] = "/")
        /\ \A k \in p .. q - 1 : path[k] # "/"
    <3>1. p \in 1 .. n + 1
      BY <1>1
    <3> QED
      BY <3>1, NameEndShape
  <2> HIDE DEF q
  <2>3. q \in p + 1 .. n + 1
    <3>1. q # p
      BY <1>4, <2>2
    <3> QED
      BY <1>1, <2>2, <3>1
  <2>4. /\ v \in Seq(C) /\ Len(v) = q - p /\ Len(v) >= 1
        /\ \A k \in 1 .. q - p : v[k] = path[p + k - 1]
    <3>1. \A i \in p .. q - 1 : path[i] \in C
      BY <1>1, <2>3
    <3>2. p \in Int /\ q - 1 \in Int /\ p <= q - 1 /\ (q - 1) - p + 1 = q - p /\ q - p >= 1
      BY <1>1, <2>3
    <3> QED
      BY <3>1, <3>2, SubSeqProperties
  <2> HIDE DEF v
  <2>5. \A k \in 1 .. Len(v) : v[k] # "/"
    <3> TAKE k \in 1 .. Len(v)
    <3>0. p \in Nat /\ q \in Nat
      BY <1>1, <2>3
    <3>1. k \in 1 .. q - p /\ p + k - 1 \in p .. q - 1
      BY <2>4, <3>0
    <3> QED
      BY <2>2, <2>4, <3>1
  <2>6. /\ Len(x) = Len(w) + Len(v)
        /\ \A i \in 1 .. Len(w) + Len(v) : x[i] = IF i <= Len(w) THEN w[i] ELSE v[i - Len(w)]
    BY <1>1, <2>4, ConcatProperties
  <2> HIDE DEF x
  <2>7. Len(v) \in Nat
    BY <2>4
  <2>8. \A i \in 1 .. Len(x) : i > Len(w) => x[i] # "/"
    <3> SUFFICES ASSUME NEW i \in 1 .. Len(x), i > Len(w) PROVE x[i] # "/"
      OBVIOUS
    <3>1. i \in 1 .. Len(w) + Len(v) /\ ~(i <= Len(w)) /\ i - Len(w) \in 1 .. Len(v)
      BY <1>1, <2>6, <2>7
    <3> QED
      BY <2>5, <2>6, <3>1, Zenon
  <2>9. SlashesApart(x)
    <3> SUFFICES ASSUME NEW i \in 1 .. Len(x) - 1, x[i] = "/" PROVE x[i + 1] # "/"
      BY Zenon DEF SlashesApart
    <3>1. i \in 1 .. Len(x) /\ i + 1 \in 1 .. Len(x) /\ i \in Nat
      BY <1>1, <2>6, <2>7
    <3>2. ~(i > Len(w))
      BY <2>8, <3>1
    <3>3. CASE i = Len(w)
      BY <1>1, <2>8, <3>1, <3>3
    <3>4. CASE i # Len(w)
      <4>1. i \in 1 .. Len(w) - 1 /\ i <= Len(w) /\ i + 1 <= Len(w)
        BY <1>1, <3>1, <3>2, <3>4
      <4>2. x[i] = w[i] /\ x[i + 1] = w[i + 1]
        BY <2>6, <3>1, <4>1, Zenon
      <4> QED
        BY <4>1, <4>2, Zenon DEF TidyScan, SlashesApart
    <3> QED
      BY <3>3, <3>4
  <2>10. x[Len(x)] # "/"
    <3>1. Len(x) \in 1 .. Len(x) /\ Len(x) > Len(w)
      BY <1>1, <2>4, <2>6, <2>7
    <3> QED
      BY <2>8, <3>1
  <2>11. t.pp = q /\ t.np = x
    BY DEF Scan
  <2> HIDE DEF t
  <2>12. TidyScan(path, t)
    BY <2>9, <2>10, <2>11, Zenon DEF TidyScan
  <2> QED
    BY <2>1, <2>12, Zenon
<1> QED
  BY <1>1, <1>2, <1>3, <1>4

(* The slashes of the result. *)
LEMMA NormalizedTidy ==
  ASSUME NEW C, "/" \in C, NUL \notin C, NEW path \in Seq(C), NoDots(path),
         At(path, 1) = "/", At(path, 2) # "/"
  PROVE  Tidy(vfs_normalize_path(path))
<1> DEFINE n == Len(path)
           f == Rounds(path)
           T == {k \in 0 .. n : TidyScan(path, f[k])}
<1>1. n \in Nat /\ n >= 1
  BY DEF At, NUL
<1>2. DotsApart(path)
  <2> SUFFICES ASSUME NEW i \in 2 .. Len(Components(path)), Components(path)[i] = DotDot
               PROVE  FALSE
    BY Zenon DEF DotsApart
  <2>1. i \in 1 .. Len(Components(path))
    <3>1. Len(Components(path)) \in Nat
      <4>1. n \in 0 .. n
        BY <1>1
      <4>2. Reading(path)[n] \in Readers(C)
        BY <4>1, ReadingAt, Zenon
      <4>3. Components(path) \in Seq(Seq(C))
        BY <4>2, EndedTyped DEF Components
      <4> QED
        BY <4>3
    <3> QED
      BY <3>1
  <2> QED
    BY <2>1, Zenon DEF NoDots
<1>3. /\ f[0] = Scan(2, <<"/">>) /\ \A k \in 1 .. n : f[k] = Round(path, f[k - 1])
      /\ \A k \in 0 .. n : f[k] \in Scans(path, C) /\ ScanMeans(path, f[k]) /\ f[k].pp > k
  BY <1>2, RoundsMean, Zenon
<1> HIDE DEF f
<1>4. 0 \in T
  <2> DEFINE w == <<"/">>
  <2>1. f[0].pp = 2 /\ f[0].np = w
    BY <1>3 DEF Scan
  <2>2. Len(w) = 1
    OBVIOUS
  <2> HIDE DEF w
  <2>3. SlashesApart(w)
    BY <2>2 DEF SlashesApart
  <2>4. 2 <= n => path[2] # "/"
    <3>1. 2 <= n => 2 \in 1 .. n
      BY <1>1
    <3> QED
      BY <3>1, Zenon DEF At
  <2>5. TidyScan(path, f[0])
    BY <2>1, <2>2, <2>3, <2>4, Zenon DEF TidyScan
  <2>6. 0 \in 0 .. n
    BY <1>1
  <2> QED
    BY <2>5, <2>6
<1>5. ASSUME NEW k \in 1 .. n, k - 1 \in T PROVE k \in T
  <2>1. k - 1 \in 0 .. n /\ k \in 0 .. n
    BY <1>1
  <2>2. f[k - 1] \in Scans(path, C) /\ ScanMeans(path, f[k - 1]) /\ TidyScan(path, f[k - 1])
    BY <1>3, <1>5, <2>1
  <2>3. TidyScan(path, Round(path, f[k - 1]))
    BY <2>2, RoundTidy
  <2>4. TidyScan(path, f[k])
    BY <1>3, <2>3
  <2> QED
    BY <2>1, <2>4
<1> HIDE DEF T
<1>6. \A k \in 0 .. n : k \in T
  BY <1>1, <1>4, <1>5, UpTo
<1> DEFINE s == f[n]
           w == s.np
<1>7. s \in Scans(path, C) /\ ScanMeans(path, s) /\ s.pp > n /\ TidyScan(path, s)
  <2>1. n \in 0 .. n /\ n \in T
    BY <1>1, <1>6
  <2> QED
    BY <1>3, <2>1 DEF T
<1> HIDE DEF s
<1>8. w \in Seq(C) /\ Len(w) >= 1 /\ w[1] = "/" /\ SlashesApart(w)
      /\ (Len(w) = 1 \/ w[Len(w)] # "/")
  BY <1>7 DEF Scans, ScanMeans, TidyScan
<1>9. vfs_normalize_path(path) = w
  <2>1. w # <<>>
    BY <1>8
  <2> QED
    BY <2>1, Zenon DEF vfs_normalize_path, s, f
<1> HIDE DEF w
<1>10. CASE Len(w) = 1
  <2>1. w = <<"/">>
    BY <1>8, <1>10
  <2> QED
    BY <1>9, <2>1, Zenon DEF Tidy
<1>11. CASE Len(w) # 1
  <2>1. ASSUME NEW i \in 1 .. Len(w), w[i] = "/" PROVE At(w, i + 1) \notin {"/", NUL}
    <3>1. i # Len(w)
      BY <1>8, <1>11, <2>1
    <3>2. i \in 1 .. Len(w) - 1 /\ i + 1 \in 1 .. Len(w)
      BY <1>8, <3>1
    <3>3. w[i + 1] # "/"
      BY <1>8, <2>1, <3>2, Zenon DEF SlashesApart
    <3>4. w[i + 1] \in C
      BY <1>8, <3>2
    <3>5. At(w, i + 1) = w[i + 1]
      BY <3>2, Zenon DEF At
    <3> QED
      BY <3>3, <3>4, <3>5
  <2> QED
    BY <1>9, <2>1, Zenon DEF Tidy
<1> QED
  BY <1>10, <1>11

(* vfs_normalize_path follows "." and ".." of every absolute path in which *)
(* no ".." comes right after one of them, and leaves no slash too many if  *)
(* the path has neither and does not begin with two slashes.               *)
THEOREM NormalisesAbsolutePaths == ConsoleSpec => []NormalisesAbsolute
<1>1. TextOK => NormalisesAbsolute
  <2> SUFFICES ASSUME TextOK, At(text, 1) = "/"
               PROVE  /\ DotsApart(text) => Components(vfs_normalize_path(text)) = Resolved(text)
                      /\ At(text, 2) # "/" /\ NoDots(text) => Tidy(vfs_normalize_path(text))
    BY Zenon DEF NormalisesAbsolute, DotsApart, NoDots
  <2> DEFINE C == Printed \cup {"/"}
  <2>1. text \in Seq(C) /\ "/" \in C
    BY DEF TextOK
  <2>2. NUL \notin C
    BY CharactersAssumption DEF Printed, Blank, NUL
  <2> HIDE DEF C
  <2>3. DotsApart(text) => Components(vfs_normalize_path(text)) = Resolved(text)
    BY <2>1, <2>2, NormalizedMeans
  <2>4. At(text, 2) # "/" /\ NoDots(text) => Tidy(vfs_normalize_path(text))
    BY <2>1, <2>2, NormalizedTidy
  <2> QED
    BY <2>3, <2>4
<1> QED
  BY <1>1, TextTyped, PTL

-----------------------------------------------------------------------------
(* The lines of a text.                                                    *)

LineLists(C) == {ls \in Seq(Seq(C)) : Len(ls) >= 1}
LinesOf(t) == Breaking(t)[Len(t)]

(* f holds the lines after each character of t. *)
BreakingHistory(f, C, t) ==
  /\ f \in [0 .. Len(t) -> LineLists(C)]
  /\ f[0] = << <<>> >>
  /\ \A i \in 1 .. Len(t) : f[i] = NextLines(f[i - 1], t[i])

(* One more character ends the last line or stands behind it. *)
LEMMA NextLinesShape ==
  ASSUME NEW C, NEW ls \in LineLists(C), NEW c \in C
  PROVE  /\ NextLines(ls, c) \in LineLists(C)
         /\ c = "\n" => /\ Len(NextLines(ls, c)) = Len(ls) + 1
                         /\ NextLines(ls, c)[Len(ls) + 1] = <<>>
                         /\ \A i \in 1 .. Len(ls) : NextLines(ls, c)[i] = ls[i]
         /\ c # "\n" => /\ Len(NextLines(ls, c)) = Len(ls)
                         /\ NextLines(ls, c)[Len(ls)] = Append(ls[Len(ls)], c)
                         /\ \A i \in 1 .. Len(ls) - 1 : NextLines(ls, c)[i] = ls[i]
<1>1. ls \in Seq(Seq(C)) /\ Len(ls) \in Nat /\ Len(ls) >= 1 /\ Len(ls) \in 1 .. Len(ls)
  BY DEF LineLists
<1>2. ls[Len(ls)] \in Seq(C)
  BY <1>1
<1> DEFINE m == NextLines(ls, c)
<1>3. CASE c = "\n"
  <2>1. m = Append(ls, <<>>)
    BY <1>3 DEF NextLines
  <2>2. /\ m \in Seq(Seq(C)) /\ Len(m) = Len(ls) + 1 /\ m[Len(ls) + 1] = <<>>
        /\ \A i \in 1 .. Len(ls) : m[i] = ls[i]
    <3>1. <<>> \in Seq(C)
      OBVIOUS
    <3> QED
      BY <1>1, <2>1, <3>1, AppendProperties
  <2> HIDE DEF m
  <2>3. m \in LineLists(C)
    BY <1>1, <2>2 DEF LineLists
  <2> QED
    BY <1>3, <2>2, <2>3 DEF m
<1>4. CASE c # "\n"
  <2> DEFINE l == Append(ls[Len(ls)], c)
  <2>1. m = [ls EXCEPT ![Len(ls)] = l]
    BY <1>4 DEF NextLines
  <2>2. l \in Seq(C)
    BY <1>2
  <2> HIDE DEF l, m
  <2>3. /\ m \in Seq(Seq(C)) /\ Len(m) = Len(ls) /\ m[Len(ls)] = l
        /\ \A i \in 1 .. Len(ls) - 1 : m[i] = ls[i]
    BY <1>1, <2>1, <2>2
  <2>4. m \in LineLists(C)
    BY <1>1, <2>3 DEF LineLists
  <2> QED
    BY <1>4, <2>3, <2>4 DEF m, l
<1> QED
  BY <1>3, <1>4

(* What Breaking computes. *)
LEMMA BreakingRounds ==
  ASSUME NEW C, NEW t \in Seq(C)
  PROVE  BreakingHistory(Breaking(t), C, t)
<1> DEFINE n == Len(t)
           S == LineLists(C)
           b == << <<>> >>
           step == [q \in (1 .. n) \X S |-> NextLines(q[2], t[q[1]])]
           F == Breaking(t)
<1>1. n \in Nat
  OBVIOUS
<1>2. b \in S
  <2>1. <<>> \in Seq(C)
    OBVIOUS
  <2>2. b \in Seq(Seq(C)) /\ Len(b) = 1
    BY <2>1
  <2> HIDE DEF b
  <2>3. Len(b) >= 1
    BY <2>2
  <2> QED
    BY <2>2, <2>3, Zenon DEF LineLists
<1>3. ASSUME NEW k \in 1 .. n, NEW v \in S PROVE NextLines(v, t[k]) \in S
  <2>1. t[k] \in C
    OBVIOUS
  <2> QED
    BY <2>1, NextLinesShape
<1> HIDE DEF S, b, n
<1>4. step \in [(1 .. n) \X S -> S]
  BY <1>3
<1>5. \A k \in 1 .. n, v \in S : step[<<k, v>>] = NextLines(v, t[k])
  OBVIOUS
<1> HIDE DEF step
<1>6. PICK f \in [0 .. n -> S] : Iterates(f, n, b, step)
  BY <1>1, <1>2, <1>4, HistoryExists
<1>7. f[0] = b /\ \A k \in 1 .. n : f[k] = NextLines(f[k - 1], t[k])
  <2>1. \A k \in 1 .. n : f[k - 1] \in S
    BY <1>1, <1>6
  <2> QED
    BY <1>5, <1>6, <2>1 DEF Iterates
<1>8. f = [k \in 0 .. n |-> IF k = 0 THEN b ELSE NextLines(f[k - 1], t[k])]
  BY <1>1, <1>7
<1>9. F = [k \in 0 .. n |-> IF k = 0 THEN b ELSE NextLines(F[k - 1], t[k])]
  BY <1>8, Zenon DEF Breaking, n, b
<1> HIDE DEF F
<1>10. F = f
  <2>1. Counted(F, n) /\ Counted(f, n) /\ F[0] = f[0]
    BY <1>1, <1>7, <1>8, <1>9 DEF Counted
  <2>2. \A k \in 1 .. n : F[k] = NextLines(F[k - 1], t[k])
    <3>1. \A k \in 1 .. n : k \in 0 .. n /\ k # 0
      BY <1>1
    <3> QED
      BY <1>9, <3>1, Zenon
  <2> QED
    BY <1>1, <1>7, <2>1, <2>2, HistoriesAgree
<1>11. F \in [0 .. n -> S] /\ F[0] = b /\ \A k \in 1 .. n : F[k] = NextLines(F[k - 1], t[k])
  BY <1>6, <1>7, <1>10, Zenon
<1> QED
  BY <1>11, Zenon DEF F, n, b, S, BreakingHistory

(* The same, at one place. *)
LEMMA BreakingAt ==
  ASSUME NEW C, NEW t \in Seq(C), NEW i \in 0 .. Len(t)
  PROVE  /\ Breaking(t)[i] \in LineLists(C)
         /\ i = 0 => Breaking(t)[i] = << <<>> >>
         /\ i > 0 => Breaking(t)[i] = NextLines(Breaking(t)[i - 1], t[i])
<1> DEFINE f == Breaking(t)
<1>1. BreakingHistory(f, C, t)
  BY BreakingRounds
<1> HIDE DEF f
<1>2. f[i] \in LineLists(C)
  BY <1>1, Zenon DEF BreakingHistory
<1>3. i = 0 => f[i] = << <<>> >>
  BY <1>1, Zenon DEF BreakingHistory
<1>4. i > 0 => f[i] = NextLines(f[i - 1], t[i])
  <2>1. i > 0 => i \in 1 .. Len(t)
    OBVIOUS
  <2> QED
    BY <1>1, <2>1, Zenon DEF BreakingHistory
<1> QED
  BY <1>2, <1>3, <1>4 DEF f

(* The lines of a text with one more character. *)
LEMMA LinesAppend ==
  ASSUME NEW C, NEW t \in Seq(C), NEW c \in C
  PROVE  LinesOf(t) \in LineLists(C) /\ LinesOf(Append(t, c)) = NextLines(LinesOf(t), c)
<1> DEFINE u == Append(t, c)
           f == Breaking(t)
           g == Breaking(u)
           n == Len(t)
           T == {k \in 0 .. n : f[k] = g[k]}
<1>1. n \in Nat /\ u \in Seq(C) /\ Len(u) = n + 1 /\ u[n + 1] = c /\ \A k \in 1 .. n : u[k] = t[k]
  OBVIOUS
<1> HIDE DEF u
<1>2. BreakingHistory(f, C, t) /\ BreakingHistory(g, C, u)
  BY <1>1, BreakingRounds
<1> HIDE DEF f, g
<1>3. 0 \in T
  <2>1. f[0] = g[0]
    BY <1>2, Zenon DEF BreakingHistory
  <2> QED
    BY <1>1, <2>1
<1>4. ASSUME NEW k \in 1 .. n, k - 1 \in T PROVE k \in T
  <2>1. k \in 1 .. Len(u) /\ k \in 0 .. n
    BY <1>1
  <2>2. f[k] = NextLines(f[k - 1], t[k]) /\ g[k] = NextLines(g[k - 1], u[k])
    BY <1>2, <2>1, Zenon DEF BreakingHistory
  <2>3. f[k - 1] = g[k - 1] /\ u[k] = t[k]
    BY <1>1, <1>4
  <2>4. f[k] = g[k]
    BY <2>2, <2>3, Zenon
  <2> QED
    BY <2>1, <2>4
<1> HIDE DEF T
<1>5. \A k \in 0 .. n : k \in T
  BY <1>1, <1>3, <1>4, UpTo
<1>6. f[n] = g[n]
  BY <1>1, <1>5 DEF T
<1>7. n + 1 \in 1 .. Len(u) /\ (n + 1) - 1 = n /\ n \in 0 .. n
  BY <1>1
<1>8. g[n + 1] = NextLines(g[n], c)
  <2>1. g[n + 1] = NextLines(g[(n + 1) - 1], u[n + 1])
    BY <1>2, <1>7, Zenon DEF BreakingHistory
  <2> QED
    BY <1>1, <1>7, <2>1, Zenon
<1>9. f[n] \in LineLists(C)
  BY <1>2, <1>7, Zenon DEF BreakingHistory
<1>10. LinesOf(u) = g[n + 1] /\ LinesOf(t) = f[n]
  BY <1>1 DEF LinesOf, f, g
<1> QED
  BY <1>6, <1>8, <1>9, <1>10 DEF u

(* The lines ms are as long as the lines ls, and blank. *)
Faded(ls, ms) ==
  /\ Len(ms) = Len(ls)
  /\ \A i \in 1 .. Len(ls) : Len(ms[i]) = Len(ls[i]) /\ \A j \in 1 .. Len(ls[i]) : ms[i][j] = Blank

(* The text after print_clear. *)
Cleared(t) == [i \in DOMAIN t |-> IF t[i] = "\n" THEN "\n" ELSE Blank]

(* The lines of a cleared text. *)
LEMMA ClearedLines ==
  ASSUME NEW C, "\n" \in C, Blank \in C, NEW t \in Seq(C)
  PROVE  Faded(LinesOf(t), LinesOf(Cleared(t)))
<1> DEFINE u == Cleared(t)
           f == Breaking(t)
           g == Breaking(u)
           n == Len(t)
           T == {k \in 0 .. n : Faded(f[k], g[k])}
<1>1. n \in Nat /\ u \in Seq(C) /\ Len(u) = n
      /\ \A k \in 1 .. n : u[k] = IF t[k] = "\n" THEN "\n" ELSE Blank
  BY DEF Cleared
<1> HIDE DEF u
<1>2. BreakingHistory(f, C, t) /\ BreakingHistory(g, C, u)
  BY <1>1, BreakingRounds
<1>3. 0 \in T
  <2>1. f[0] = << <<>> >> /\ g[0] = << <<>> >> /\ 0 \in 0 .. n
    BY <1>1, <1>2 DEF BreakingHistory
  <2>2. Faded(<< <<>> >>, << <<>> >>)
    BY DEF Faded
  <2> QED
    BY <2>1, <2>2
<1> HIDE DEF f, g
<1>4. ASSUME NEW k \in 1 .. n, k - 1 \in T PROVE k \in T
  <2> DEFINE ls == f[k - 1]
             ms == g[k - 1]
  <2>1. k \in 1 .. Len(u) /\ k \in 0 .. n /\ k - 1 \in 0 .. n
    BY <1>1
  <2>2. f[k] = NextLines(ls, t[k]) /\ g[k] = NextLines(ms, u[k])
    BY <1>2, <2>1, Zenon DEF BreakingHistory
  <2>3. ls \in LineLists(C) /\ ms \in LineLists(C)
    BY <1>1, <1>2, <2>1, Zenon DEF BreakingHistory
  <2>4. Faded(ls, ms)
    BY <1>4
  <2>5. t[k] \in C /\ u[k] \in C /\ (u[k] = "\n" <=> t[k] = "\n") /\ (t[k] # "\n" => u[k] = Blank)
    <3>1. t[k] \in C
      OBVIOUS
    <3>2. u[k] = IF t[k] = "\n" THEN "\n" ELSE Blank
      BY <1>1
    <3>3. Blank # "\n"
      BY DEF Blank
    <3> QED
      BY <3>1, <3>2, <3>3, Zenon
  <2> HIDE DEF ls, ms
  <2>6. Faded(NextLines(ls, t[k]), NextLines(ms, u[k]))
    <3> DEFINE l1 == NextLines(ls, t[k])
               m1 == NextLines(ms, u[k])
               m == Len(ls)
    <3>1. /\ Len(ms) = m /\ m \in Nat /\ m >= 1 /\ ls \in Seq(Seq(C)) /\ ms \in Seq(Seq(C))
          /\ \A i \in 1 .. m : Len(ms[i]) = Len(ls[i]) /\ \A j \in 1 .. Len(ls[i]) : ms[i][j] = Blank
      <4>1. ls \in Seq(Seq(C)) /\ ms \in Seq(Seq(C)) /\ m >= 1
        BY <2>3, Zenon DEF LineLists
      <4>2. m \in Nat
        BY <4>1
      <4> QED
        BY <2>4, <4>1, <4>2, Zenon DEF Faded
    <3>2. CASE t[k] = "\n"
      <4>1. /\ Len(l1) = m + 1 /\ l1[m + 1] = <<>> /\ \A i \in 1 .. m : l1[i] = ls[i]
        BY <2>3, <2>5, <3>2, NextLinesShape
      <4>2. /\ Len(m1) = m + 1 /\ m1[m + 1] = <<>> /\ \A i \in 1 .. m : m1[i] = ms[i]
        <5>1. u[k] = "\n" /\ Len(ms) = m
          BY <2>5, <3>1, <3>2
        <5>2. /\ Len(m1) = Len(ms) + 1 /\ m1[Len(ms) + 1] = <<>>
              /\ \A i \in 1 .. Len(ms) : m1[i] = ms[i]
          BY <2>3, <2>5, <5>1, NextLinesShape
        <5> HIDE DEF m1, m
        <5> QED
          BY <5>1, <5>2
      <4> HIDE DEF l1, m1
      <4>3. ASSUME NEW i \in 1 .. m + 1
            PROVE Len(m1[i]) = Len(l1[i]) /\ \A j \in 1 .. Len(l1[i]) : m1[i][j] = Blank
        <5>1. CASE i = m + 1
          BY <4>1, <4>2, <5>1
        <5>2. CASE i # m + 1
          <6>1. i \in 1 .. m
            BY <3>1, <5>2
          <6> QED
            BY <3>1, <4>1, <4>2, <6>1
        <5> QED
          BY <5>1, <5>2
      <4>4. Faded(l1, m1)
        BY <4>1, <4>2, <4>3 DEF Faded
      <4> QED
        BY <4>4 DEF l1, m1
    <3>3. CASE t[k] # "\n"
      <4>1. /\ Len(l1) = m /\ l1[m] = Append(ls[m], t[k]) /\ \A i \in 1 .. m - 1 : l1[i] = ls[i]
        BY <2>3, <2>5, <3>3, NextLinesShape
      <4>2. /\ Len(m1) = m /\ m1[m] = Append(ms[m], Blank) /\ \A i \in 1 .. m - 1 : m1[i] = ms[i]
        <5>1. u[k] = Blank /\ u[k] # "\n" /\ Len(ms) = m
          BY <2>5, <3>1, <3>3
        <5>2. /\ Len(m1) = Len(ms) /\ m1[Len(ms)] = Append(ms[Len(ms)], u[k])
              /\ \A i \in 1 .. Len(ms) - 1 : m1[i] = ms[i]
          BY <2>3, <2>5, <5>1, NextLinesShape
        <5> HIDE DEF m1, m
        <5> QED
          BY <5>1, <5>2, Zenon
      <4> HIDE DEF l1, m1
      <4>3. ASSUME NEW i \in 1 .. m
            PROVE Len(m1[i]) = Len(l1[i]) /\ \A j \in 1 .. Len(l1[i]) : m1[i][j] = Blank
        <5>1. CASE i = m
          <6> DEFINE a == ls[m]
                     d == ms[m]
          <6>1. a \in Seq(C) /\ d \in Seq(C) /\ Len(d) = Len(a) /\ \A j \in 1 .. Len(a) : d[j] = Blank
            BY <3>1
          <6> HIDE DEF a, d
          <6>2. Len(Append(d, Blank)) = Len(Append(a, t[k]))
                /\ \A j \in 1 .. Len(Append(a, t[k])) : Append(d, Blank)[j] = Blank
            BY <6>1
          <6> QED
            BY <4>1, <4>2, <5>1, <6>2 DEF a, d
        <5>2. CASE i # m
          <6>1. i \in 1 .. m - 1
            BY <3>1, <5>2
          <6> QED
            BY <3>1, <4>1, <4>2, <6>1
        <5> QED
          BY <5>1, <5>2
      <4>4. Faded(l1, m1)
        BY <4>1, <4>2, <4>3 DEF Faded
      <4> QED
        BY <4>4 DEF l1, m1
    <3> QED
      BY <3>2, <3>3
  <2> QED
    BY <2>1, <2>2, <2>6
<1> HIDE DEF T
<1>5. \A k \in 0 .. n : k \in T
  BY <1>1, <1>3, <1>4, UpTo
<1>6. Faded(f[n], g[n])
  BY <1>1, <1>5 DEF T
<1> QED
  BY <1>1, <1>6 DEF LinesOf, f, g, u

-----------------------------------------------------------------------------
(* The screen.                                                             *)

(* Rows lie one behind the other. *)
LEMMA RowsInOrder ==
  ASSUME NEW n \in Nat, NEW i \in Nat, NEW j \in Nat, i < j
  PROVE  n * i \in Nat /\ n * j \in Nat /\ n * i + n <= n * j
<1>1. PICK k \in Nat : j = (i + 1) + k
  <2>1. j - (i + 1) \in Nat /\ j = (i + 1) + (j - (i + 1))
    OBVIOUS
  <2> QED
    BY <2>1
<1>2. n * i \in Nat /\ n * k \in Nat /\ n * j \in Nat
  OBVIOUS
<1>3. n * j = n * i + n + n * k
  BY <1>1
<1> QED
  BY <1>2, <1>3

(* The cell of column j in row i. *)
Cell(i, j) == j + NUM_COLS * i

(* Every cell of the screen has a place of its own before the cell behind  *)
(* the screen, and the rows above the last are the ones that scroll.       *)
LEMMA CellsApart ==
  ASSUME NEW i \in 0 .. NUM_ROWS - 1, NEW j \in 0 .. NUM_COLS - 1
  PROVE  /\ Cell(i, j) \in Nat /\ Behind \in Nat /\ Cell(i, j) < Behind
         /\ Cell(i, j) < NUM_COLS * (NUM_ROWS - 1) <=> i < NUM_ROWS - 1
         /\ i < NUM_ROWS - 1 => Cell(i, j) + NUM_COLS = Cell(i + 1, j)
         /\ ~(Behind < NUM_COLS * (NUM_ROWS - 1))
         /\ \A k \in 0 .. NUM_ROWS - 1, l \in 0 .. NUM_COLS - 1 :
              Cell(i, j) = Cell(k, l) => i = k /\ j = l
<1>1. NUM_COLS \in Nat /\ NUM_ROWS \in Nat /\ NUM_COLS >= 1 /\ NUM_ROWS >= 1 /\ i \in Nat /\ j \in Nat
      /\ i < NUM_ROWS /\ NUM_ROWS - 1 \in Nat /\ j < NUM_COLS
  BY ScreenAssumption
<1> DEFINE x == NUM_COLS * i
           last == NUM_COLS * (NUM_ROWS - 1)
<1>2. x \in Nat /\ Behind \in Nat /\ x + NUM_COLS <= Behind
  BY <1>1, RowsInOrder DEF Behind
<1>3. last \in Nat /\ last + NUM_COLS <= Behind
  <2>1. NUM_ROWS - 1 < NUM_ROWS
    BY <1>1
  <2> QED
    BY <1>1, <2>1, RowsInOrder DEF Behind
<1>4. i < NUM_ROWS - 1 => x + NUM_COLS <= last
  BY <1>1, RowsInOrder
<1>5. ~(i < NUM_ROWS - 1) => x = last
  <2>1. ~(i < NUM_ROWS - 1) => i = NUM_ROWS - 1
    BY <1>1
  <2> QED
    BY <2>1
<1>6. NUM_COLS * (i + 1) = x + NUM_COLS
  BY <1>1
<1>7. ASSUME NEW k \in 0 .. NUM_ROWS - 1, NEW l \in 0 .. NUM_COLS - 1, Cell(i, j) = Cell(k, l)
      PROVE  i = k /\ j = l
  <2> DEFINE y == NUM_COLS * k
  <2>1. k \in Nat /\ l \in Nat /\ l < NUM_COLS
    BY <1>1
  <2>2. y \in Nat /\ j + x = l + y
    BY <1>1, <1>7, <2>1 DEF Cell
  <2>3. i < k => x + NUM_COLS <= y
    BY <1>1, <2>1, RowsInOrder
  <2>4. k < i => y + NUM_COLS <= x
    BY <1>1, <2>1, RowsInOrder
  <2> HIDE DEF x, y
  <2>5. ~(i < k) /\ ~(k < i)
    BY <1>1, <1>2, <2>1, <2>2, <2>3, <2>4
  <2>6. i = k
    BY <1>1, <2>1, <2>5
  <2>7. x = y
    BY <2>6 DEF x, y
  <2> QED
    BY <1>1, <1>2, <2>1, <2>2, <2>6, <2>7
<1>8. Cell(i, j) = j + x /\ Cell(i + 1, j) = j + (x + NUM_COLS)
  BY <1>6 DEF Cell
<1> HIDE DEF x, last
<1>9. Cell(i, j) \in Nat /\ Cell(i, j) < Behind
  BY <1>1, <1>2, <1>8
<1>10. Cell(i, j) < last <=> i < NUM_ROWS - 1
  BY <1>1, <1>2, <1>3, <1>4, <1>5, <1>8
<1>11. Cell(i, j) + NUM_COLS = Cell(i + 1, j)
  BY <1>1, <1>2, <1>8
<1>12. ~(Behind < last)
  BY <1>1, <1>2, <1>3
<1> QED
  BY <1>2, <1>7, <1>9, <1>10, <1>11, <1>12 DEF last

(* What stands in column j of line i. *)
CharAt(ls, i, j) == IF i <= Len(ls) /\ j < Len(ls[i]) THEN ls[i][j + 1] ELSE Blank

(* The lines that have scrolled away, and whether the others fit. *)
Gone(ls) == IF Len(ls) > NUM_ROWS THEN Len(ls) - NUM_ROWS ELSE 0
Fits(ls) == \A i \in 1 .. Len(ls) : Len(ls[i]) <= NUM_COLS

(* Buffer b shows the last of the lines ls, the cell behind the screen is  *)
(* blank, and the cursor at row r and column c is behind the last line.    *)
Displays(b, r, c, ls) ==
  /\ r = Len(ls) - 1 - Gone(ls) /\ c = Len(ls[Len(ls)])
  /\ \A i \in 0 .. NUM_ROWS - 1, j \in 0 .. NUM_COLS - 1 :
       b[Cell(i, j)] = CharAt(ls, Gone(ls) + i + 1, j)
  /\ b[Behind] = Blank

(* The place of the last line. *)
LEMMA LastLine ==
  ASSUME NEW C, NEW ls \in LineLists(C)
  PROVE  /\ Len(ls) \in Nat /\ Len(ls) >= 1 /\ Gone(ls) \in Nat
         /\ Len(ls) - 1 - Gone(ls) \in 0 .. NUM_ROWS - 1
         /\ Len(ls) - 1 - Gone(ls) < NUM_ROWS - 1 <=> Len(ls) < NUM_ROWS
         /\ Len(ls) < NUM_ROWS => Gone(ls) = 0
         /\ ~(Len(ls) < NUM_ROWS) => Gone(ls) = Len(ls) - NUM_ROWS
         /\ \A i \in 1 .. Len(ls) : ls[i] \in Seq(C) /\ Len(ls[i]) \in Nat
<1>1. ls \in Seq(Seq(C)) /\ Len(ls) >= 1
  BY Zenon DEF LineLists
<1>2. Len(ls) \in Nat /\ NUM_ROWS \in Nat /\ NUM_ROWS >= 1
  BY <1>1, ScreenAssumption
<1>3. \A i \in 1 .. Len(ls) : ls[i] \in Seq(C) /\ Len(ls[i]) \in Nat
  BY <1>1
<1>4. CASE Len(ls) > NUM_ROWS
  <2>1. Gone(ls) = Len(ls) - NUM_ROWS
    BY <1>4 DEF Gone
  <2> QED
    BY <1>1, <1>2, <1>3, <1>4, <2>1
<1>5. CASE ~(Len(ls) > NUM_ROWS)
  <2>1. Gone(ls) = 0
    BY <1>5 DEF Gone
  <2> QED
    BY <1>1, <1>2, <1>3, <1>5, <2>1
<1> QED
  BY <1>4, <1>5

(* A character on a line that still fits: print_char does not wrap, and    *)
(* writes to the one cell.                                                 *)
LEMMA PutDisplays ==
  ASSUME NEW C, NEW ls \in LineLists(C), NEW ch \in C, ch # "\n", NEW b, NEW r, NEW c,
         Counted(b, Behind), Displays(b, r, c, ls), Fits(NextLines(ls, ch))
  PROVE  /\ ~(c > NUM_COLS)
         /\ Displays([b EXCEPT ![Cell(r, c)] = ch], r, c + 1, NextLines(ls, ch))
<1> DEFINE ms == NextLines(ls, ch)
           n == Len(ls)
           d == [b EXCEPT ![Cell(r, c)] = ch]
<1>1. /\ n \in Nat /\ n >= 1 /\ Gone(ls) \in Nat /\ n - 1 - Gone(ls) \in 0 .. NUM_ROWS - 1
      /\ \A i \in 1 .. n : ls[i] \in Seq(C) /\ Len(ls[i]) \in Nat
  BY LastLine
<1>2. /\ Len(ms) = n /\ ms[n] = Append(ls[n], ch) /\ \A i \in 1 .. n - 1 : ms[i] = ls[i]
  BY NextLinesShape
<1>3. Gone(ms) = Gone(ls)
  BY <1>2, Zenon DEF Gone
<1> HIDE DEF ms
<1>4. r = n - 1 - Gone(ls) /\ r \in 0 .. NUM_ROWS - 1 /\ c = Len(ls[n]) /\ n \in 1 .. n
      /\ ls[n] \in Seq(C) /\ c \in Nat
  BY <1>1 DEF Displays
<1>5. /\ Len(ms[n]) = c + 1 /\ ms[n][c + 1] = ch
      /\ \A j \in Nat : j < c => ms[n][j + 1] = ls[n][j + 1]
  BY <1>2, <1>4
<1>6. c \in 0 .. NUM_COLS - 1 /\ ~(c > NUM_COLS)
  <2>1. Len(ms[n]) <= NUM_COLS
    BY <1>2, <1>4 DEF Fits, ms
  <2>2. NUM_COLS \in Nat
    BY ScreenAssumption
  <2> QED
    BY <1>4, <1>5, <2>1, <2>2
<1>7. Cell(r, c) \in Nat /\ Behind \in Nat /\ Cell(r, c) < Behind
  BY <1>4, <1>6, CellsApart
<1>8. \A x \in 0 .. Behind : d[x] = IF x = Cell(r, c) THEN ch ELSE b[x]
  BY <1>7 DEF Counted
<1> HIDE DEF d
<1>9. ASSUME NEW i \in 0 .. NUM_ROWS - 1, NEW j \in 0 .. NUM_COLS - 1
      PROVE  d[Cell(i, j)] = CharAt(ms, Gone(ms) + i + 1, j)
  <2> DEFINE k == Gone(ls) + i + 1
  <2>1. Cell(i, j) \in 0 .. Behind /\ (Cell(i, j) = Cell(r, c) => i = r /\ j = c)
    <3>1. Cell(i, j) \in Nat /\ Cell(i, j) < Behind
          /\ \A k1 \in 0 .. NUM_ROWS - 1, l \in 0 .. NUM_COLS - 1 :
               Cell(i, j) = Cell(k1, l) => i = k1 /\ j = l
      BY CellsApart
    <3>2. Cell(i, j) = Cell(r, c) => i = r /\ j = c
      BY <1>4, <1>6, <3>1, Zenon
    <3>3. Cell(i, j) \in 0 .. Behind
      BY <1>7, <3>1
    <3> QED
      BY <3>2, <3>3
  <2>2. b[Cell(i, j)] = CharAt(ls, k, j)
    BY Zenon DEF Displays
  <2>3. k \in Nat /\ k >= 1 /\ j \in Nat /\ (k = n <=> i = r)
    BY <1>1, <1>4
  <2> HIDE DEF k
  <2>4. CASE k # n
    <3>1. d[Cell(i, j)] = b[Cell(i, j)]
      BY <1>8, <2>1, <2>3, <2>4, Zenon
    <3>2. k <= n => k \in 1 .. n - 1
      BY <1>1, <2>3, <2>4
    <3>3. k <= n => ms[k] = ls[k]
      BY <1>2, <3>2
    <3>4. CharAt(ms, k, j) = CharAt(ls, k, j)
      BY <1>2, <3>3, Zenon DEF CharAt
    <3> QED
      BY <1>3, <2>2, <3>1, <3>4 DEF k
  <2>5. CASE k = n
    <3>1. CharAt(ls, n, j) = IF j < c THEN ls[n][j + 1] ELSE Blank
      BY <1>1, <1>4 DEF CharAt
    <3>2. CharAt(ms, n, j) = IF j < c + 1 THEN ms[n][j + 1] ELSE Blank
      BY <1>1, <1>2, <1>5 DEF CharAt
    <3>3. i = r
      BY <2>3, <2>5
    <3>4. CASE j = c
      <4>1. d[Cell(i, j)] = ch
        BY <1>8, <2>1, <3>3, <3>4, Zenon
      <4>2. CharAt(ms, n, j) = ch
        BY <1>4, <1>5, <3>2, <3>4
      <4> QED
        BY <1>3, <2>5, <4>1, <4>2 DEF k
    <3>5. CASE j # c
      <4>1. d[Cell(i, j)] = b[Cell(i, j)]
        BY <1>8, <2>1, <3>5, Zenon
      <4>2. CharAt(ms, n, j) = CharAt(ls, n, j)
        BY <1>4, <1>5, <2>3, <3>1, <3>2, <3>5
      <4> QED
        BY <1>3, <2>2, <2>5, <4>1, <4>2 DEF k
    <3> QED
      BY <3>4, <3>5
  <2> QED
    BY <2>4, <2>5
<1>10. d[Behind] = Blank
  <2>1. Behind \in 0 .. Behind /\ Behind # Cell(r, c)
    BY <1>7
  <2>2. d[Behind] = b[Behind]
    BY <1>8, <2>1, Zenon
  <2> QED
    BY <2>2 DEF Displays
<1>11. r = Len(ms) - 1 - Gone(ms) /\ c + 1 = Len(ms[Len(ms)])
  BY <1>2, <1>3, <1>4, <1>5
<1>12. Displays(d, r, c + 1, ms)
  BY <1>9, <1>10, <1>11 DEF Displays
<1> QED
  BY <1>6, <1>12 DEF d, ms

(* A line that still fits after a character fitted before it. *)
LEMMA FitsBefore ==
  ASSUME NEW C, NEW ls \in LineLists(C), NEW ch \in C, Fits(NextLines(ls, ch))
  PROVE  Fits(ls)
<1> DEFINE ms == NextLines(ls, ch)
           n == Len(ls)
<1>1. n \in Nat /\ n >= 1 /\ (\A i \in 1 .. n : ls[i] \in Seq(C) /\ Len(ls[i]) \in Nat)
  BY LastLine
<1>2. NUM_COLS \in Nat
  BY ScreenAssumption
<1>3. CASE ch = "\n"
  <2>1. Len(ms) = n + 1 /\ \A i \in 1 .. n : ms[i] = ls[i]
    BY <1>3, NextLinesShape
  <2>2. \A i \in 1 .. n + 1 : Len(ms[i]) <= NUM_COLS
    BY <2>1 DEF Fits
  <2> HIDE DEF ms
  <2>3. \A i \in 1 .. n : Len(ls[i]) <= NUM_COLS
    BY <1>1, <2>1, <2>2
  <2> QED
    BY <2>3 DEF Fits
<1>4. CASE ch # "\n"
  <2>1. Len(ms) = n /\ ms[n] = Append(ls[n], ch) /\ \A i \in 1 .. n - 1 : ms[i] = ls[i]
    BY <1>4, NextLinesShape
  <2>2. \A i \in 1 .. n : Len(ms[i]) <= NUM_COLS
    BY <2>1 DEF Fits
  <2> HIDE DEF ms
  <2>3. n \in 1 .. n /\ ls[n] \in Seq(C) /\ Len(ls[n]) \in Nat
    BY <1>1
  <2>4. Len(ms[n]) = Len(ls[n]) + 1
    BY <2>1, <2>3
  <2>5. Len(ls[n]) <= NUM_COLS
    BY <1>2, <2>2, <2>3, <2>4
  <2>6. ASSUME NEW i \in 1 .. n PROVE Len(ls[i]) <= NUM_COLS
    <3>1. CASE i = n
      BY <2>5, <3>1
    <3>2. CASE i # n
      <4>1. i \in 1 .. n - 1
        BY <1>1, <3>2
      <4> QED
        BY <2>1, <2>2, <4>1
    <3> QED
      BY <3>1, <3>2
  <2> QED
    BY <2>6 DEF Fits
<1> QED
  BY <1>3, <1>4

(* What stands on the lines is not changed by a new, empty line. *)
LEMMA CharAtNewline ==
  ASSUME NEW C, NEW ls \in LineLists(C), "\n" \in C, NEW k \in Nat, k >= 1, NEW j \in Nat
  PROVE  CharAt(NextLines(ls, "\n"), k, j) = CharAt(ls, k, j)
<1> DEFINE ms == NextLines(ls, "\n")
           n == Len(ls)
<1>1. n \in Nat
  BY LastLine
<1>2. Len(ms) = n + 1 /\ ms[n + 1] = <<>> /\ \A i \in 1 .. n : ms[i] = ls[i]
  BY NextLinesShape
<1> HIDE DEF ms
<1>3. CASE k <= n
  <2>1. k \in 1 .. n /\ k <= n + 1
    BY <1>1, <1>3
  <2>2. ms[k] = ls[k]
    BY <1>2, <2>1
  <2>3. CharAt(ms, k, j) = CharAt(ls, k, j)
    BY <1>2, <1>3, <2>1, <2>2, Zenon DEF CharAt
  <2> QED
    BY <2>3 DEF ms
<1>4. CASE ~(k <= n)
  <2>1. CharAt(ls, k, j) = Blank
    BY <1>4 DEF CharAt
  <2>2. k <= n + 1 => k = n + 1
    BY <1>1, <1>4
  <2>3. ~(k <= Len(ms) /\ j < Len(ms[k]))
    BY <1>2, <2>2
  <2>4. CharAt(ms, k, j) = Blank
    BY <2>3, Zenon DEF CharAt
  <2> QED
    BY <2>1, <2>4 DEF ms
<1> QED
  BY <1>3, <1>4

(* What scrolling leaves in each cell. *)
LEMMA ScrolledCells ==
  ASSUME NEW b, Counted(b, Behind)
  PROVE  /\ Counted(ScrolledUp(b), Behind)
         /\ ScrolledUp(b)[Behind] = b[Behind]
         /\ \A i \in 0 .. NUM_ROWS - 1, j \in 0 .. NUM_COLS - 1 :
              ScrolledUp(b)[Cell(i, j)] = IF i < NUM_ROWS - 1 THEN b[Cell(i + 1, j)] ELSE Blank
<1> DEFINE d == ScrolledUp(b)
           top == NUM_COLS * (NUM_ROWS - 1)
<1>1. DOMAIN b = 0 .. Behind
  BY DEF Counted
<1>2. d = [x \in 0 .. Behind |-> IF x < top THEN b[x + NUM_COLS]
                                 ELSE IF x < Behind THEN Blank ELSE b[x]]
  BY <1>1, Zenon DEF ScrolledUp
<1> HIDE DEF d, top
<1>3. Counted(d, Behind)
  BY <1>2 DEF Counted
<1>4. 0 \in 0 .. NUM_ROWS - 1 /\ 0 \in 0 .. NUM_COLS - 1
  BY ScreenAssumption
<1>5. Behind \in Nat /\ ~(Behind < top)
  BY <1>4, CellsApart DEF top
<1>6. d[Behind] = b[Behind]
  <2>1. Behind \in 0 .. Behind /\ ~(Behind < Behind)
    BY <1>5
  <2> QED
    BY <1>2, <1>5, <2>1, Zenon
<1>7. ASSUME NEW i \in 0 .. NUM_ROWS - 1, NEW j \in 0 .. NUM_COLS - 1
      PROVE  d[Cell(i, j)] = IF i < NUM_ROWS - 1 THEN b[Cell(i + 1, j)] ELSE Blank
  <2>1. /\ Cell(i, j) \in Nat /\ Cell(i, j) < Behind
        /\ Cell(i, j) < top <=> i < NUM_ROWS - 1
        /\ i < NUM_ROWS - 1 => Cell(i, j) + NUM_COLS = Cell(i + 1, j)
    BY CellsApart DEF top
  <2>2. Cell(i, j) \in 0 .. Behind
    BY <1>5, <2>1
  <2> QED
    BY <1>2, <2>1, <2>2, Zenon
<1> QED
  BY <1>3, <1>6, <1>7 DEF d

(* A line break above the last row: the cursor goes to the next row. *)
LEMMA NextRowDisplays ==
  ASSUME NEW C, NEW ls \in LineLists(C), "\n" \in C, NEW b, NEW r, NEW c,
         Displays(b, r, c, ls), r < NUM_ROWS - 1
  PROVE  Displays(b, r + 1, 0, NextLines(ls, "\n"))
<1> DEFINE ms == NextLines(ls, "\n")
           n == Len(ls)
<1>1. /\ n \in Nat /\ n >= 1 /\ Gone(ls) \in Nat /\ NUM_ROWS \in Nat
      /\ n - 1 - Gone(ls) < NUM_ROWS - 1 <=> n < NUM_ROWS
      /\ n < NUM_ROWS => Gone(ls) = 0
  BY LastLine, ScreenAssumption
<1>2. Len(ms) = n + 1 /\ ms[n + 1] = <<>>
  BY NextLinesShape
<1>3. r = n - 1 - Gone(ls)
  BY DEF Displays
<1>4. n < NUM_ROWS /\ Gone(ls) = 0
  BY <1>1, <1>3
<1>5. Gone(ms) = 0
  BY <1>1, <1>2, <1>4 DEF Gone
<1>6. ASSUME NEW i \in 0 .. NUM_ROWS - 1, NEW j \in 0 .. NUM_COLS - 1
      PROVE  b[Cell(i, j)] = CharAt(ms, Gone(ms) + i + 1, j)
  <2>1. b[Cell(i, j)] = CharAt(ls, Gone(ls) + i + 1, j)
    BY Zenon DEF Displays
  <2>2. 0 + i + 1 \in Nat /\ 0 + i + 1 >= 1 /\ j \in Nat
    OBVIOUS
  <2>3. CharAt(ms, 0 + i + 1, j) = CharAt(ls, 0 + i + 1, j)
    BY <2>2, CharAtNewline
  <2> QED
    BY <1>4, <1>5, <2>1, <2>3, Zenon
<1> HIDE DEF ms
<1>7. Len(ms[Len(ms)]) = 0
  BY <1>2
<1>8. r + 1 = Len(ms) - 1 - Gone(ms)
  BY <1>1, <1>2, <1>3, <1>4, <1>5
<1>9. b[Behind] = Blank
  BY DEF Displays
<1>10. Displays(b, r + 1, 0, ms)
  BY <1>6, <1>7, <1>8, <1>9, Zenon DEF Displays
<1> QED
  BY <1>10 DEF ms

(* A line break on the last row: every row moves up. *)
LEMMA ScrollDisplays ==
  ASSUME NEW C, NEW ls \in LineLists(C), "\n" \in C, NEW b, NEW r, NEW c,
         Counted(b, Behind), Displays(b, r, c, ls), ~(r < NUM_ROWS - 1)
  PROVE  Displays(ScrolledUp(b), r, 0, NextLines(ls, "\n"))
<1> DEFINE ms == NextLines(ls, "\n")
           n == Len(ls)
           d == ScrolledUp(b)
<1>1. /\ n \in Nat /\ n >= 1 /\ Gone(ls) \in Nat /\ NUM_ROWS \in Nat
      /\ n - 1 - Gone(ls) < NUM_ROWS - 1 <=> n < NUM_ROWS
      /\ ~(n < NUM_ROWS) => Gone(ls) = n - NUM_ROWS
  BY LastLine, ScreenAssumption
<1>2. Len(ms) = n + 1 /\ ms[n + 1] = <<>>
  BY NextLinesShape
<1>3. r = n - 1 - Gone(ls)
  BY DEF Displays
<1>4. ~(n < NUM_ROWS) /\ Gone(ls) = n - NUM_ROWS
  BY <1>1, <1>3
<1>5. Gone(ms) = Gone(ls) + 1
  BY <1>1, <1>2, <1>4 DEF Gone
<1>6. /\ d[Behind] = b[Behind]
      /\ \A i \in 0 .. NUM_ROWS - 1, j \in 0 .. NUM_COLS - 1 :
           d[Cell(i, j)] = IF i < NUM_ROWS - 1 THEN b[Cell(i + 1, j)] ELSE Blank
  BY ScrolledCells
<1> HIDE DEF d
<1>7. ASSUME NEW i \in 0 .. NUM_ROWS - 1, NEW j \in 0 .. NUM_COLS - 1
      PROVE  d[Cell(i, j)] = CharAt(ms, Gone(ms) + i + 1, j)
  <2> DEFINE k == Gone(ls) + (i + 1) + 1
  <2>1. k \in Nat /\ k >= 1 /\ j \in Nat /\ Gone(ms) + i + 1 = k
    BY <1>1, <1>5, SMTT(60)
  <2>2. CharAt(ms, k, j) = CharAt(ls, k, j)
    <3> HIDE DEF k
    <3> QED
      BY <2>1, CharAtNewline
  <2>3. CASE i < NUM_ROWS - 1
    <3>1. i + 1 \in 0 .. NUM_ROWS - 1
      BY <1>1, <2>3
    <3>2. b[Cell(i + 1, j)] = CharAt(ls, k, j)
      BY <3>1, Zenon DEF Displays
    <3>3. d[Cell(i, j)] = b[Cell(i + 1, j)]
      BY <1>6, <2>3, Zenon
    <3> HIDE DEF k, ms
    <3> QED
      BY <2>1, <2>2, <3>2, <3>3
  <2>4. CASE ~(i < NUM_ROWS - 1)
    <3>1. d[Cell(i, j)] = Blank
      BY <1>6, <2>4, Zenon
    <3>2. ~(k <= n)
      BY <1>1, <1>4, <2>4
    <3>3. CharAt(ls, k, j) = Blank
      BY <3>2, Zenon DEF CharAt
    <3> HIDE DEF k, ms
    <3> QED
      BY <2>1, <2>2, <3>1, <3>3
  <2> QED
    BY <2>3, <2>4
<1> HIDE DEF ms
<1>8. Len(ms[Len(ms)]) = 0
  BY <1>2
<1>9. r = Len(ms) - 1 - Gone(ms)
  BY <1>1, <1>2, <1>3, <1>5
<1>10. d[Behind] = Blank
  BY <1>6 DEF Displays
<1>11. Displays(d, r, 0, ms)
  BY <1>7, <1>8, <1>9, <1>10, Zenon DEF Displays
<1> QED
  BY <1>11 DEF ms, d

(* print_clear: the lines stay as long as they were, and blank. *)
LEMMA ClearDisplays ==
  ASSUME NEW C, NEW ls \in LineLists(C), NEW ms \in LineLists(C), Faded(ls, ms),
         NEW b, NEW r, NEW c, NEW d, Displays(b, r, c, ls), Counted(b, Behind),
         d = [x \in DOMAIN b |-> IF x < Behind THEN Blank ELSE b[x]]
  PROVE  Displays(d, r, c, ms)
<1>1. DOMAIN b = 0 .. Behind
  BY DEF Counted
<1>2. \A x \in 0 .. Behind : d[x] = IF x < Behind THEN Blank ELSE b[x]
  BY <1>1, Zenon
<1>3. 0 \in 0 .. NUM_ROWS - 1 /\ 0 \in 0 .. NUM_COLS - 1
  BY ScreenAssumption
<1>4. Behind \in Nat
  BY <1>3, CellsApart
<1>5. d[Behind] = Blank
  <2>1. Behind \in 0 .. Behind /\ ~(Behind < Behind)
    BY <1>4
  <2>2. d[Behind] = b[Behind]
    BY <1>2, <2>1, Zenon
  <2> QED
    BY <2>2 DEF Displays
<1>6. /\ Len(ms) = Len(ls)
      /\ \A i \in 1 .. Len(ls) : Len(ms[i]) = Len(ls[i]) /\ \A j \in 1 .. Len(ls[i]) : ms[i][j] = Blank
  BY Zenon DEF Faded
<1>7. /\ Len(ls) \in Nat /\ Len(ls) >= 1 /\ Gone(ls) \in Nat
      /\ \A i \in 1 .. Len(ls) : Len(ls[i]) \in Nat
  BY LastLine
<1>8. Gone(ms) = Gone(ls)
  BY <1>6, Zenon DEF Gone
<1>9. r = Len(ms) - 1 - Gone(ms) /\ c = Len(ms[Len(ms)])
  <2>1. r = Len(ls) - 1 - Gone(ls) /\ c = Len(ls[Len(ls)])
    BY DEF Displays
  <2>2. Len(ls) \in 1 .. Len(ls)
    BY <1>7
  <2>3. Len(ms[Len(ls)]) = Len(ls[Len(ls)])
    BY <1>6, <2>2
  <2> QED
    BY <1>6, <1>8, <2>1, <2>3
<1>10. ASSUME NEW i \in 0 .. NUM_ROWS - 1, NEW j \in 0 .. NUM_COLS - 1
       PROVE  d[Cell(i, j)] = CharAt(ms, Gone(ms) + i + 1, j)
  <2> DEFINE k == Gone(ms) + i + 1
  <2>1. Cell(i, j) \in Nat /\ Cell(i, j) < Behind
    BY CellsApart
  <2>2. Cell(i, j) \in 0 .. Behind
    BY <1>4, <2>1
  <2>3. d[Cell(i, j)] = Blank
    BY <1>2, <2>1, <2>2, Zenon
  <2>4. k \in Nat /\ k >= 1 /\ j \in Nat
    BY <1>7, <1>8
  <2> HIDE DEF k
  <2>5. ASSUME k <= Len(ms), j < Len(ms[k]) PROVE ms[k][j + 1] = Blank
    <3>1. k \in 1 .. Len(ls)
      BY <1>6, <1>7, <2>4, <2>5
    <3>2. Len(ms[k]) = Len(ls[k]) /\ Len(ls[k]) \in Nat
      BY <1>6, <1>7, <3>1
    <3>3. j + 1 \in 1 .. Len(ls[k])
      BY <2>4, <2>5, <3>2
    <3> QED
      BY <1>6, <3>1, <3>3, Zenon
  <2>6. CharAt(ms, k, j) = Blank
    BY <2>5, Zenon DEF CharAt
  <2> QED
    BY <2>3, <2>6 DEF k
<1> QED
  BY <1>5, <1>9, <1>10, Zenon DEF Displays

(* Lines that are as long fit if the others do. *)
LEMMA FadedFits ==
  ASSUME NEW C, NEW ls \in LineLists(C), NEW ms, Faded(ls, ms), Fits(ms)
  PROVE  Fits(ls)
<1>1. Len(ms) = Len(ls) /\ \A i \in 1 .. Len(ls) : Len(ms[i]) = Len(ls[i])
  BY Zenon DEF Faded
<1> QED
  BY <1>1, Zenon DEF Fits

-----------------------------------------------------------------------------
(* The console.                                                            *)

(* As long as the lines fit, the screen displays them; the buffer has a    *)
(* cell more than the screen.                                              *)
ConsoleInv ==
  /\ TextOK
  /\ Counted(buffer, Behind)
  /\ Fits(LinesOf(text)) => Displays(buffer, row, col, LinesOf(text))

(* A blank screen displays the empty text. *)
LEMMA InitDisplays == ConsoleInit => ConsoleInv
<1> SUFFICES ASSUME ConsoleInit PROVE ConsoleInv
  OBVIOUS
<1>1. text = <<>> /\ text \in Seq(Printed)
  BY DEF ConsoleInit
<1>2. LinesOf(text) = << <<>> >>
  <2>1. Len(text) = 0 /\ 0 \in 0 .. Len(text)
    BY <1>1
  <2>2. Breaking(text)[0] = << <<>> >>
    BY <1>1, <2>1, BreakingAt
  <2> QED
    BY <2>1, <2>2 DEF LinesOf
<1>3. 0 \in 0 .. NUM_ROWS - 1 /\ 0 \in 0 .. NUM_COLS - 1 /\ NUM_ROWS \in Nat /\ NUM_ROWS >= 1
  BY ScreenAssumption
<1>4. Behind \in Nat
  BY <1>3, CellsApart
<1>5. Counted(buffer, Behind) /\ \A x \in 0 .. Behind : buffer[x] = Blank
  BY DEF ConsoleInit, Counted
<1> DEFINE e == << <<>> >>
<1>6. Len(e) = 1 /\ e[1] = <<>> /\ Len(e[1]) = 0
  OBVIOUS
<1> HIDE DEF e
<1>7. Gone(e) = 0
  BY <1>3, <1>6 DEF Gone
<1>8. ASSUME NEW i \in 0 .. NUM_ROWS - 1, NEW j \in 0 .. NUM_COLS - 1
      PROVE  buffer[Cell(i, j)] = CharAt(e, Gone(e) + i + 1, j)
  <2>1. Cell(i, j) \in Nat /\ Cell(i, j) < Behind
    BY CellsApart
  <2>2. buffer[Cell(i, j)] = Blank
    BY <1>4, <1>5, <2>1
  <2> DEFINE k == Gone(e) + i + 1
  <2>3. k \in Nat /\ k >= 1 /\ (k <= 1 => k = 1) /\ ~(j < 0)
    BY <1>7
  <2> HIDE DEF k
  <2>4. ~(k <= Len(e) /\ j < Len(e[k]))
    BY <1>6, <2>3, Zenon
  <2>5. CharAt(e, k, j) = Blank
    BY <2>4, Zenon DEF CharAt
  <2> QED
    BY <2>2, <2>5 DEF k
<1>9. buffer[Behind] = Blank
  BY <1>4, <1>5
<1>10. row = Len(e) - 1 - Gone(e) /\ col = Len(e[Len(e)])
  BY <1>6, <1>7 DEF ConsoleInit
<1>11. Displays(buffer, row, col, e)
  BY <1>8, <1>9, <1>10 DEF Displays
<1> QED
  BY <1>1, <1>2, <1>5, <1>11 DEF ConsoleInv, TextOK, e

(* A buffer keeps its cells when one of them is written. *)
LEMMA PutCounted ==
  ASSUME NEW b, Counted(b, Behind), NEW x, NEW ch
  PROVE  Counted([b EXCEPT ![x] = ch], Behind)
BY DEF Counted

(* print_char in the screens it passes through. *)
LEMMA PrintCharSteps ==
  ASSUME NEW ch, print_char(ch)
  PROVE  /\ text' = Append(text, ch)
         /\ ch = "\n" /\ row < NUM_ROWS - 1 => buffer' = buffer /\ row' = row + 1 /\ col' = 0
         /\ ch = "\n" /\ ~(row < NUM_ROWS - 1) =>
              buffer' = ScrolledUp(buffer) /\ row' = row /\ col' = 0
         /\ ch # "\n" /\ ~(col > NUM_COLS) =>
              /\ buffer' = [buffer EXCEPT ![Cell(row, col)] = ch]
              /\ row' = row /\ col' = col + 1
         /\ ch # "\n" /\ col > NUM_COLS =>
              \E b \in {buffer, ScrolledUp(buffer)} : \E x : buffer' = [b EXCEPT ![x] = ch]
<1> DEFINE s == Screen(buffer, row, col)
           after == IF ch = "\n" THEN Newline(s)
                    ELSE IF col > NUM_COLS THEN Put(Newline(s), ch)
                    ELSE Put(s, ch)
<1>1. text' = Append(text, ch) /\ buffer' = after.buffer /\ row' = after.row /\ col' = after.col
  BY Zenon DEF print_char
<1>0. s.buffer = buffer /\ s.row = row /\ s.col = col
  BY DEF Screen
<1> HIDE DEF s
<1>2. CASE ch = "\n" /\ row < NUM_ROWS - 1
  <2>1. after = Screen(buffer, row + 1, 0)
    <3>1. Newline(s) = Screen(buffer, row + 1, 0)
      BY <1>0, <1>2, Zenon DEF Newline
    <3> QED
      BY <1>2, <3>1, Zenon
  <2> HIDE DEF after
  <2>2. after.buffer = buffer /\ after.row = row + 1 /\ after.col = 0
    BY <2>1 DEF Screen
  <2> QED
    BY <1>1, <1>2, <2>2, Zenon
<1>3. CASE ch = "\n" /\ ~(row < NUM_ROWS - 1)
  <2>1. after = Screen(ScrolledUp(buffer), row, 0)
    <3>1. Newline(s) = Screen(ScrolledUp(buffer), row, 0)
      BY <1>0, <1>3, Zenon DEF Newline
    <3> QED
      BY <1>3, <3>1, Zenon
  <2> HIDE DEF after
  <2>2. after.buffer = ScrolledUp(buffer) /\ after.row = row /\ after.col = 0
    BY <2>1 DEF Screen
  <2> QED
    BY <1>1, <1>3, <2>2, Zenon
<1>4. CASE ch # "\n" /\ ~(col > NUM_COLS)
  <2>1. after = Screen([buffer EXCEPT ![Cell(row, col)] = ch], row, col + 1)
    <3>1. Put(s, ch) = Screen([buffer EXCEPT ![Cell(row, col)] = ch], row, col + 1)
      BY <1>0, Zenon DEF Put, Cell
    <3> QED
      BY <1>4, <3>1, Zenon
  <2> HIDE DEF after
  <2>2. after.buffer = [buffer EXCEPT ![Cell(row, col)] = ch] /\ after.row = row /\ after.col = col + 1
    BY <2>1 DEF Screen
  <2> QED
    BY <1>1, <1>4, <2>2, Zenon
<1>5. CASE ch # "\n" /\ col > NUM_COLS
  <2>1. after = Put(Newline(s), ch)
    BY <1>5, Zenon
  <2>2. \E b \in {buffer, ScrolledUp(buffer)} : \E r : Newline(s) = Screen(b, r, 0)
    <3>1. \/ Newline(s) = Screen(buffer, row + 1, 0)
          \/ Newline(s) = Screen(ScrolledUp(buffer), row, 0)
      BY <1>0, Zenon DEF Newline
    <3> QED
      BY <3>1, Zenon
  <2>3. PICK b \in {buffer, ScrolledUp(buffer)} : \E r : Newline(s) = Screen(b, r, 0)
    BY <2>2
  <2>4. PICK r : Newline(s) = Screen(b, r, 0)
    BY <2>3
  <2>5. after = Screen([b EXCEPT ![Cell(r, 0)] = ch], r, 0 + 1)
    <3> DEFINE u == Screen(b, r, 0)
    <3>1. u.buffer = b /\ u.row = r /\ u.col = 0
      BY DEF Screen
    <3>2. after = Put(u, ch)
      BY <2>1, <2>4, Zenon
    <3> HIDE DEF u
    <3>3. Put(u, ch) = Screen([b EXCEPT ![Cell(r, 0)] = ch], r, 0 + 1)
      BY <3>1, Zenon DEF Put, Cell
    <3> HIDE DEF after
    <3> QED
      BY <3>2, <3>3, Zenon
  <2> HIDE DEF after
  <2>6. after.buffer = [b EXCEPT ![Cell(r, 0)] = ch]
    BY <2>5 DEF Screen
  <2>7. buffer' = [b EXCEPT ![Cell(r, 0)] = ch]
    BY <1>1, <2>6
  <2> QED
    BY <1>1, <1>5, <2>7, Zenon
<1> QED
  BY <1>2, <1>3, <1>4, <1>5

(* print_char. *)
LEMMA PrintCharInv ==
  ASSUME ConsoleInv, NEW ch \in Characters, print_char(ch)
  PROVE  ConsoleInv'
<1> DEFINE C == Printed \cup {"\n"}
           ls == LinesOf(text)
           ms == NextLines(ls, ch)
<1>1. text \in Seq(Printed) /\ text \in Seq(C) /\ ch \in C /\ ch \in Printed /\ "\n" \in C
  BY DEF ConsoleInv, TextOK, Printed
<1>2. text' = Append(text, ch)
  BY PrintCharSteps
<1>3. TextOK'
  BY <1>1, <1>2 DEF TextOK
<1> HIDE DEF C
<1>4. ls \in LineLists(C) /\ LinesOf(Append(text, ch)) = ms
  BY <1>1, LinesAppend
<1>5. LinesOf(text)' = ms
  <2>1. LinesOf(text)' = LinesOf(text')
    BY DEF LinesOf
  <2> QED
    BY <1>2, <1>4, <2>1
<1>6. Counted(buffer, Behind) /\ (Fits(ls) => Displays(buffer, row, col, ls))
  BY DEF ConsoleInv
<1>7. Fits(ms) => Fits(ls)
  BY <1>1, <1>4, FitsBefore
<1> HIDE DEF ls, ms
<1>8. Counted(ScrolledUp(buffer), Behind)
  BY <1>6, ScrolledCells
<1>9. Counted(buffer', Behind) /\ (Fits(ms) => Displays(buffer', row', col', ms))
  <2>1. CASE ch = "\n" /\ row < NUM_ROWS - 1
    <3>1. buffer' = buffer /\ row' = row + 1 /\ col' = 0
      BY <2>1, PrintCharSteps
    <3>2. ASSUME Fits(ms) PROVE Displays(buffer, row + 1, 0, ms)
      <4>1. Displays(buffer, row, col, ls)
        BY <1>6, <1>7, <3>2
      <4>2. Displays(buffer, row + 1, 0, NextLines(ls, "\n"))
        BY <1>1, <1>4, <2>1, <4>1, NextRowDisplays
      <4> QED
        BY <2>1, <4>2 DEF ms
    <3> QED
      BY <1>6, <3>1, <3>2
  <2>2. CASE ch = "\n" /\ ~(row < NUM_ROWS - 1)
    <3>1. buffer' = ScrolledUp(buffer) /\ row' = row /\ col' = 0
      BY <2>2, PrintCharSteps
    <3>2. ASSUME Fits(ms) PROVE Displays(ScrolledUp(buffer), row, 0, ms)
      <4>1. Displays(buffer, row, col, ls)
        BY <1>6, <1>7, <3>2
      <4>2. Displays(ScrolledUp(buffer), row, 0, NextLines(ls, "\n"))
        BY <1>1, <1>4, <1>6, <2>2, <4>1, ScrollDisplays
      <4> QED
        BY <2>2, <4>2 DEF ms
    <3> QED
      BY <1>8, <3>1, <3>2
  <2>3. CASE ch # "\n" /\ ~(col > NUM_COLS)
    <3> DEFINE d == [buffer EXCEPT ![Cell(row, col)] = ch]
    <3>1. buffer' = d /\ row' = row /\ col' = col + 1
      BY <2>3, PrintCharSteps
    <3>2. Counted(d, Behind)
      BY <1>6, PutCounted
    <3>3. ASSUME Fits(ms) PROVE Displays(d, row, col + 1, ms)
      <4>1. Displays(buffer, row, col, ls)
        BY <1>6, <1>7, <3>3
      <4>2. Fits(NextLines(ls, ch))
        BY <3>3 DEF ms
      <4>3. Displays(d, row, col + 1, NextLines(ls, ch))
        BY <1>1, <1>4, <1>6, <2>3, <4>1, <4>2, PutDisplays, Zenon
      <4> QED
        BY <4>3 DEF ms
    <3> HIDE DEF d
    <3> QED
      BY <3>1, <3>2, <3>3
  <2>4. CASE ch # "\n" /\ col > NUM_COLS
    <3>1. PICK b \in {buffer, ScrolledUp(buffer)} : \E x : buffer' = [b EXCEPT ![x] = ch]
      BY <2>4, PrintCharSteps
    <3>2. PICK x : buffer' = [b EXCEPT ![x] = ch]
      BY <3>1
    <3>3. Counted(b, Behind)
      BY <1>6, <1>8
    <3>4. Counted([b EXCEPT ![x] = ch], Behind)
      BY <3>3, PutCounted
    <3>5. ~Fits(ms)
      <4> SUFFICES ASSUME Fits(ms) PROVE FALSE
        OBVIOUS
      <4>1. Displays(buffer, row, col, ls)
        BY <1>6, <1>7
      <4>2. Fits(NextLines(ls, ch))
        BY DEF ms
      <4>3. ~(col > NUM_COLS)
        BY <1>1, <1>4, <1>6, <2>4, <4>1, <4>2, PutDisplays, Zenon
      <4> QED
        BY <2>4, <4>3
    <3> QED
      BY <3>2, <3>4, <3>5, Zenon
  <2> QED
    BY <2>1, <2>2, <2>3, <2>4
<1>10. Counted(buffer, Behind)'
  BY <1>9 DEF Counted, Behind
<1>11. (Fits(LinesOf(text)) => Displays(buffer, row, col, LinesOf(text)))'
  BY <1>5, <1>9 DEF Fits, Displays, CharAt, Gone, Cell, Behind
<1> QED
  BY <1>3, <1>10, <1>11 DEF ConsoleInv

(* print_clear. *)
LEMMA PrintClearInv ==
  ASSUME ConsoleInv, print_clear
  PROVE  ConsoleInv'
<1> DEFINE C == Printed \cup {"\n"}
           ls == LinesOf(text)
           ms == LinesOf(Cleared(text))
           d == [i \in DOMAIN buffer |-> IF i < Behind THEN Blank ELSE buffer[i]]
<1>1. text \in Seq(Printed) /\ text \in Seq(C) /\ Blank \in C /\ "\n" \in C
  BY DEF ConsoleInv, TextOK, Printed
<1>2. text' = Cleared(text) /\ buffer' = d /\ row' = row /\ col' = col
  BY DEF print_clear, Cleared
<1>3. Cleared(text) \in Seq(Printed) /\ Cleared(text) \in Seq(C)
  BY <1>1 DEF Cleared, Printed
<1>4. TextOK'
  BY <1>2, <1>3 DEF TextOK
<1> HIDE DEF C
<1>5. Faded(ls, ms)
  BY <1>1, ClearedLines
<1>6. ls \in LineLists(C) /\ ms \in LineLists(C)
  BY <1>1, <1>3, LinesAppend
<1>7. LinesOf(text)' = ms
  <2>1. LinesOf(text)' = LinesOf(text')
    BY DEF LinesOf
  <2> QED
    BY <1>2, <2>1
<1>8. Counted(buffer, Behind) /\ (Fits(ls) => Displays(buffer, row, col, ls))
  BY DEF ConsoleInv
<1> HIDE DEF ls, ms
<1>9. Fits(ms) => Fits(ls)
  BY <1>5, <1>6, FadedFits
<1>10. Counted(d, Behind)
  BY <1>8 DEF Counted
<1>11. Fits(ms) => Displays(d, row, col, ms)
  BY <1>5, <1>6, <1>8, <1>9, ClearDisplays
<1> HIDE DEF d
<1>12. Counted(buffer', Behind) /\ (Fits(ms) => Displays(buffer', row', col', ms))
  BY <1>2, <1>10, <1>11
<1>13. Counted(buffer, Behind)'
  BY <1>12 DEF Counted, Behind
<1>14. (Fits(LinesOf(text)) => Displays(buffer, row, col, LinesOf(text)))'
  BY <1>7, <1>12 DEF Fits, Displays, CharAt, Gone, Cell, Behind
<1> QED
  BY <1>4, <1>13, <1>14 DEF ConsoleInv

(* What the invariant says of the screen. *)
LEMMA DisplaysShow == ConsoleInv => ShowsText
<1> SUFFICES ASSUME ConsoleInv, LinesFit PROVE ShowsText
  BY DEF ShowsText
<1> DEFINE ls == Lines
           first == IF Len(ls) > NUM_ROWS THEN Len(ls) - NUM_ROWS ELSE 0
           shown(r) == IF first + r + 1 <= Len(ls) THEN ls[first + r + 1] ELSE <<>>
<1>1. ls = LinesOf(text)
  BY DEF Lines, LinesOf
<1>2. ls \in LineLists(Printed \cup {"\n"})
  <2>1. text \in Seq(Printed \cup {"\n"}) /\ "\n" \in Printed \cup {"\n"}
    BY DEF ConsoleInv, TextOK
  <2> QED
    BY <1>1, <2>1, LinesAppend
<1>3. Fits(ls)
  <2>1. \A i \in 1 .. Len(ls) : ls[i] \in Range(ls)
    <3>1. DOMAIN ls = 1 .. Len(ls)
      BY <1>2 DEF LineLists
    <3> HIDE DEF ls
    <3> QED
      BY <3>1, Zenon DEF Range
  <2> QED
    BY <2>1 DEF Fits, LinesFit
<1>4. Displays(buffer, row, col, ls)
  BY <1>1, <1>3 DEF ConsoleInv
<1>5. Gone(ls) = first
  BY Zenon DEF Gone
<1>6. buffer[Behind] = Blank
  BY <1>4 DEF Displays
<1>7. first \in Nat /\ Len(ls) \in Nat
  BY <1>2, <1>5, LastLine
<1>8. ASSUME NEW r \in 0 .. NUM_ROWS - 1, NEW c \in 0 .. NUM_COLS - 1
      PROVE  buffer[c + NUM_COLS * r] = IF c < Len(shown(r)) THEN shown(r)[c + 1] ELSE Blank
  <2> DEFINE k == first + r + 1
  <2>1. buffer[Cell(r, c)] = CharAt(ls, k, c)
    BY <1>4, <1>5, Zenon DEF Displays
  <2>2. Cell(r, c) = c + NUM_COLS * r
    BY DEF Cell
  <2> HIDE DEF first, k, ls
  <2>3. CASE k <= Len(ls)
    <3>1. shown(r) = ls[k]
      BY <2>3 DEF k
    <3> HIDE DEF shown
    <3> QED
      BY <2>1, <2>2, <2>3, <3>1, Zenon DEF CharAt
  <2>4. CASE ~(k <= Len(ls))
    <3>1. shown(r) = <<>>
      BY <2>4 DEF k
    <3> HIDE DEF shown
    <3>2. ~(c < Len(shown(r)))
      BY <3>1
    <3> QED
      BY <2>1, <2>2, <2>4, <3>2, Zenon DEF CharAt
  <2> QED
    BY <2>3, <2>4
<1> QED
  BY <1>6, <1>8, Zenon DEF ShowsText

(* The buffer keeps its size, and displays the lines of the text with the  *)
(* cursor behind the last one as long as they fit: print_char does not     *)
(* wrap, print_newline moves rows and clears the last, and print_clear     *)
(* leaves the lines as long as they were.                                  *)
THEOREM ConsoleInvariant == ConsoleSpec => []ConsoleInv
<1>1. ConsoleInv /\ [ConsoleNext]_consoleVars => ConsoleInv'
  <2> SUFFICES ASSUME ConsoleInv, [ConsoleNext]_consoleVars PROVE ConsoleInv'
    OBVIOUS
  <2>1. CASE UNCHANGED consoleVars
    BY <2>1 DEF ConsoleInv, consoleVars, TextOK, Counted, LinesOf, Fits, Displays, CharAt, Gone
  <2>2. CASE print_clear
    BY <2>2, PrintClearInv
  <2>3. CASE \E c \in Characters : print_char(c)
    BY <2>3, PrintCharInv
  <2> QED
    BY <2>1, <2>2, <2>3 DEF ConsoleNext
<1> QED
  BY <1>1, InitDisplays, PTL DEF ConsoleSpec

(* The screen of print.c shows the last lines of the printed text, and     *)
(* nothing is written behind it, as long as no line is longer than the     *)
(* screen is wide.                                                         *)
THEOREM ScreenShowsTheText == ConsoleSpec => []ShowsText
BY ConsoleInvariant, DisplaysShow, PTL

=============================================================================
