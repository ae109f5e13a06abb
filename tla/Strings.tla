------------------------------ MODULE Strings ------------------------------
(***************************************************************************)
(* memcpy, memmove and vsnprintf of kernel/string.c.  Memory and strings   *)
(* are sequences of characters, strings without their terminator.          *)
(***************************************************************************)
EXTENDS Integers, Sequences, SequencesExt

NUL == "NUL"

(* The loops of memcpy and memmove, from the first byte up or from the     *)
(* last one down: memory m after each of the bytes, taken in order.        *)
CopyByte(dest, src, m, i) == [m EXCEPT ![dest + i] = m[src + i]]
Copying(m, dest, src, order) ==
  LET f[k \in 0 .. Len(order)] ==
        IF k = 0 THEN m ELSE CopyByte(dest, src, f[k - 1], order[k])
  IN f
CopyUp(m, dest, src, n) == Copying(m, dest, src, [k \in 1 .. n |-> k - 1])[n]
CopyDown(m, dest, src, n) == Copying(m, dest, src, [k \in 1 .. n |-> n - k])[n]

memcpy(m, dest, src, n) == CopyUp(m, dest, src, n)

(* Mutant of memmove: the directions are exchanged. *)
MoveBackwards(m, dest, src, n) ==
  IF dest < src THEN CopyDown(m, dest, src, n) ELSE CopyUp(m, dest, src, n)

memmove(m, dest, src, n) ==
  IF dest < src THEN CopyUp(m, dest, src, n) ELSE CopyDown(m, dest, src, n)

(* The output of vsnprintf so far, and the place in the format. *)
Output(pos, out) == [pos |-> pos, out |-> out]

(* As much of s as there is room for, and out with it: what every copying  *)
(* loop of vsnprintf does, each with a test of its own.                    *)
Room(size, out) == size - 1 - Len(out)
Clipped(s, room) == SubSeq(s, 1, IF Len(s) <= room THEN Len(s) ELSE room)
Written(size, out, s) == out \o Clipped(s, Room(size, out))

(* The digits of a number, which %d and %x put into num_buf from the       *)
(* lowest on: one at least, NUM_DIGITS at most.                            *)
NUM_DIGITS == 31
Division(num, buf) == [num |-> num, buf |-> buf]
DigitRound(base, c) ==
  IF c.num = 0 /\ c.buf # <<>> THEN c
  ELSE Division(c.num \div base, Append(c.buf, c.num % base))
DigitRounds(base, num) ==
  LET f[k \in 0 .. NUM_DIGITS] ==
        IF k = 0 THEN Division(num, <<>>) ELSE DigitRound(base, f[k - 1])
  IN f
num_buf(base, num) == DigitRounds(base, num)[NUM_DIGITS].buf

(* The digits are copied in reverse. *)
DigitCharacters ==
  <<"0", "1", "2", "3", "4", "5", "6", "7", "8", "9", "a", "b", "c", "d", "e", "f">>
Numeral(base, num) ==
  LET buf == num_buf(base, num)
  IN [i \in 1 .. Len(buf) |-> DigitCharacters[buf[Len(buf) + 1 - i] + 1]]

(* Mutant of Directive: the digits of %d are copied without looking at the *)
(* room that is left.                                                      *)
DirectiveUnbounded(size, format, args, o) ==
  LET c == format[o.pos + 1]
      Write(s) == Written(size, o.out, s)
  IN Output(o.pos + 2,
       CASE c = "s" -> Write(args.s)
         [] c = "d" -> (IF args.d < 0 THEN Write(<<"-">>) ELSE o.out)
                         \o Numeral(10, IF args.d < 0 THEN -args.d ELSE args.d)
         [] c = "x" -> Write(Numeral(16, args.x))
         [] OTHER -> Write(<<c>>))

(* One directive: %s, %d, %x, or a character that stands for itself.  Every *)
(* directive of a kind is given the same argument.  (INT_MIN is outside:    *)
(* num = -num overflows.)                                                   *)
Directive(size, format, args, o) ==
  LET c == format[o.pos + 1]
      Write(s) == Written(size, o.out, s)
  IN Output(o.pos + 2,
       CASE c = "s" -> Write(args.s)
         [] c = "d" -> IF args.d < 0 THEN Written(size, Write(<<"-">>), Numeral(10, -args.d))
                       ELSE Write(Numeral(10, args.d))
         [] c = "x" -> Write(Numeral(16, args.x))
         [] OTHER -> Write(<<c>>))

(* One round of the loop.  The format must not end in a single %: then the *)
(* loop reads on behind its terminator.                                    *)
FormatRound(size, format, args, o) ==
  IF o.pos > Len(format) \/ Room(size, o.out) <= 0 THEN o
  ELSE IF format[o.pos] # "%" THEN Output(o.pos + 1, Append(o.out, format[o.pos]))
  ELSE Directive(size, format, args, o)

FormatRounds(size, format, args) ==
  LET f[k \in 0 .. Len(format)] ==
        IF k = 0 THEN Output(1, <<>>) ELSE FormatRound(size, format, args, f[k - 1])
  IN f

(* The bytes written, and the value returned: the characters among them.   *)
(* Nothing is written to a buffer without a byte for the terminator.       *)
Printing(bytes, result) == [bytes |-> bytes, result |-> result]
vsnprintf(size, format, args) ==
  IF size = 0 THEN Printing(<<>>, 0)
  ELSE LET out == FormatRounds(size, format, args)[Len(format)].out
       IN Printing(Append(out, NUL), Len(out))

-----------------------------------------------------------------------------
(* What the operations mean.                                               *)

Moved(m, dest, src, n) ==
  [i \in DOMAIN m |-> IF i \in dest .. dest + n - 1 THEN m[i - dest + src] ELSE m[i]]

(* The format with every directive replaced: position i is the character   *)
(* after a % if the one before it is a % that is not itself escaped.       *)
Escaped(format) ==
  LET e[i \in 0 .. Len(format)] == i > 1 /\ format[i - 1] = "%" /\ ~e[i - 1]
  IN e
Complete(format) ==
  Len(format) = 0 \/ format[Len(format)] # "%" \/ Escaped(format)[Len(format)]
Conversion(c, args) ==
  CASE c = "s" -> args.s
    [] c = "d" -> IF args.d < 0 THEN <<"-">> \o Numeral(10, -args.d) ELSE Numeral(10, args.d)
    [] c = "x" -> Numeral(16, args.x)
    [] OTHER -> <<c>>
StandsFor(c, escaped, args) ==
  IF escaped THEN Conversion(c, args) ELSE IF c = "%" THEN <<>> ELSE <<c>>
Expansion(format, args) ==
  LET x[i \in 0 .. Len(format)] ==
        IF i = 0 THEN <<>>
        ELSE x[i - 1] \o StandsFor(format[i], Escaped(format)[i], args)
  IN x
Expanded(format, args) == Expansion(format, args)[Len(format)]

(* The number that a numeral is read as, after each digit; and the numeral *)
(* of a number: it is read as that number, and begins with 0 only for 0.   *)
DigitValue(c) == CHOOSE d \in 0 .. 15 : DigitCharacters[d + 1] = c
Values(base, s) ==
  LET v[i \in 0 .. Len(s)] ==
        IF i = 0 THEN 0 ELSE base * v[i - 1] + DigitValue(s[i])
  IN v
IsNumeral(base, s, num) ==
  /\ Values(base, s)[Len(s)] = num
  /\ s[1] = "0" => num = 0

=============================================================================
