------------------------------ MODULE Console ------------------------------
(***************************************************************************)
(* The text console of x86_64/print.c, and the kernel's string functions   *)
(* applied to the text that is printed.                                    *)
(*                                                                         *)
(* A cell holds a character; colours are left out.  The buffer has one     *)
(* cell more than the screen, for the wrap test of print_char lets a       *)
(* character be written behind the last column.                            *)
(*                                                                         *)
(* print_char is one step.  Where it is not (special_key prints in the     *)
(* keyboard's interrupt, while run_setup_wizard may be printing with       *)
(* interrupts enabled) a character may be written over another one; that   *)
(* is outside.                                                             *)
(***************************************************************************)
EXTENDS Paths

CONSTANTS
  NUM_COLS,   (* columns of the screen (80)                                *)
  NUM_ROWS,   (* rows of the screen (25)                                   *)
  Characters, (* what is printed; "\n" ends a line                         *)
  TextLimit,  (* bound: characters printed                                 *)
  Numbers     (* bound: numbers that are printed                           *)

ASSUME ScreenAssumption ==
  NUM_COLS \in Nat \ {0} /\ NUM_ROWS \in Nat \ {0} /\ TextLimit \in Nat

(* An int that can be negated. *)
ASSUME NumbersAssumption ==
  \A n \in Numbers : n \in Int /\ n >= -2147483647 /\ n <= 2147483647

(* print_str and the string functions stop at the terminator. *)
ASSUME CharactersAssumption == NUL \notin Characters

VARIABLES
  buffer,    (* the cells, from 0                                          *)
  row, col,  (* the cursor                                                 *)
  text       (* ghost: what was printed, blanks where it was cleared       *)

consoleVars == <<buffer, row, col, text>>

Blank == " "
Behind == NUM_COLS * NUM_ROWS  (* the cell behind the screen               *)

ConsoleInit ==
  /\ buffer = [i \in 0 .. Behind |-> Blank]
  /\ row = 0 /\ col = 0
  /\ text = <<>>

(* Mutant of ScrolledUp: the last row is not cleared. *)
ScrolledUpOnly(b) ==
  [i \in DOMAIN b |-> IF i < NUM_COLS * (NUM_ROWS - 1) THEN b[i + NUM_COLS] ELSE b[i]]

(* Every row moves up by one; clear_row of the last one. *)
ScrolledUp(b) ==
  [i \in DOMAIN b |-> IF i < NUM_COLS * (NUM_ROWS - 1) THEN b[i + NUM_COLS]
                      ELSE IF i < Behind THEN Blank ELSE b[i]]

(* The screen after print_newline. *)
Screen(b, r, c) == [buffer |-> b, row |-> r, col |-> c]
Newline(s) ==
  IF s.row < NUM_ROWS - 1 THEN Screen(s.buffer, s.row + 1, 0)
  ELSE Screen(ScrolledUp(s.buffer), s.row, 0)

Put(s, c) ==
  Screen([s.buffer EXCEPT ![s.col + NUM_COLS * s.row] = c], s.row, s.col + 1)

print_char(c) ==
  LET s == Screen(buffer, row, col)
      after == IF c = "\n" THEN Newline(s)
               ELSE IF col > NUM_COLS THEN Put(Newline(s), c)
               ELSE Put(s, c)
  IN /\ Len(text) < TextLimit
     /\ buffer' = after.buffer /\ row' = after.row /\ col' = after.col
     /\ text' = Append(text, c)

(* The cursor stays where it is. *)
print_clear ==
  /\ buffer' = [i \in DOMAIN buffer |-> IF i < Behind THEN Blank ELSE buffer[i]]
  /\ text' = [i \in DOMAIN text |-> IF text[i] = "\n" THEN "\n" ELSE Blank]
  /\ UNCHANGED <<row, col>>

ConsoleNext == print_clear \/ \E c \in Characters : print_char(c)

ConsoleSpec == ConsoleInit /\ [][ConsoleNext]_consoleVars

-----------------------------------------------------------------------------
(* Properties.                                                             *)

(* The lines of a text, after each character; the last may be empty. *)
NextLines(ls, c) ==
  IF c = "\n" THEN Append(ls, <<>>) ELSE [ls EXCEPT ![Len(ls)] = Append(@, c)]
Breaking(t) ==
  LET f[i \in 0 .. Len(t)] ==
        IF i = 0 THEN << <<>> >> ELSE NextLines(f[i - 1], t[i])
  IN f
Lines == Breaking(text)[Len(text)]
LinesFit == \A l \in Range(Lines) : Len(l) <= NUM_COLS

(* As long as no line is longer than the screen is wide the screen shows    *)
(* the last lines of the text, through any number of scrolls and            *)
(* print_clears, and nothing is written behind it.  (A longer line loses    *)
(* the character behind the last column to the next line, or writes it      *)
(* behind the screen.)                                                      *)
ShowsText ==
  LinesFit =>
    LET first == IF Len(Lines) > NUM_ROWS THEN Len(Lines) - NUM_ROWS ELSE 0
        shown(r) == IF first + r + 1 <= Len(Lines) THEN Lines[first + r + 1] ELSE <<>>
    IN /\ \A r \in 0 .. NUM_ROWS - 1, c \in 0 .. NUM_COLS - 1 :
            buffer[c + NUM_COLS * r] = IF c < Len(shown(r)) THEN shown(r)[c + 1] ELSE Blank
       /\ buffer[Behind] = Blank

(* What vfs_normalize_path makes of an absolute path that its buffer has    *)
(* room for.  It follows "." and ".." as it should where no ".." comes      *)
(* right after one of them ("/a/b/../.." becomes "/a/", since the first     *)
(* ".." leaves a slash too many; relative paths may become absolute ones).  *)
(* Every slash of the result is followed by a name, and so none is doubled  *)
(* or at the end, if the path has no "." and ".." and does not begin with   *)
(* two slashes ("//a", "/./a" and "/a/../b" keep a double slash, "/a/." one *)
(* at the end).                                                             *)
Tidy(path) ==
  path = <<"/">> \/ \A i \in 1 .. Len(path) : path[i] = "/" => At(path, i + 1) \notin {"/", NUL}
NormalisesAbsolute ==
  LET names == Components(text)
      norm == vfs_normalize_path(text)
  IN Len(text) < MAX_PATH_LEN /\ At(text, 1) = "/" =>
       /\ (\A i \in 2 .. Len(names) : names[i] = DotDot => names[i - 1] \notin {Dot, DotDot})
            => Components(norm) = Resolved(text)
       /\ At(text, 2) # "/" /\ (\A i \in 1 .. Len(names) : names[i] \notin {Dot, DotDot})
            => Tidy(norm)

(* vfs_normalize_path never writes to a place it has not read yet, so that  *)
(* vfs_lookup may normalize the path that vfs_mkdir has normalized, in the  *)
(* same buffer, and neither it nor its terminator leaves the buffer when    *)
(* the path would fit; and the name that vfs_mkdir reads behind it          *)
(* afterwards is still the last component, unless the parent is the root:   *)
(* then the root's slash and terminator have been written over the name.    *)
NormalisesInPlace ==
  LET norm == vfs_normalize_path(text) IN
  Len(text) < MAX_PATH_LEN =>
    /\ \A s \in Range(Rounds(text)) : Len(s.np) < s.pp /\ Len(s.np) < MAX_PATH_LEN
    /\ Len(norm) < MAX_PATH_LEN
    /\ LastSlash(norm) > 1 => MkdirName(text) = SubSeq(norm, LastSlash(norm) + 1, Len(norm))

(* memmove moves its bytes as they were when source and destination         *)
(* overlap, and memcpy does when the destination begins before the source.  *)
MovesOverlapping ==
  \A n \in 2 .. Len(text) : \A dest, src \in 1 .. Len(text) - n + 1 :
    dest # src /\ dest - src \in 1 - n .. n - 1 =>
      /\ memmove(text, dest, src, n) = Moved(text, dest, src, n)
      /\ dest < src => memcpy(text, dest, src, n) = Moved(text, dest, src, n)

(* vsnprintf fills its buffer up to the byte for the terminator and no      *)
(* further, with the beginning of what the format stands for, whether the   *)
(* end of the buffer comes in a string, behind a sign or among the digits   *)
(* of a number, and returns how many characters it has written; and the     *)
(* digits it writes are those of the number.  (Callers that want the length *)
(* of the whole expansion do not get it.)                                   *)
FormatsWithinSize ==
  Complete(text) =>
    \A num \in Numbers :
      LET unsigned == IF num < 0 THEN -num ELSE num
          args == [s |-> <<"a", "b">>, d |-> num, x |-> unsigned]
          all == Expanded(text, args)
      IN /\ \A size \in 0 .. 4 :
              vsnprintf(size, text, args)
                = IF size = 0 THEN Printing(<<>>, 0)
                  ELSE Printing(Append(Clipped(all, size - 1), NUL), Len(Clipped(all, size - 1)))
         /\ \A base \in {10, 16} : IsNumeral(base, Numeral(base, unsigned), unsigned)

=============================================================================
