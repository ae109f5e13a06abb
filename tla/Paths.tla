------------------------------- MODULE Paths -------------------------------
(***************************************************************************)
(* vfs_normalize_path of kernel/fs.c, and what vfs_mkdir does with its     *)
(* result.  A path is a sequence of characters without its terminator.     *)
(***************************************************************************)
EXTENDS Strings

CONSTANT MAX_PATH_LEN  (* bytes of the buffer for the normalized path (256) *)

ASSUME PathAssumption == MAX_PATH_LEN \in Nat /\ MAX_PATH_LEN >= 2

At(s, i) == IF i \in 1 .. Len(s) THEN s[i] ELSE NUL

(* The first index from i on at which Test holds; the terminator ends it. *)
FirstFrom(s, i, Test(_)) ==
  CHOOSE j \in i .. Len(s) + 1 :
    (j > Len(s) \/ Test(s[j])) /\ \A k \in i .. j - 1 : ~Test(s[k])

(* Where the path is read, and what has been written. *)
Scan(pp, np) == [pp |-> pp, np |-> np]

(* strrchr(s, '/'), 0 if there is none. *)
LastSlash(s) == SelectLastInSeq(s, LAMBDA c : c = "/")

(* Mutant of DropComponent: the slash behind the component is not skipped. *)
DropNothing(np) == IF Len(np) > 1 THEN SubSeq(np, 1, LastSlash(np)) ELSE np

(* "..": back over the last character written, then to behind a slash. *)
DropComponent(np) ==
  IF Len(np) > 1 THEN SubSeq(np, 1, LastSlash(Front(np))) ELSE np

DotAt(path, i) == path[i] = "." /\ At(path, i + 1) \in {"/", NUL}
DotDotAt(path, i) ==
  path[i] = "." /\ At(path, i + 1) = "." /\ At(path, i + 2) \in {"/", NUL}

(* Mutant of SlashAt: the slash is written before it is known to be needed *)
(* and once more for the component that follows.                           *)
DoubleSlash(path, s) ==
  LET end == FirstFrom(path, s.pp, LAMBDA c : c # "/")
  IN Scan(end, IF end <= Len(path) THEN s.np \o <<"/", "/">> ELSE Append(s.np, "/"))

(* A run of slashes becomes one, none at the end of the path. *)
SlashAt(path, s) ==
  LET end == FirstFrom(path, s.pp, LAMBDA c : c # "/")
  IN Scan(end, IF end <= Len(path) THEN Append(s.np, "/") ELSE s.np)

(* One round of the main loop. *)
Round(path, s) ==
  IF s.pp > Len(path) THEN s
  ELSE IF path[s.pp] = "/" THEN SlashAt(path, s)
  ELSE IF DotAt(path, s.pp) THEN Scan(s.pp + 1, s.np)
  ELSE IF DotDotAt(path, s.pp) THEN Scan(s.pp + 2, DropComponent(s.np))
  ELSE LET end == FirstFrom(path, s.pp, LAMBDA c : c = "/")
       IN Scan(end, s.np \o SubSeq(path, s.pp, end - 1))

(* The scan after 0, 1, 2, ... rounds; each round reads a character. *)
Rounds(path) ==
  LET f[k \in 0 .. Len(path)] ==
        IF k > 0 THEN Round(path, f[k - 1])
        ELSE IF At(path, 1) = "/" THEN Scan(2, <<"/">>) ELSE Scan(1, <<>>)
  IN f

(* The path must be shorter than the buffer: a longer one is written on    *)
(* behind it, for no write is checked against its end.                     *)
vfs_normalize_path(path) ==
  LET np == Rounds(path)[Len(path)].np IN IF np = <<>> THEN <<"/">> ELSE np

(* The buffer after the string s and its terminator were written over it. *)
Overwritten(buffer, s) ==
  [i \in DOMAIN buffer |-> IF i <= Len(s) THEN s[i]
                           ELSE IF i = Len(s) + 1 THEN NUL ELSE buffer[i]]
StringAt(buffer, i) ==
  SubSeq(buffer, i, FirstFrom(buffer, i, LAMBDA c : c = NUL) - 1)

(* The name that vfs_mkdir hands to the file system: it cuts the normalized *)
(* path at its last slash, and reads the name behind it only after          *)
(* vfs_lookup has normalized the parent's path in the same buffer.          *)
MkdirParent(path) ==
  LET norm == vfs_normalize_path(path) IN SubSeq(norm, 1, LastSlash(norm) - 1)
MkdirName(path) ==
  LET norm == vfs_normalize_path(path)
      cut == Append([norm EXCEPT ![LastSlash(norm)] = NUL], NUL)
      after == Overwritten(cut, vfs_normalize_path(MkdirParent(path)))
  IN StringAt(after, LastSlash(norm) + 1)

-----------------------------------------------------------------------------
(* What a path means.                                                      *)

(* The names between the slashes: the ones that have ended, and the one    *)
(* that is being read, after each character.                               *)
Reader(names, name) == [names |-> names, name |-> name]
Ended(r) == IF r.name = <<>> THEN r.names ELSE Append(r.names, r.name)
Take(r, c) ==
  IF c = "/" THEN Reader(Ended(r), <<>>) ELSE Reader(r.names, Append(r.name, c))
Reading(path) ==
  LET f[i \in 0 .. Len(path)] ==
        IF i = 0 THEN Reader(<<>>, <<>>) ELSE Take(f[i - 1], path[i])
  IN f
Components(path) == Ended(Reading(path)[Len(path)])

Dot == <<".">>
DotDot == <<".", ".">>

(* The names that are left when "." and ".." have been followed. *)
Follow(names, name) ==
  CASE name = Dot -> names
    [] name = DotDot -> IF names = <<>> THEN names ELSE Front(names)
    [] OTHER -> Append(names, name)
Following(names) ==
  LET f[i \in 0 .. Len(names)] ==
        IF i = 0 THEN <<>> ELSE Follow(f[i - 1], names[i])
  IN f
Resolved(path) == LET names == Components(path) IN Following(names)[Len(names)]

=============================================================================
