------------------------ MODULE WindowManagerProofs ------------------------
(***************************************************************************)
(* Proofs about WindowManager, for every number of windows and addresses,  *)
(* every screen and every position of the mouse.                           *)
(***************************************************************************)
EXTENDS WindowManager, TLAPS, SequenceTheorems, FiniteSetTheorems, WellFoundedInduction

(* What can lie at an address. *)
Cell == {FREE} \cup Window \cup Buffer

Listed == ToSet(windows)

(* Every content is a buffer, and every buffer the content of one window.  *)
OwnersOf(b) == {w \in Listed : mem[w].content = b}
ContentsAreBuffers ==
  \A w \in Listed : mem[w].content # NULL => mem[mem[w].content].kind = "buffer"
OneOwner ==
  \A b \in Addrs : mem[b].kind = "buffer" => \E w \in Listed : OwnersOf(b) = {w}

Inv ==
  /\ mem \in [Addrs -> Cell]
  /\ windows \in Seq(Addrs) /\ Len(windows) <= MAX_WINDOWS
  /\ dragging_window \in Addrs \cup {NULL} /\ drag_offset \in Int \X Int
  /\ ListHoldsWindows /\ ActiveIsTopmost /\ ContentsAreBuffers /\ OneOwner

-----------------------------------------------------------------------------
(* Lists.                                                                  *)

(* The elements of a list are those at its positions. *)
LEMMA Positions ==
  ASSUME NEW S, NEW s \in Seq(S)
  PROVE  /\ DOMAIN s = 1 .. Len(s) /\ Len(s) \in Nat
         /\ ToSet(s) = {s[i] : i \in 1 .. Len(s)}
         /\ ToSet(s) \subseteq S
         /\ IsInjective(s) <=> \A i, j \in 1 .. Len(s) : s[i] = s[j] => i = j
<1>1. DOMAIN s = 1 .. Len(s) /\ Len(s) \in Nat
  BY LenProperties
<1>2. ToSet(s) = {s[i] : i \in 1 .. Len(s)}
  BY <1>1 DEF ToSet
<1>3. \A i \in 1 .. Len(s) : s[i] \in S
  BY ElementOfSeq
<1> QED
  BY <1>1, <1>2, <1>3 DEF IsInjective

(* The loop that takes a window out of the list. *)
LEMMA RemoveShape ==
  ASSUME NEW S, NEW s \in Seq(S), IsInjective(s), NEW i \in 1 .. Len(s), NEW e, s[i] = e
  PROVE  /\ RemoveFirst(s, e) \in Seq(S) /\ Len(RemoveFirst(s, e)) = Len(s) - 1
         /\ \A k \in 1 .. Len(s) - 1 : RemoveFirst(s, e)[k] = IF k < i THEN s[k] ELSE s[k + 1]
<1>1. Len(s) \in Nat /\ \A j \in 1 .. Len(s) : s[j] = e => j = i
  BY Positions
<1>2. {j \in 1 .. Len(s) : s[j] = e} = {i}
  BY <1>1
<1>3. Min({i}) = i
  <2>1. i \in {i} /\ \A y \in {i} : i <= y
    OBVIOUS
  <2>2. Min({i}) \in {i}
    BY <2>1 DEF Min
  <2> QED
    BY <2>2
<1>4. SelectInSeq(s, LAMBDA v : v = e) = i
  BY <1>2, <1>3 DEF SelectInSeq
<1>5. RemoveFirst(s, e) = SubSeq(s, 1, i - 1) \o SubSeq(s, i + 1, Len(s))
  BY <1>4 DEF RemoveFirst, RemoveAt
<1> DEFINE p == SubSeq(s, 1, i - 1)
           q == SubSeq(s, i + 1, Len(s))
<1>6. p \in Seq(S) /\ Len(p) = i - 1 /\ \A k \in 1 .. i - 1 : p[k] = s[k]
  BY <1>1, SubSeqProperties
<1>7. q \in Seq(S) /\ Len(q) = Len(s) - i /\ \A k \in 1 .. Len(s) - i : q[k] = s[i + k]
  BY <1>1, SubSeqProperties
<1> HIDE DEF p, q
<1>8. /\ p \o q \in Seq(S) /\ Len(p \o q) = Len(s) - 1
      /\ \A k \in 1 .. Len(s) - 1 : (p \o q)[k] = IF k <= i - 1 THEN p[k] ELSE q[k - (i - 1)]
  <2>1. /\ p \o q \in Seq(S) /\ Len(p \o q) = Len(p) + Len(q)
        /\ \A k \in 1 .. Len(p) + Len(q) :
             (p \o q)[k] = IF k <= Len(p) THEN p[k] ELSE q[k - Len(p)]
    BY <1>6, <1>7, ConcatProperties
  <2>2. Len(p) + Len(q) = Len(s) - 1
    BY <1>1, <1>6, <1>7
  <2> QED
    BY <1>6, <2>1, <2>2
<1>9. ASSUME NEW k \in 1 .. Len(s) - 1
      PROVE  (p \o q)[k] = IF k < i THEN s[k] ELSE s[k + 1]
  <2>1. CASE k < i
    BY <1>1, <1>6, <1>8, <2>1
  <2>2. CASE ~(k < i)
    <3>1. k - (i - 1) \in 1 .. Len(s) - i /\ i + (k - (i - 1)) = k + 1 /\ ~(k <= i - 1)
      BY <1>1, <2>2
    <3> QED
      BY <1>7, <1>8, <2>2, <3>1
  <2> QED
    BY <2>1, <2>2
<1> QED
  BY <1>5, <1>8, <1>9 DEF p, q

(* The list without one of its elements. *)
LEMMA RemoveFacts ==
  ASSUME NEW S, NEW s \in Seq(S), IsInjective(s), NEW e \in ToSet(s)
  PROVE  /\ RemoveFirst(s, e) \in Seq(S) /\ Len(RemoveFirst(s, e)) = Len(s) - 1
         /\ IsInjective(RemoveFirst(s, e))
         /\ ToSet(RemoveFirst(s, e)) = ToSet(s) \ {e}
         /\ Last(s) # e => TopOf(RemoveFirst(s, e)) = Last(s)
<1> DEFINE r == RemoveFirst(s, e)
<1>1. PICK i \in 1 .. Len(s) : s[i] = e
  BY Positions
<1>2. /\ r \in Seq(S) /\ Len(r) = Len(s) - 1
      /\ \A k \in 1 .. Len(s) - 1 : r[k] = IF k < i THEN s[k] ELSE s[k + 1]
  BY <1>1, RemoveShape
<1>3. Len(s) \in Nat /\ \A j, k \in 1 .. Len(s) : s[j] = s[k] => j = k
  BY Positions
<1> HIDE DEF r
<1>4. \A k \in 1 .. Len(r) : \E j \in 1 .. Len(s) :
        r[k] = s[j] /\ j # i /\ j = IF k < i THEN k ELSE k + 1
  BY <1>2, <1>3
<1>5. ASSUME NEW j \in 1 .. Len(s), j # i
      PROVE  \E k \in 1 .. Len(r) : r[k] = s[j]
  <2>1. CASE j < i
    <3>1. j \in 1 .. Len(r) /\ r[j] = s[j]
      BY <1>2, <1>3, <2>1
    <3> QED
      BY <3>1
  <2>2. CASE j > i
    <3>1. j - 1 \in 1 .. Len(r) /\ r[j - 1] = s[j]
      BY <1>2, <1>3, <2>2
    <3> QED
      BY <3>1
  <2> QED
    BY <1>3, <1>5, <2>1, <2>2
<1>6. IsInjective(r)
  <2> SUFFICES ASSUME NEW k \in 1 .. Len(r), NEW l \in 1 .. Len(r), r[k] = r[l]
               PROVE  k = l
    BY <1>2, Positions
  <2> QED
    BY <1>2, <1>3, <1>4
<1>7. ToSet(r) = ToSet(s) \ {e}
  <2>1. ToSet(r) = {r[k] : k \in 1 .. Len(r)} /\ ToSet(s) = {s[j] : j \in 1 .. Len(s)}
    BY <1>2, Positions
  <2>2. ASSUME NEW x \in ToSet(r) PROVE x \in ToSet(s) \ {e}
    BY <1>1, <1>3, <1>4, <2>1
  <2>3. ASSUME NEW x \in ToSet(s) \ {e} PROVE x \in ToSet(r)
    BY <1>1, <1>5, <2>1
  <2> QED
    BY <2>2, <2>3
<1>8. ASSUME Last(s) # e PROVE TopOf(r) = Last(s)
  <2>1. i # Len(s) /\ Len(s) > 0
    BY <1>1, <1>3, <1>8 DEF Last
  <2>2. Len(r) \in 1 .. Len(s) - 1 /\ ~(Len(r) < i) /\ Len(r) + 1 = Len(s)
    BY <1>2, <1>3, <2>1
  <2>3. r[Len(r)] = s[Len(s)]
    BY <1>2, <2>2
  <2>4. r # <<>>
    BY <1>2, <2>2, EmptySeq
  <2> QED
    BY <2>3, <2>4 DEF TopOf, Last
<1> QED
  BY <1>2, <1>6, <1>7, <1>8 DEF r

(* A new element at the end. *)
LEMMA AppendFacts ==
  ASSUME NEW S, NEW s \in Seq(S), IsInjective(s), NEW e \in S, e \notin ToSet(s)
  PROVE  /\ Append(s, e) \in Seq(S) /\ Len(Append(s, e)) = Len(s) + 1
         /\ \A k \in 1 .. Len(s) : Append(s, e)[k] = s[k]
         /\ Append(s, e)[Len(s) + 1] = e
         /\ IsInjective(Append(s, e)) /\ ToSet(Append(s, e)) = ToSet(s) \cup {e}
         /\ TopOf(Append(s, e)) = e
<1> DEFINE r == Append(s, e)
<1>1. /\ r \in Seq(S) /\ Len(r) = Len(s) + 1 /\ \A k \in 1 .. Len(s) : r[k] = s[k]
      /\ r[Len(s) + 1] = e /\ Len(s) \in Nat
  BY AppendProperties, LenProperties
<1>2. ToSet(s) = {s[j] : j \in 1 .. Len(s)} /\ \A j, k \in 1 .. Len(s) : s[j] = s[k] => j = k
  BY Positions
<1> HIDE DEF r
<1>3. ToSet(r) = {r[k] : k \in 1 .. Len(r)}
  BY <1>1, Positions
<1>4. \A k \in 1 .. Len(r) : k = Len(s) + 1 \/ k \in 1 .. Len(s)
  BY <1>1
<1>5. ToSet(r) = ToSet(s) \cup {e}
  <2>1. Len(s) + 1 \in 1 .. Len(r) /\ \A k \in 1 .. Len(s) : k \in 1 .. Len(r)
    BY <1>1
  <2> QED
    BY <1>1, <1>2, <1>3, <1>4, <2>1
<1>6. IsInjective(r)
  <2> SUFFICES ASSUME NEW k \in 1 .. Len(r), NEW l \in 1 .. Len(r), r[k] = r[l]
               PROVE  k = l
    BY <1>1, Positions
  <2> QED
    BY <1>1, <1>2, <1>4
<1>7. TopOf(r) = e
  <2>1. r # <<>>
    BY <1>1, EmptySeq
  <2> QED
    BY <1>1, <2>1 DEF TopOf, Last
<1> QED
  BY <1>1, <1>5, <1>6, <1>7 DEF r

(* window_bring_to_front *)
LEMMA FrontFacts ==
  ASSUME NEW S, NEW s \in Seq(S), IsInjective(s), NEW e \in ToSet(s)
  PROVE  /\ ToFront(s, e) = Append(RemoveFirst(s, e), e)
         /\ ToFront(s, e) \in Seq(S) /\ Len(ToFront(s, e)) = Len(s)
         /\ IsInjective(ToFront(s, e)) /\ ToSet(ToFront(s, e)) = ToSet(s)
         /\ TopOf(ToFront(s, e)) = e
<1>1. Contains(s, e)
  BY Positions DEF Contains
<1>2. ToFront(s, e) = Append(RemoveFirst(s, e), e)
  BY <1>1 DEF ToFront
<1>3. /\ RemoveFirst(s, e) \in Seq(S) /\ Len(RemoveFirst(s, e)) = Len(s) - 1
      /\ IsInjective(RemoveFirst(s, e)) /\ ToSet(RemoveFirst(s, e)) = ToSet(s) \ {e}
  BY RemoveFacts
<1>4. e \in S /\ Len(s) \in Nat
  BY Positions
<1>5. e \notin ToSet(RemoveFirst(s, e))
  BY <1>3
<1> DEFINE r == RemoveFirst(s, e)
<1> HIDE DEF r
<1>6. /\ Append(r, e) \in Seq(S) /\ Len(Append(r, e)) = Len(r) + 1
      /\ IsInjective(Append(r, e)) /\ ToSet(Append(r, e)) = ToSet(r) \cup {e}
      /\ TopOf(Append(r, e)) = e
  BY <1>3, <1>4, <1>5, AppendFacts DEF r
<1> QED
  BY <1>2, <1>3, <1>4, <1>6 DEF r

(* Taking out the last element. *)
LEMMA AppendRemove ==
  ASSUME NEW S, NEW s \in Seq(S), IsInjective(s), NEW e \in S, e \notin ToSet(s)
  PROVE  RemoveFirst(Append(s, e), e) = s /\ ToFront(Append(s, e), e) = Append(s, e)
<1> DEFINE r == Append(s, e)
           t == RemoveFirst(r, e)
<1>1. /\ r \in Seq(S) /\ Len(r) = Len(s) + 1 /\ IsInjective(r)
      /\ \A k \in 1 .. Len(s) : r[k] = s[k]
      /\ r[Len(s) + 1] = e /\ ToSet(r) = ToSet(s) \cup {e}
  BY AppendFacts
<1>2. Len(s) \in Nat
  BY LenProperties
<1> HIDE DEF r
<1>3. PICK i \in 1 .. Len(r) : r[i] = e /\ i = Len(r)
  BY <1>1, <1>2
<1>4. /\ t \in Seq(S) /\ Len(t) = Len(r) - 1
      /\ \A k \in 1 .. Len(r) - 1 : t[k] = IF k < i THEN r[k] ELSE r[k + 1]
  <2>1. r \in Seq(S) /\ IsInjective(r) /\ i \in 1 .. Len(r) /\ r[i] = e
    BY <1>1, <1>3
  <2> QED
    BY <2>1, RemoveShape, Zenon
<1> HIDE DEF t
<1>5. Len(t) = Len(s) /\ \A k \in 1 .. Len(s) : t[k] = s[k]
  BY <1>1, <1>2, <1>3, <1>4
<1>6. t = s
  BY <1>4, <1>5, SeqEqual
<1>7. ToFront(r, e) = Append(t, e)
  BY <1>1, FrontFacts DEF t
<1> QED
  BY <1>6, <1>7 DEF r, t

(* Bringing an element to the end does not matter when it is taken out. *)
LEMMA FrontRemove ==
  ASSUME NEW S, NEW s \in Seq(S), IsInjective(s), NEW e \in ToSet(s)
  PROVE  RemoveFirst(ToFront(s, e), e) = RemoveFirst(s, e)
<1> DEFINE r == RemoveFirst(s, e)
<1>1. r \in Seq(S) /\ IsInjective(r) /\ ToSet(r) = ToSet(s) \ {e} /\ e \in S
  BY RemoveFacts, Positions
<1>2. ToFront(s, e) = Append(r, e)
  BY FrontFacts
<1> HIDE DEF r
<1>3. RemoveFirst(Append(r, e), e) = r
  BY <1>1, AppendRemove
<1> QED
  BY <1>2, <1>3 DEF r

-----------------------------------------------------------------------------
(* Memory.                                                                 *)

(* The kinds of objects. *)
LEMMA CellKinds ==
  ASSUME NEW c \in Cell
  PROVE  /\ c.kind \in {"free", "window", "buffer"}
         /\ c.kind = "free" <=> c = FREE
         /\ c.kind = "window" <=> c \in Window
         /\ c.kind = "buffer" <=> c \in Buffer
         /\ c \in Window => c.content \in Addrs \cup {NULL}
<1>1. CASE c = FREE
  BY <1>1 DEF FREE, Window, Buffer
<1>2. CASE c \in Window
  BY <1>2 DEF FREE, Window, Buffer
<1>3. CASE c \in Buffer
  BY <1>3 DEF FREE, Window, Buffer
<1> QED
  BY <1>1, <1>2, <1>3 DEF Cell

(* The objects that malloc returns. *)
LEMMA NewCells ==
  /\ FREE \in Cell /\ FREE.kind = "free"
  /\ NewBuffer \in Cell /\ NewBuffer.kind = "buffer"
  /\ \A s \in Shapes, b \in Addrs \cup {NULL} :
       NewWindow(s, b) \in Cell /\ NewWindow(s, b).kind = "window"
       /\ NewWindow(s, b).content = b
<1>1. FREE \in Cell /\ FREE.kind = "free"
  BY DEF Cell, FREE
<1>2. NewBuffer \in Cell /\ NewBuffer.kind = "buffer"
  BY ScreenAssumption DEF Cell, NewBuffer, Buffer
<1>3. ASSUME NEW s \in Shapes, NEW b \in Addrs \cup {NULL}
      PROVE  NewWindow(s, b) \in Cell /\ NewWindow(s, b).kind = "window"
             /\ NewWindow(s, b).content = b
  <2>1. s[1] \in 0 .. COORD - 1 /\ s[2] \in 0 .. COORD - 1 /\ s[3] \in 0 .. COORD - 1
        /\ s[4] \in 0 .. COORD - 1
    BY ScreenAssumption
  <2> QED
    BY <2>1 DEF Cell, NewWindow, Window, Flags
<1> QED
  BY <1>1, <1>2, <1>3

(* What the invariant says of an address. *)
LEMMA Holds ==
  ASSUME Inv
  PROVE  /\ Listed = {a \in Addrs : mem[a].kind = "window"}
         /\ NULL \notin Addrs
         /\ \A a \in Addrs : mem[a] \in Cell
         /\ \A w \in Listed : /\ w \in Addrs /\ mem[w] \in Window
                              /\ mem[w].content \in Addrs \cup {NULL}
<1>1. Listed = {a \in Addrs : mem[a].kind = "window"} /\ NULL \notin Addrs
      /\ \A a \in Addrs : mem[a] \in Cell
  BY ScreenAssumption DEF Inv, ListHoldsWindows, IsWindow, Listed
<1> QED
  BY <1>1, CellKinds

(* The first and the second state have the same windows and buffers. *)
LEMMA SameKinds ==
  ASSUME Inv, mem' \in [Addrs -> Cell],
         \A a \in Addrs : mem'[a].kind = mem[a].kind,
         \A w \in Listed : mem'[w].content = mem[w].content,
         Listed' = Listed
  PROVE  /\ Listed' = {a \in Addrs : mem'[a].kind = "window"}
         /\ ContentsAreBuffers' /\ OneOwner'
<1>1. Listed' = {a \in Addrs : mem'[a].kind = "window"}
  BY Holds
<1>2. ContentsAreBuffers'
  <2> SUFFICES ASSUME NEW w \in Listed, mem'[w].content # NULL
               PROVE  mem'[mem'[w].content].kind = "buffer"
    BY DEF ContentsAreBuffers
  <2>1. mem[w].content \in Addrs /\ mem[mem[w].content].kind = "buffer"
    BY Holds DEF Inv, ContentsAreBuffers
  <2> QED
    BY <2>1
<1>3. OneOwner'
  <2> SUFFICES ASSUME NEW b \in Addrs, mem'[b].kind = "buffer"
               PROVE  \E w \in Listed : {v \in Listed : mem'[v].content = b} = {w}
    BY DEF OneOwner, OwnersOf
  <2>1. PICK w \in Listed : {v \in Listed : mem[v].content = b} = {w}
    BY DEF Inv, OneOwner, OwnersOf
  <2> QED
    BY <2>1
<1> QED
  BY <1>1, <1>2, <1>3

(* window_destroy frees a window and its buffer. *)
LEMMA ReleaseMem ==
  ASSUME Inv, NEW w \in Listed, mem' = Released(mem, w), Listed' = Listed \ {w}
  PROVE  /\ mem' \in [Addrs -> Cell]
         /\ Listed' = {a \in Addrs : mem'[a].kind = "window"}
         /\ ContentsAreBuffers' /\ OneOwner'
<1> DEFINE c == mem[w].content
<1>1. /\ w \in Addrs /\ mem[w].kind = "window" /\ c \in Addrs \cup {NULL}
      /\ c # NULL => mem[c].kind = "buffer" /\ c # w
  BY Holds DEF Inv, ContentsAreBuffers
<1>2. \A a \in Addrs : mem'[a] = IF a \in {w, c} THEN FREE ELSE mem[a]
  BY DEF Released
<1>3. mem' \in [Addrs -> Cell]
  BY Holds, NewCells DEF Released
<1> HIDE DEF c
<1>4. \A v \in Listed : v # w => v \in Addrs /\ v # c /\ mem'[v] = mem[v]
  BY <1>1, <1>2, Holds
<1>5. Listed' = {a \in Addrs : mem'[a].kind = "window"}
  <2>1. ASSUME NEW a \in Addrs
        PROVE  mem'[a].kind = "window" <=> a # w /\ mem[a].kind = "window"
    <3>1. CASE a \in {w, c}
      <4>1. mem'[a].kind = "free"
        BY <1>2, <3>1, NewCells
      <4>2. a = w \/ mem[a].kind = "buffer"
        BY <1>1, <3>1, ScreenAssumption
      <4> QED
        BY <4>1, <4>2
    <3>2. CASE a \notin {w, c}
      BY <1>2, <3>2
    <3> QED
      BY <3>1, <3>2
  <2> QED
    BY <2>1, Holds
<1>6. ASSUME NEW v \in Listed, v # w, mem[v].content # NULL
      PROVE  mem[v].content \notin {w, c}
  <2>1. mem[v].content \in Addrs /\ mem[mem[v].content].kind = "buffer"
    BY <1>6, Holds DEF Inv, ContentsAreBuffers
  <2>2. CASE mem[v].content = c
    <3>1. PICK x \in Listed : {u \in Listed : mem[u].content = c} = {x}
      BY <2>1, <2>2 DEF Inv, OneOwner, OwnersOf
    <3>2. v \in {x} /\ w \in {x}
      BY <2>2, <3>1 DEF c
    <3> QED
      BY <1>6, <3>2
  <2> QED
    BY <1>1, <2>1, <2>2
<1>7. ContentsAreBuffers'
  <2> SUFFICES ASSUME NEW v \in Listed \ {w}, mem'[v].content # NULL
               PROVE  mem'[mem'[v].content].kind = "buffer"
    BY DEF ContentsAreBuffers
  <2>1. mem'[v] = mem[v] /\ mem[v].content \in Addrs /\ mem[mem[v].content].kind = "buffer"
    BY <1>4, Holds DEF Inv, ContentsAreBuffers
  <2>2. mem[v].content \notin {w, c}
    BY <1>6, <2>1
  <2> QED
    BY <1>2, <2>1, <2>2
<1>8. OneOwner'
  <2> SUFFICES ASSUME NEW b \in Addrs, mem'[b].kind = "buffer"
               PROVE  \E x \in Listed \ {w} : {v \in Listed \ {w} : mem'[v].content = b} = {x}
    BY DEF OneOwner, OwnersOf
  <2>1. b \notin {w, c} /\ mem[b].kind = "buffer"
    BY <1>2, NewCells
  <2>2. PICK x \in Listed : {v \in Listed : mem[v].content = b} = {x}
    BY <2>1 DEF Inv, OneOwner, OwnersOf
  <2>3. x # w
    BY <2>1, <2>2 DEF c
  <2>4. {v \in Listed \ {w} : mem'[v].content = b} = {x}
    BY <1>4, <2>2, <2>3
  <2> QED
    BY <2>3, <2>4
<1> QED
  BY <1>3, <1>5, <1>7, <1>8

(* window_create and window_create_terminal take free memory. *)
LEMMA AllocateMem ==
  ASSUME Inv, NEW s \in Shapes, NEW w \in Free, NEW b \in (Free \ {w}) \cup {NULL},
         mem' = [a \in Addrs |-> IF a = w THEN NewWindow(s, b)
                                 ELSE IF a = b THEN NewBuffer ELSE mem[a]],
         Listed' = Listed \cup {w}
  PROVE  /\ mem' \in [Addrs -> Cell]
         /\ Listed' = {a \in Addrs : mem'[a].kind = "window"}
         /\ ContentsAreBuffers' /\ OneOwner'
<1>1. /\ w \in Addrs /\ mem[w].kind = "free" /\ b \in Addrs \cup {NULL} /\ b # w
      /\ b # NULL => mem[b].kind = "free"
  BY NewCells, ScreenAssumption DEF Free
<1> DEFINE nw == NewWindow(s, b)
<1>2. nw \in Cell /\ nw.kind = "window" /\ nw.content = b
  BY <1>1, NewCells
<1> HIDE DEF nw
<1>3. \A a \in Addrs : mem'[a] = IF a = w THEN nw ELSE IF a = b THEN NewBuffer ELSE mem[a]
  BY DEF nw
<1>4. mem' \in [Addrs -> Cell]
  BY <1>2, Holds, NewCells DEF nw
<1>5. \A v \in Listed : v \in Addrs /\ v # w /\ v # b /\ mem'[v] = mem[v]
  BY <1>1, <1>3, Holds
<1>6. Listed' = {a \in Addrs : mem'[a].kind = "window"}
  <2>1. ASSUME NEW a \in Addrs
        PROVE  mem'[a].kind = "window" <=> a = w \/ mem[a].kind = "window"
    <3>1. CASE a = w
      BY <1>2, <1>3, <3>1
    <3>2. CASE a # w /\ a = b
      <4>1. mem'[a].kind = "buffer" /\ mem[a].kind = "free"
        BY <1>1, <1>3, <3>2, NewCells, ScreenAssumption
      <4> QED
        BY <3>2, <4>1
    <3>3. CASE a # w /\ a # b
      BY <1>3, <3>3
    <3> QED
      BY <3>1, <3>2, <3>3
  <2> QED
    BY <1>1, <2>1, Holds
<1>7. ContentsAreBuffers'
  <2> SUFFICES ASSUME NEW v \in Listed \cup {w}, mem'[v].content # NULL
               PROVE  mem'[mem'[v].content].kind = "buffer"
    BY DEF ContentsAreBuffers
  <2>1. CASE v = w
    BY <1>1, <1>2, <1>3, <2>1, NewCells
  <2>2. CASE v # w
    <3>1. v \in Listed /\ mem'[v] = mem[v] /\ mem[v].content \in Addrs
          /\ mem[mem[v].content].kind = "buffer"
      BY <1>5, <2>2, Holds DEF Inv, ContentsAreBuffers
    <3>2. mem[v].content # w /\ mem[v].content # b
      BY <1>1, <3>1, ScreenAssumption
    <3> QED
      BY <1>3, <3>1, <3>2
  <2> QED
    BY <2>1, <2>2
<1>8. OneOwner'
  <2> SUFFICES ASSUME NEW d \in Addrs, mem'[d].kind = "buffer"
               PROVE  \E x \in Listed \cup {w} :
                        {v \in Listed \cup {w} : mem'[v].content = d} = {x}
    BY DEF OneOwner, OwnersOf
  <2>1. mem'[w].content = b
    BY <1>1, <1>2, <1>3
  <2>2. CASE d = b
    <3>1. ASSUME NEW v \in Listed, mem'[v].content = d PROVE FALSE
      <4>1. mem[v].content = d /\ d # NULL
        BY <1>5, <3>1, ScreenAssumption
      <4>2. mem[d].kind = "buffer"
        BY <4>1 DEF Inv, ContentsAreBuffers
      <4> QED
        BY <1>1, <2>2, <4>1, <4>2
    <3>2. {v \in Listed \cup {w} : mem'[v].content = d} = {w}
      BY <2>1, <2>2, <3>1
    <3> QED
      BY <3>2
  <2>3. CASE d # b
    <3>1. d # w /\ mem[d].kind = "buffer"
      BY <1>2, <1>3, <2>3
    <3>2. PICK x \in Listed : {v \in Listed : mem[v].content = d} = {x}
      BY <3>1 DEF Inv, OneOwner, OwnersOf
    <3>3. {v \in Listed \cup {w} : mem'[v].content = d} = {x}
      BY <1>5, <2>1, <2>3, <3>2
    <3> QED
      BY <3>3
  <2> QED
    BY <2>2, <2>3
<1> QED
  BY <1>4, <1>6, <1>7, <1>8

-----------------------------------------------------------------------------
(* The steps.                                                              *)

(* What a step does to the list. *)
ListChange ==
  \/ windows' = windows
  \/ \E w \in Addrs \ Listed : windows' = Append(windows, w)
  \/ \E w \in Listed : windows' = RemoveFirst(windows, w)
  \/ \E w \in Listed : windows' = ToFront(windows, w)

(* What the list and the memory need for the invariant to hold afterwards. *)
LEMMA Assemble ==
  ASSUME mem' \in [Addrs -> Cell], windows' \in Seq(Addrs), Len(windows') <= MAX_WINDOWS,
         IsInjective(windows'), Listed' = {a \in Addrs : mem'[a].kind = "window"},
         active_window' = TopOf(windows'), ContentsAreBuffers', OneOwner',
         dragging_window' \in Addrs \cup {NULL}, drag_offset' \in Int \X Int
  PROVE  Inv'
<1>1. ListHoldsWindows'
  BY DEF ListHoldsWindows, Listed, IsWindow
<1>2. ActiveIsTopmost'
  BY DEF ActiveIsTopmost
<1> QED
  BY <1>1, <1>2 DEF Inv

(* The list before a step. *)
LEMMA ListFacts ==
  ASSUME Inv
  PROVE  /\ windows \in Seq(Addrs) /\ IsInjective(windows) /\ Len(windows) \in Nat
         /\ Len(windows) <= MAX_WINDOWS /\ Listed = ToSet(windows)
         /\ \A w : IsWindow(w) <=> w \in Listed
         /\ \A w \in Free : w \in Addrs /\ w \notin Listed
<1>1. windows \in Seq(Addrs) /\ IsInjective(windows) /\ Len(windows) \in Nat
  BY LenProperties DEF Inv, ListHoldsWindows
<1>2. \A w : IsWindow(w) <=> w \in Listed
  BY Holds DEF IsWindow
<1>3. \A w \in Free : w \in Addrs /\ w \notin Listed
  BY Holds, NewCells DEF Free
<1> QED
  BY <1>1, <1>2, <1>3 DEF Inv, Listed

(* A window's fields change, but not its content. *)
LEMMA FieldMem ==
  ASSUME Inv, NEW w \in Listed, NEW r \in Window, r.content = mem[w].content,
         mem' = [mem EXCEPT ![w] = r], Listed' = Listed
  PROVE  /\ mem' \in [Addrs -> Cell]
         /\ Listed' = {a \in Addrs : mem'[a].kind = "window"}
         /\ ContentsAreBuffers' /\ OneOwner'
<1>1. r \in Cell /\ r.kind = "window" /\ w \in Addrs /\ mem[w].kind = "window"
  BY Holds DEF Cell, Window
<1>2. mem' \in [Addrs -> Cell]
  BY <1>1 DEF Inv
<1>3. \A a \in Addrs : mem'[a] = IF a = w THEN r ELSE mem[a]
  BY DEF Inv
<1>4. \A a \in Addrs : mem'[a].kind = mem[a].kind
  BY <1>1, <1>3
<1>5. \A v \in Listed : mem'[v].content = mem[v].content
  BY <1>3, Holds
<1> QED
  BY <1>2, <1>4, <1>5, SameKinds

(* window_create *)
LEMMA CreateStep ==
  ASSUME Inv, NEW s \in Shapes, Create(s)
  PROVE  Inv' /\ ListChange
<1>1. PICK w \in Free :
        /\ mem' = [mem EXCEPT ![w] = NewWindow(s, NULL)]
        /\ windows' = ToFront(Append(windows, w), w)
        /\ active_window' = w
  BY DEF Create
<1>2. w \in Addrs /\ w \notin ToSet(windows) /\ windows \in Seq(Addrs) /\ IsInjective(windows)
  BY ListFacts
<1>3. windows' = Append(windows, w)
  BY <1>1, <1>2, AppendRemove
<1>4. /\ windows' \in Seq(Addrs) /\ Len(windows') = Len(windows) + 1
      /\ IsInjective(windows') /\ ToSet(windows') = ToSet(windows) \cup {w}
      /\ TopOf(windows') = w
  BY <1>2, <1>3, AppendFacts
<1>5. Listed' = Listed \cup {w}
  BY <1>4 DEF Listed
<1>6. mem' = [a \in Addrs |-> IF a = w THEN NewWindow(s, NULL)
                               ELSE IF a = NULL THEN NewBuffer ELSE mem[a]]
  BY <1>1, ScreenAssumption DEF Inv
<1>7. /\ mem' \in [Addrs -> Cell]
      /\ Listed' = {a \in Addrs : mem'[a].kind = "window"}
      /\ ContentsAreBuffers' /\ OneOwner'
  <2>1. NULL \in (Free \ {w}) \cup {NULL}
    OBVIOUS
  <2> QED
    BY <1>5, <1>6, <2>1, AllocateMem, Zenon
<1>8. Len(windows') <= MAX_WINDOWS
  BY <1>4, ListFacts, ScreenAssumption DEF Create
<1>9. Inv'
  <2>1. dragging_window' \in Addrs \cup {NULL} /\ drag_offset' \in Int \X Int
    BY DEF Inv, Create
  <2> QED
    BY <1>1, <1>4, <1>7, <1>8, <2>1, Assemble
<1> QED
  BY <1>2, <1>3, <1>9 DEF ListChange, Listed

(* window_create_terminal *)
LEMMA CreateTerminalStep ==
  ASSUME Inv, NEW s \in Shapes, CreateTerminal(s)
  PROVE  Inv' /\ ListChange
<1>0. PICK w \in Free : \E b \in Free \ {w} :
        /\ mem' = [mem EXCEPT ![w] = NewWindow(s, b), ![b] = NewBuffer]
        /\ windows' = ToFront(Append(windows, w), w)
        /\ active_window' = w
  BY DEF CreateTerminal
<1>1. PICK b \in Free \ {w} :
        /\ mem' = [mem EXCEPT ![w] = NewWindow(s, b), ![b] = NewBuffer]
        /\ windows' = ToFront(Append(windows, w), w)
        /\ active_window' = w
  BY <1>0
<1>2. w \in Addrs /\ w \notin ToSet(windows) /\ windows \in Seq(Addrs) /\ IsInjective(windows)
  BY ListFacts
<1>3. windows' = Append(windows, w)
  BY <1>1, <1>2, AppendRemove
<1>4. /\ windows' \in Seq(Addrs) /\ Len(windows') = Len(windows) + 1
      /\ IsInjective(windows') /\ ToSet(windows') = ToSet(windows) \cup {w}
      /\ TopOf(windows') = w
  BY <1>2, <1>3, AppendFacts
<1>5. Listed' = Listed \cup {w}
  BY <1>4 DEF Listed
<1>6. mem' = [a \in Addrs |-> IF a = w THEN NewWindow(s, b)
                               ELSE IF a = b THEN NewBuffer ELSE mem[a]]
  BY <1>1, ListFacts DEF Inv
<1>7. /\ mem' \in [Addrs -> Cell]
      /\ Listed' = {a \in Addrs : mem'[a].kind = "window"}
      /\ ContentsAreBuffers' /\ OneOwner'
  <2>1. b \in (Free \ {w}) \cup {NULL}
    OBVIOUS
  <2> QED
    BY <1>5, <1>6, <2>1, AllocateMem, Zenon
<1>8. Len(windows') <= MAX_WINDOWS
  BY <1>4, ListFacts, ScreenAssumption DEF CreateTerminal
<1>9. Inv'
  <2>1. dragging_window' \in Addrs \cup {NULL} /\ drag_offset' \in Int \X Int
    BY DEF Inv, CreateTerminal
  <2> QED
    BY <1>1, <1>4, <1>7, <1>8, <2>1, Assemble
<1> QED
  BY <1>2, <1>3, <1>9 DEF ListChange, Listed

(* The terminal's buffer cannot be allocated: everything is as before. *)
LEMMA CreateTerminalFailsStep ==
  ASSUME Inv, NEW s \in Shapes, CreateTerminalFails(s)
  PROVE  Inv' /\ ListChange
<1>1. PICK w \in Free :
        /\ windows' = RemoveFirst(ToFront(Append(windows, w), w), w)
        /\ active_window' = TopOf(windows')
        /\ mem' = Released([mem EXCEPT ![w] = NewWindow(s, NULL)], w)
  BY DEF CreateTerminalFails
<1>2. w \in Addrs /\ w \notin ToSet(windows) /\ windows \in Seq(Addrs) /\ IsInjective(windows)
  BY ListFacts
<1>3. windows' = windows
  BY <1>1, <1>2, AppendRemove
<1>4. mem' = mem
  <2> DEFINE m == [mem EXCEPT ![w] = NewWindow(s, NULL)]
  <2>1. m[w].content = NULL
    BY <1>2, NewCells DEF Inv
  <2>2. \A a \in Addrs : a # w => m[a] = mem[a]
    BY DEF Inv
  <2>3. mem' = [a \in Addrs |-> IF a \in {w, NULL} THEN FREE ELSE m[a]]
    BY <1>1, <2>1 DEF Released
  <2>4. mem[w] = FREE /\ NULL \notin Addrs
    BY ScreenAssumption DEF Free
  <2>5. \A a \in Addrs : mem'[a] = mem[a]
    BY <2>2, <2>3, <2>4
  <2> HIDE DEF m
  <2> QED
    BY <2>3, <2>5 DEF Inv
<1>5. /\ mem' \in [Addrs -> Cell] /\ Listed' = {a \in Addrs : mem'[a].kind = "window"}
      /\ ContentsAreBuffers' /\ OneOwner'
  <2>1. Listed' = Listed /\ mem' \in [Addrs -> Cell]
    BY <1>3, <1>4 DEF Listed, Inv
  <2> QED
    BY <1>4, <2>1, SameKinds
<1>6. Inv'
  <2>1. dragging_window' \in Addrs \cup {NULL} /\ drag_offset' \in Int \X Int
    BY DEF Inv, CreateTerminalFails
  <2> QED
    BY <1>1, <1>3, <1>5, <2>1, ListFacts, Assemble
<1> QED
  BY <1>3, <1>6 DEF ListChange

(* A window leaves the list and the memory. *)
LEMMA RemovalStep ==
  ASSUME Inv, NEW w \in Listed, windows' = RemoveFirst(windows, w),
         mem' = Released(mem, w), active_window' = TopOf(windows'),
         dragging_window' \in Addrs \cup {NULL}, drag_offset' \in Int \X Int
  PROVE  Inv' /\ ListChange
<1>1. windows \in Seq(Addrs) /\ IsInjective(windows) /\ w \in ToSet(windows)
      /\ Len(windows) \in Nat /\ Len(windows) <= MAX_WINDOWS
  BY ListFacts
<1>2. /\ windows' \in Seq(Addrs) /\ Len(windows') = Len(windows) - 1 /\ IsInjective(windows')
      /\ ToSet(windows') = ToSet(windows) \ {w}
  BY <1>1, RemoveFacts
<1>3. Listed' = Listed \ {w}
  BY <1>2 DEF Listed
<1>4. /\ mem' \in [Addrs -> Cell]
      /\ Listed' = {a \in Addrs : mem'[a].kind = "window"}
      /\ ContentsAreBuffers' /\ OneOwner'
  BY <1>3, ReleaseMem
<1>5. Len(windows') <= MAX_WINDOWS
  BY <1>1, <1>2, ScreenAssumption
<1>6. Inv'
  BY <1>2, <1>4, <1>5, Assemble
<1> QED
  BY <1>6 DEF ListChange

(* The topmost window of a list with windows. *)
LEMMA TopFacts ==
  ASSUME Inv
  PROVE  /\ Listed # {} => active_window = Last(windows)
         /\ active_window # NULL => active_window \in Listed
         /\ active_window \in Listed \cup {NULL}
<1>1. /\ windows \in Seq(Addrs) /\ Len(windows) \in Nat
      /\ ToSet(windows) = {windows[i] : i \in 1 .. Len(windows)}
  BY ListFacts, Positions
<1>2. CASE windows = <<>>
  <2>1. Len(windows) = 0 /\ 1 .. 0 = {}
    BY <1>1, <1>2, EmptySeq
  <2>2. Listed = {}
    BY <1>1, <2>1 DEF Listed
  <2> QED
    BY <1>2, <2>2 DEF Inv, ActiveIsTopmost, TopOf
<1>3. CASE windows # <<>>
  <2>1. Len(windows) \in 1 .. Len(windows)
    BY <1>1, <1>3, EmptySeq
  <2>2. Last(windows) \in Listed
    BY <1>1, <2>1 DEF Listed, Last
  <2> QED
    BY <1>3, <2>2 DEF Inv, ActiveIsTopmost, TopOf
<1> QED
  BY <1>2, <1>3

(* window_destroy, and the close button without a click. *)
LEMMA DestroyStep ==
  ASSUME Inv, NEW w \in Listed, DestroyWindow(w),
         dragging_window' \in Addrs \cup {NULL}, drag_offset' \in Int \X Int
  PROVE  Inv' /\ ListChange
<1>1. windows' = RemoveFirst(windows, w) /\ mem' = Released(mem, w)
  BY DEF DestroyWindow
<1>2. active_window' = TopOf(windows')
  <2>1. CASE active_window = w
    BY <2>1 DEF DestroyWindow
  <2>2. CASE active_window # w
    <3>1. Last(windows) # w /\ Last(windows) = active_window
      BY <2>2, TopFacts
    <3>2. TopOf(RemoveFirst(windows, w)) = Last(windows)
      BY <3>1, ListFacts, RemoveFacts
    <3> QED
      BY <1>1, <2>2, <3>1, <3>2 DEF DestroyWindow
  <2> QED
    BY <2>1, <2>2
<1> QED
  BY <1>1, <1>2, RemovalStep

(* A window comes to the front while its fields may change. *)
LEMMA FrontStep ==
  ASSUME Inv, NEW w \in Listed, NEW r \in Window, r.content = mem[w].content,
         mem' = [mem EXCEPT ![w] = r], windows' = ToFront(windows, w), active_window' = w,
         dragging_window' \in Addrs \cup {NULL}, drag_offset' \in Int \X Int
  PROVE  Inv' /\ ListChange
<1>1. /\ windows' \in Seq(Addrs) /\ Len(windows') = Len(windows) /\ IsInjective(windows')
      /\ ToSet(windows') = ToSet(windows) /\ TopOf(windows') = w
  BY ListFacts, FrontFacts
<1>2. Listed' = Listed
  BY <1>1 DEF Listed
<1>3. /\ mem' \in [Addrs -> Cell]
      /\ Listed' = {a \in Addrs : mem'[a].kind = "window"}
      /\ ContentsAreBuffers' /\ OneOwner'
  BY <1>2, FieldMem
<1>4. Len(windows') <= MAX_WINDOWS
  BY <1>1, ListFacts
<1>5. Inv'
  BY <1>1, <1>3, <1>4, Assemble
<1> QED
  BY <1>5 DEF ListChange

(* A window's fields change, and nothing else. *)
LEMMA FieldStep ==
  ASSUME Inv, NEW w \in Listed, NEW r \in Window, r.content = mem[w].content,
         mem' = [mem EXCEPT ![w] = r], UNCHANGED <<windows, active_window>>,
         dragging_window' \in Addrs \cup {NULL}, drag_offset' \in Int \X Int
  PROVE  Inv' /\ ListChange
<1>1. Listed' = Listed /\ windows' = windows /\ active_window' = TopOf(windows')
  BY DEF Listed, Inv, ActiveIsTopmost
<1>2. /\ mem' \in [Addrs -> Cell]
      /\ Listed' = {a \in Addrs : mem'[a].kind = "window"}
      /\ ContentsAreBuffers' /\ OneOwner'
  BY <1>1, FieldMem
<1>3. /\ windows' \in Seq(Addrs) /\ Len(windows') <= MAX_WINDOWS /\ IsInjective(windows')
  BY <1>1, ListFacts
<1>4. Inv'
  BY <1>1, <1>2, <1>3, Assemble
<1> QED
  BY <1>1, <1>4 DEF ListChange

(* The records that the window operations write. *)
LEMMA Records ==
  ASSUME NEW v \in Window
  PROVE  /\ \A f \in SUBSET Flags : [v EXCEPT !.flags = f] \in Window
                                    /\ [v EXCEPT !.flags = f].content = v.content
         /\ \A x, y \in Int : [v EXCEPT !.x = x % COORD, !.y = y % COORD] \in Window
               /\ [v EXCEPT !.x = x % COORD, !.y = y % COORD].content = v.content
         /\ v.x \in Int /\ v.y \in Int /\ v.flags \subseteq Flags
<1>1. \A x \in Int : x % COORD \in 0 .. COORD - 1
  BY ScreenAssumption
<1>2. ASSUME NEW x \in Int, NEW y \in Int
      PROVE  [v EXCEPT !.x = x % COORD, !.y = y % COORD] \in Window
             /\ [v EXCEPT !.x = x % COORD, !.y = y % COORD].content = v.content
  <2> DEFINE i == x % COORD
             j == y % COORD
  <2>1. i \in 0 .. COORD - 1 /\ j \in 0 .. COORD - 1
    BY <1>1
  <2> HIDE DEF i, j
  <2>2. [v EXCEPT !.x = i, !.y = j] \in Window
        /\ [v EXCEPT !.x = i, !.y = j].content = v.content
    BY <2>1 DEF Window
  <2> QED
    BY <2>2 DEF i, j
<1>3. v.x \in Int /\ v.y \in Int /\ v.flags \subseteq Flags
  BY ScreenAssumption DEF Window
<1>4. \A f \in SUBSET Flags : [v EXCEPT !.flags = f] \in Window
                              /\ [v EXCEPT !.flags = f].content = v.content
  BY DEF Window
<1> QED
  BY <1>2, <1>3, <1>4

(* window_move, and a drag. *)
LEMMA MovedStep ==
  ASSUME Inv, NEW w, NEW x \in Int, NEW y \in Int, mem' = Moved(w, x, y),
         UNCHANGED <<windows, active_window, dragging_window, drag_offset>>
  PROVE  Inv' /\ ListChange
<1>0. dragging_window' \in Addrs \cup {NULL} /\ drag_offset' \in Int \X Int
  BY DEF Inv
<1>1. CASE w \in Listed
  <2> DEFINE r == [mem[w] EXCEPT !.x = x % COORD, !.y = y % COORD]
  <2>0. mem[w] \in Window
    BY <1>1, Holds
  <2>1. r \in Window /\ r.content = mem[w].content
    <3>1. \A v \in Window : [v EXCEPT !.x = x % COORD, !.y = y % COORD] \in Window
             /\ [v EXCEPT !.x = x % COORD, !.y = y % COORD].content = v.content
      <4> SUFFICES ASSUME NEW v \in Window
                   PROVE  [v EXCEPT !.x = x % COORD, !.y = y % COORD] \in Window
                     /\ [v EXCEPT !.x = x % COORD, !.y = y % COORD].content = v.content
        OBVIOUS
      <4>1. \A i, j \in Int : [v EXCEPT !.x = i % COORD, !.y = j % COORD] \in Window
               /\ [v EXCEPT !.x = i % COORD, !.y = j % COORD].content = v.content
        BY Records
      <4> QED
        BY <4>1
    <3> QED
      BY <2>0, <3>1
  <2>2. mem' = [mem EXCEPT ![w] = r]
    BY <1>1, ListFacts DEF Moved, Inv
  <2> HIDE DEF r
  <2> QED
    BY <1>0, <1>1, <2>1, <2>2, FieldStep
<1>2. CASE w \notin Listed
  <2>1. mem' = mem
    BY <1>2, ListFacts DEF Moved
  <2>2. vars' = vars
    BY <2>1 DEF vars
  <2>3. Inv'
    BY <2>2 DEF vars, Inv, ListHoldsWindows, IsWindow, ActiveIsTopmost, TopOf,
                ContentsAreBuffers, OneOwner, OwnersOf, Listed
  <2> QED
    BY <2>3 DEF ListChange
<1> QED
  BY <1>1, <1>2

(* The operations on an existing window. *)
LEMMA WindowStep ==
  ASSUME Inv, NEW w \in Listed,
         \/ Show(w) \/ Hide(w) \/ BringToFront(w)
         \/ \E p \in Points : Move(w, p)
         \/ \E new \in {{"MINIMIZED"}, {"MAXIMIZED"}, {}} : SetSize(w, new)
  PROVE  Inv' /\ ListChange
<1>1. mem[w] \in Window /\ mem[w].flags \subseteq Flags /\ w \in Addrs
  BY Holds, Records
<1>2. \A f \in SUBSET Flags : [mem[w] EXCEPT !.flags = f] \in Window
                              /\ [mem[w] EXCEPT !.flags = f].content = mem[w].content
  BY <1>1, Records, Zenon
<1>3. ASSUME UNCHANGED <<dragging_window, drag_offset>>
      PROVE  dragging_window' \in Addrs \cup {NULL} /\ drag_offset' \in Int \X Int
  BY <1>3 DEF Inv
<1>4. mem \in [Addrs -> Cell]
  BY DEF Inv
<1>5. CASE Show(w)
  <2> DEFINE f == mem[w].flags \cup {"VISIBLE"}
             r == [mem[w] EXCEPT !.flags = f]
  <2>1. f \in SUBSET Flags
    BY <1>1 DEF Flags
  <2>2. mem' = [mem EXCEPT ![w] = r]
    BY <1>1, <1>4, <1>5 DEF Show
  <2> HIDE DEF f
  <2>3. r \in Window /\ r.content = mem[w].content
    BY <1>2, <2>1
  <2>4. windows' = ToFront(windows, w) /\ active_window' = w
        /\ dragging_window' \in Addrs \cup {NULL} /\ drag_offset' \in Int \X Int
    BY <1>3, <1>5 DEF Show
  <2> HIDE DEF r
  <2> QED
    BY <2>2, <2>3, <2>4, FrontStep
<1>6. CASE Hide(w)
  <2> DEFINE f == mem[w].flags \ {"VISIBLE"}
             r == [mem[w] EXCEPT !.flags = f]
  <2>1. f \in SUBSET Flags
    BY <1>1 DEF Flags
  <2>2. mem' = [mem EXCEPT ![w] = r]
    BY <1>1, <1>4, <1>6 DEF Hide
  <2> HIDE DEF f
  <2>3. r \in Window /\ r.content = mem[w].content
    BY <1>2, <2>1
  <2>4. active_window' = active_window /\ windows' = windows
        /\ dragging_window' \in Addrs \cup {NULL} /\ drag_offset' \in Int \X Int
    BY <1>3, <1>6 DEF Hide, Inv, ActiveIsTopmost
  <2> HIDE DEF r
  <2> QED
    BY <2>2, <2>3, <2>4, FieldStep
<1>7. CASE BringToFront(w)
  <2> DEFINE r == mem[w]
  <2>1. r \in Window /\ r.content = mem[w].content /\ mem' = [mem EXCEPT ![w] = r]
    BY <1>1, <1>4, <1>7 DEF BringToFront
  <2>2. windows' = ToFront(windows, w) /\ active_window' = w
        /\ dragging_window' \in Addrs \cup {NULL} /\ drag_offset' \in Int \X Int
    BY <1>3, <1>7 DEF BringToFront
  <2> HIDE DEF r
  <2> QED
    BY <2>1, <2>2, FrontStep
<1>8. CASE \E p \in Points : Move(w, p)
  <2>1. PICK p \in Points : Move(w, p)
    BY <1>8
  <2>2. p[1] \in Int /\ p[2] \in Int
    BY ScreenAssumption
  <2> QED
    BY <2>1, <2>2, MovedStep DEF Move
<1>9. CASE \E new \in {{"MINIMIZED"}, {"MAXIMIZED"}, {}} : SetSize(w, new)
  <2>1. PICK new \in {{"MINIMIZED"}, {"MAXIMIZED"}, {}} : SetSize(w, new)
    BY <1>9
  <2> DEFINE f == Sized(mem[w].flags, new)
             r == [mem[w] EXCEPT !.flags = f]
  <2>2. f \in SUBSET Flags
    BY <1>1 DEF Flags, Sized
  <2>3. mem' = [mem EXCEPT ![w] = r]
    BY <1>1, <1>4, <2>1 DEF SetSize
  <2> HIDE DEF f
  <2>4. r \in Window /\ r.content = mem[w].content
    BY <1>2, <2>2
  <2>5. active_window' = active_window /\ windows' = windows
        /\ dragging_window' \in Addrs \cup {NULL} /\ drag_offset' \in Int \X Int
    BY <1>3, <2>1 DEF SetSize
  <2> HIDE DEF r
  <2> QED
    BY <2>3, <2>4, <2>5, FieldStep
<1> QED
  BY <1>5, <1>6, <1>7, <1>8, <1>9

(* A nonempty set of positions has a last one. *)
LEMMA LastPosition ==
  ASSUME NEW n \in Nat, NEW I \in SUBSET (1 .. n), I # {}
  PROVE  Max(I) \in I
<1> DEFINE S == {d \in Nat : n - d \in I}
<1>1. S \subseteq Nat /\ S # {}
  <2>1. PICK i \in I : TRUE
    OBVIOUS
  <2>2. n - i \in Nat /\ n - (n - i) = i
    OBVIOUS
  <2> QED
    BY <2>1, <2>2
<1>2. PICK d \in S : \A e \in S : <<e, d>> \notin OpToRel(<, Nat)
  BY <1>1, NatLessThanWellFounded, WFMin, Zenon
<1>3. \A y \in I : n - d >= y
  <2> SUFFICES ASSUME NEW y \in I, ~(n - d >= y) PROVE FALSE
    OBVIOUS
  <2>0. y \in 1 .. n /\ d \in Nat
    BY <1>2
  <2>1. n - y \in Nat /\ n - (n - y) = y /\ n - y < d
    BY <2>0
  <2>2. n - y \in S
    BY <2>1
  <2>3. <<n - y, d>> \in OpToRel(<, Nat)
    BY <1>2, <2>1 DEF OpToRel
  <2> QED
    BY <1>2, <2>2, <2>3
<1>4. n - d \in I
  BY <1>2
<1> HIDE DEF S
<1> QED
  BY <1>3, <1>4 DEF Max

(* The window under the mouse is one of the list. *)
LEMMA UnderListed ==
  ASSUME Inv, NEW x, NEW y, Under(x, y) # NULL
  PROVE  Under(x, y) \in Listed
<1> DEFINE I == {i \in 1 .. Len(windows) : Covers(mem[windows[i]], x, y)}
           k == SelectLastInSeq(windows, LAMBDA w : Covers(mem[w], x, y))
<1>1. k = IF I # {} THEN Max(I) ELSE 0
  BY DEF SelectLastInSeq
<1>2. Under(x, y) = IF k = 0 THEN NULL ELSE windows[k]
  BY DEF Under
<1>3. Len(windows) \in Nat /\ I \in SUBSET (1 .. Len(windows))
  BY ListFacts
<1> HIDE DEF I, k
<1>4. I # {} /\ k # 0
  BY <1>1, <1>2
<1>5. k \in 1 .. Len(windows)
  BY <1>1, <1>3, <1>4, LastPosition
<1> QED
  BY <1>2, <1>4, <1>5, ListFacts, Positions DEF Listed

(* window_handle_mouse over a title bar. *)
LEMMA TitleStep ==
  ASSUME Inv, NEW x \in Int, NEW y \in Int, NEW left \in BOOLEAN, MouseOnTitle(x, y, left)
  PROVE  Inv' /\ ListChange
<1>1. PICK w \in Listed : w = Under(x, y)
  BY UnderListed DEF MouseOnTitle
<1> DEFINE v == mem[w]
           onTop == IF left THEN ToFront(windows, w) ELSE windows
           close == OnCloseButton(v, x, y)
<1>2. /\ left \/ close
      /\ dragging_window' = IF left THEN w ELSE NULL
      /\ drag_offset' = IF left THEN <<x - v.x, y - v.y>> ELSE drag_offset
      /\ close => /\ windows' = RemoveFirst(onTop, w)
                  /\ active_window' = IF left \/ active_window = w
                                        THEN TopOf(windows') ELSE active_window
                  /\ mem' = Released(mem, w)
      /\ ~close => /\ windows' = onTop
                   /\ active_window' = w
                   /\ mem' = mem
  BY <1>1 DEF MouseOnTitle
<1>3. w \in Addrs /\ v \in Window /\ v.x \in Int /\ v.y \in Int
  BY Holds, Records
<1> HIDE DEF v, close
<1>4. dragging_window' \in Addrs \cup {NULL} /\ drag_offset' \in Int \X Int
  <2>1. x - v.x \in Int /\ y - v.y \in Int
    BY <1>3
  <2> QED
    BY <1>2, <1>3, <2>1 DEF Inv
<1>5. CASE close
  <2>1. windows' = RemoveFirst(windows, w)
    BY <1>2, <1>5, ListFacts, FrontRemove
  <2>2. CASE left
    BY <1>2, <1>4, <1>5, <2>1, <2>2, RemovalStep
  <2>3. CASE ~left
    <3>1. DestroyWindow(w)
      BY <1>2, <1>5, <2>1, <2>3 DEF DestroyWindow
    <3> QED
      BY <1>4, <3>1, DestroyStep
  <2> QED
    BY <2>2, <2>3
<1>6. CASE ~close
  <2>1. windows' = ToFront(windows, w) /\ active_window' = w /\ mem' = mem
    BY <1>2, <1>6
  <2>2. mem' = [mem EXCEPT ![w] = v] /\ v.content = mem[w].content
    BY <2>1 DEF Inv, v
  <2> QED
    BY <1>3, <1>4, <2>1, <2>2, FrontStep
<1> QED
  BY <1>5, <1>6

(* window_handle_key: the active window's terminal takes a character. *)
LEMMA KeyStep ==
  ASSUME Inv, HandleKey
  PROVE  Inv' /\ ListChange
<1>1. PICK w \in Listed : w = active_window
  BY TopFacts DEF HandleKey
<1>2. PICK b \in Addrs : b = mem[w].content
  BY <1>1, Holds DEF HandleKey
<1>3. mem[b].kind = "buffer" /\ mem[b] \in Buffer
  BY <1>2, Holds, CellKinds, ScreenAssumption DEF Inv, ContentsAreBuffers
<1> DEFINE r == TerminalKey(mem[b])
<1>4. r \in Buffer
  <2> DEFINE o == mem[b]
  <2>1. o \in Buffer
    BY <1>3
  <2> HIDE DEF o
  <2>2. TerminalKey(o) \in Buffer
    BY <2>1, ScreenAssumption DEF Buffer, TerminalKey
  <2> QED
    BY <2>2 DEF o
<1>5. mem' = [mem EXCEPT ![b] = r] /\ windows' = windows /\ active_window' = active_window
      /\ dragging_window' = dragging_window /\ drag_offset' = drag_offset
  BY <1>1, <1>2 DEF HandleKey
<1> HIDE DEF r
<1>6. r \in Cell /\ r.kind = "buffer"
  BY <1>4 DEF Cell, Buffer
<1>7. mem' \in [Addrs -> Cell] /\ \A a \in Addrs : mem'[a] = IF a = b THEN r ELSE mem[a]
  BY <1>5, <1>6 DEF Inv
<1>8. \A a \in Addrs : mem'[a].kind = mem[a].kind
  BY <1>3, <1>6, <1>7
<1>9. \A u \in Listed : mem'[u].content = mem[u].content
  BY <1>3, <1>7, Holds
<1>10. Listed' = Listed
  BY <1>5 DEF Listed
<1>11. /\ Listed' = {a \in Addrs : mem'[a].kind = "window"}
       /\ ContentsAreBuffers' /\ OneOwner'
  BY <1>7, <1>8, <1>9, <1>10, SameKinds
<1>12. Inv'
  <2>1. windows' \in Seq(Addrs) /\ Len(windows') <= MAX_WINDOWS /\ IsInjective(windows')
    BY <1>5, ListFacts
  <2>2. active_window' = TopOf(windows') /\ dragging_window' \in Addrs \cup {NULL}
        /\ drag_offset' \in Int \X Int
    BY <1>5 DEF Inv, ActiveIsTopmost
  <2> QED
    BY <1>7, <1>11, <2>1, <2>2, Assemble
<1> QED
  BY <1>5, <1>12 DEF ListChange

(* The drag ends, or nothing happens. *)
LEMMA QuietStep ==
  ASSUME Inv, UNCHANGED <<mem, windows, active_window, drag_offset>>,
         dragging_window' \in {dragging_window, NULL}
  PROVE  Inv' /\ ListChange
<1>1. dragging_window' \in Addrs \cup {NULL}
  BY DEF Inv
<1>2. Inv'
  BY <1>1 DEF Inv, ListHoldsWindows, IsWindow, ActiveIsTopmost, TopOf,
              ContentsAreBuffers, OneOwner, OwnersOf, Listed
<1> QED
  BY <1>2 DEF ListChange

(* Every step keeps the invariant and changes the list in one of the four  *)
(* ways.                                                                   *)
LEMMA NextInv ==
  ASSUME Inv, [Next]_vars
  PROVE  Inv' /\ ListChange
<1>1. CASE \E s \in Shapes : Create(s) \/ CreateTerminal(s) \/ CreateTerminalFails(s)
  BY <1>1, CreateStep, CreateTerminalStep, CreateTerminalFailsStep
<1>2. CASE \E w \in {a \in Addrs : IsWindow(a)} :
             \/ Destroy(w) \/ Show(w) \/ Hide(w) \/ BringToFront(w)
             \/ \E p \in Points : Move(w, p)
             \/ \E new \in {{"MINIMIZED"}, {"MAXIMIZED"}, {}} : SetSize(w, new)
  <2>1. PICK w \in Listed :
             \/ Destroy(w) \/ Show(w) \/ Hide(w) \/ BringToFront(w)
             \/ \E p \in Points : Move(w, p)
             \/ \E new \in {{"MINIMIZED"}, {"MAXIMIZED"}, {}} : SetSize(w, new)
    BY <1>2, ListFacts
  <2>2. CASE Destroy(w)
    <3>1. DestroyWindow(w) /\ dragging_window' \in Addrs \cup {NULL}
          /\ drag_offset' \in Int \X Int
      BY <2>2 DEF Destroy, Inv
    <3> QED
      BY <3>1, DestroyStep
  <2> QED
    BY <2>1, <2>2, WindowStep
<1>3. CASE \E p \in Points : \/ MouseDrag(p[1], p[2])
                             \/ \E left \in BOOLEAN : MouseOnTitle(p[1], p[2], left)
  <2>1. PICK p \in Points : \/ MouseDrag(p[1], p[2])
                            \/ \E left \in BOOLEAN : MouseOnTitle(p[1], p[2], left)
    BY <1>3
  <2>2. p[1] \in Int /\ p[2] \in Int
    BY ScreenAssumption
  <2>3. CASE MouseDrag(p[1], p[2])
    <3>1. p[1] - drag_offset[1] \in Int /\ p[2] - drag_offset[2] \in Int
      BY <2>2 DEF Inv
    <3>2. PICK x \in Int : x = p[1] - drag_offset[1]
      BY <3>1
    <3>3. PICK y \in Int : y = p[2] - drag_offset[2]
      BY <3>1
    <3>4. PICK w : w = dragging_window
      OBVIOUS
    <3> QED
      BY <2>3, <3>2, <3>3, <3>4, MovedStep DEF MouseDrag
  <2> QED
    BY <2>1, <2>2, <2>3, TitleStep
<1>4. CASE MouseDrop
  BY <1>4, QuietStep DEF MouseDrop
<1>5. CASE HandleKey
  BY <1>5, KeyStep
<1>6. CASE UNCHANGED vars
  BY <1>6, QuietStep DEF vars
<1> QED
  BY <1>1, <1>2, <1>3, <1>4, <1>5, <1>6 DEF Next

(* After window_init there is neither a window nor a buffer. *)
LEMMA InitInv ==
  ASSUME Init
  PROVE  Inv
<1>1. mem \in [Addrs -> Cell] /\ \A a \in Addrs : mem[a].kind = "free"
  BY NewCells DEF Init
<1>2. windows \in Seq(Addrs) /\ Len(windows) = 0 /\ 1 .. 0 = {}
  BY EmptySeq DEF Init
<1>3. Listed = {} /\ IsInjective(windows)
  <2>1. /\ DOMAIN windows = {} /\ ToSet(windows) = {windows[i] : i \in DOMAIN windows}
    BY <1>2, Positions
  <2>2. ToSet(windows) = {}
    BY <2>1, Zenon
  <2>3. IsInjective(windows)
    BY <2>1, Zenon DEF IsInjective
  <2> QED
    BY <2>2, <2>3 DEF Listed
<1>4. ListHoldsWindows
  BY <1>1, <1>3 DEF ListHoldsWindows, IsWindow, Listed
<1>5. ContentsAreBuffers /\ OneOwner
  BY <1>1, <1>3 DEF ContentsAreBuffers, OneOwner
<1>6. ActiveIsTopmost
  BY DEF Init, ActiveIsTopmost, TopOf
<1>7. dragging_window \in Addrs \cup {NULL} /\ drag_offset \in Int \X Int
      /\ Len(windows) <= MAX_WINDOWS
  BY <1>2, ScreenAssumption DEF Init
<1> QED
  BY <1>1, <1>2, <1>4, <1>5, <1>6, <1>7 DEF Inv

-----------------------------------------------------------------------------
(* The stacking order.                                                     *)

(* Taking an element out keeps the order of the others. *)
LEMMA RemoveKeepsOrder ==
  ASSUME NEW S, NEW s \in Seq(S), IsInjective(s), NEW e \in ToSet(s), NEW a, NEW b,
         a # e, b # e, Before(s, a, b)
  PROVE  Before(RemoveFirst(s, e), a, b)
<1> DEFINE r == RemoveFirst(s, e)
<1>1. PICK m \in 1 .. Len(s) : s[m] = e
  BY Positions
<1>2. /\ r \in Seq(S) /\ Len(r) = Len(s) - 1
      /\ \A k \in 1 .. Len(s) - 1 : r[k] = IF k < m THEN s[k] ELSE s[k + 1]
  BY <1>1, RemoveShape
<1>3. DOMAIN s = 1 .. Len(s) /\ Len(s) \in Nat
  BY Positions
<1> HIDE DEF r
<1>4. DOMAIN r = 1 .. Len(r)
  BY <1>2, Positions
<1>5. PICK i \in 1 .. Len(s), j \in 1 .. Len(s) : i < j /\ s[i] = a /\ s[j] = b
  BY <1>3 DEF Before
<1>6. i # m /\ j # m
  BY <1>1, <1>5
<1> DEFINE At(k) == IF k < m THEN k ELSE k - 1
<1>7. ASSUME NEW k \in 1 .. Len(s), k # m
      PROVE  At(k) \in 1 .. Len(r) /\ r[At(k)] = s[k]
  <2>1. CASE k < m
    BY <1>2, <1>3, <2>1
  <2>2. CASE k > m
    <3>1. k - 1 \in 1 .. Len(s) - 1 /\ ~(k - 1 < m) /\ (k - 1) + 1 = k /\ ~(k < m)
      BY <1>3, <2>2
    <3> QED
      BY <1>2, <3>1
  <2> QED
    BY <1>7, <2>1, <2>2
<1>8. At(i) < At(j)
  BY <1>5, <1>6
<1>9. At(i) \in DOMAIN r /\ At(j) \in DOMAIN r /\ r[At(i)] = a /\ r[At(j)] = b
  BY <1>4, <1>5, <1>6, <1>7
<1> HIDE DEF At
<1>10. Before(r, a, b)
  BY <1>8, <1>9 DEF Before
<1> QED
  BY <1>10 DEF r

(* A new element comes after all others. *)
LEMMA AppendKeepsOrder ==
  ASSUME NEW S, NEW s \in Seq(S), IsInjective(s), NEW e \in S, e \notin ToSet(s), NEW a, NEW b
  PROVE  /\ Before(s, a, b) => Before(Append(s, e), a, b)
         /\ a \in ToSet(s) => Before(Append(s, e), a, e)
<1> DEFINE r == Append(s, e)
<1>1. /\ r \in Seq(S) /\ Len(r) = Len(s) + 1 /\ \A k \in 1 .. Len(s) : r[k] = s[k]
      /\ r[Len(s) + 1] = e
  BY AppendFacts
<1>2. /\ DOMAIN s = 1 .. Len(s) /\ Len(s) \in Nat
      /\ ToSet(s) = {s[i] : i \in 1 .. Len(s)}
  BY Positions
<1> HIDE DEF r
<1>3. DOMAIN r = 1 .. Len(r)
  BY <1>1, Positions
<1>4. ASSUME Before(s, a, b) PROVE Before(r, a, b)
  <2>1. PICK i \in 1 .. Len(s), j \in 1 .. Len(s) : i < j /\ s[i] = a /\ s[j] = b
    BY <1>2, <1>4 DEF Before
  <2>2. i \in DOMAIN r /\ j \in DOMAIN r /\ r[i] = a /\ r[j] = b
    BY <1>1, <1>2, <1>3, <2>1
  <2> QED
    BY <2>1, <2>2 DEF Before
<1>5. ASSUME a \in ToSet(s) PROVE Before(r, a, e)
  <2>1. PICK i \in 1 .. Len(s) : s[i] = a
    BY <1>2, <1>5
  <2> DEFINE j == Len(s) + 1
  <2>2. i \in DOMAIN r /\ j \in DOMAIN r /\ r[i] = a /\ r[j] = e /\ i < j
    BY <1>1, <1>2, <1>3, <2>1
  <2> HIDE DEF j
  <2> QED
    BY <2>2 DEF Before
<1> QED
  BY <1>4, <1>5 DEF r

StackingStep ==
  \A a, b \in ToSet(windows) \cap ToSet(windows') :
    Before(windows, a, b) /\ ~Before(windows', a, b) => a = TopOf(windows')

(* The four changes of the list keep the order, but for the window that    *)
(* comes to the top.                                                       *)
LEMMA OrderKept ==
  ASSUME Inv, Inv', ListChange
  PROVE  StackingStep
<1>1. windows \in Seq(Addrs) /\ IsInjective(windows) /\ Listed = ToSet(windows)
  BY ListFacts
<1> SUFFICES ASSUME NEW a \in ToSet(windows) \cap ToSet(windows'),
                    NEW b \in ToSet(windows) \cap ToSet(windows'),
                    Before(windows, a, b), a # TopOf(windows')
             PROVE  Before(windows', a, b)
  BY DEF StackingStep
<1>2. CASE windows' = windows
  BY <1>2
<1>3. ASSUME NEW w \in Addrs \ Listed, windows' = Append(windows, w)
      PROVE  Before(windows', a, b)
  BY <1>1, <1>3, AppendKeepsOrder
<1>4. ASSUME NEW w \in Listed, windows' = RemoveFirst(windows, w)
      PROVE  Before(windows', a, b)
  <2>1. a # w /\ b # w /\ w \in ToSet(windows)
    BY <1>1, <1>4, RemoveFacts
  <2> QED
    BY <1>1, <1>4, <2>1, RemoveKeepsOrder
<1>5. ASSUME NEW w \in Listed, windows' = ToFront(windows, w)
      PROVE  Before(windows', a, b)
  <2> DEFINE r == RemoveFirst(windows, w)
  <2>1. w \in ToSet(windows) /\ w \in Addrs
    BY <1>1, Holds
  <2>2. windows' = Append(r, w) /\ TopOf(windows') = w
    BY <1>1, <1>5, <2>1, FrontFacts
  <2>3. r \in Seq(Addrs) /\ IsInjective(r) /\ ToSet(r) = ToSet(windows) \ {w}
    BY <1>1, <2>1, RemoveFacts
  <2>4. a # w /\ a \in ToSet(r)
    BY <2>2, <2>3
  <2>5. ASSUME b # w PROVE Before(r, a, b)
    BY <1>1, <2>1, <2>4, <2>5, RemoveKeepsOrder
  <2> HIDE DEF r
  <2>6. w \notin ToSet(r)
    BY <2>3
  <2>7. /\ Before(r, a, b) => Before(Append(r, w), a, b)
        /\ Before(Append(r, w), a, w)
    BY <2>1, <2>3, <2>4, <2>6, AppendKeepsOrder
  <2> QED
    BY <2>2, <2>5, <2>7
<1> QED
  BY <1>2, <1>3, <1>4, <1>5 DEF ListChange

-----------------------------------------------------------------------------
(* The theorems.                                                           *)

(* The inductive invariant: the list and the memory agree, the topmost     *)
(* window is active, and windows and buffers are paired.                   *)
THEOREM WindowsInvariant == Spec => []Inv
<1>1. Init => Inv
  BY InitInv
<1>2. Inv /\ [Next]_vars => Inv'
  BY NextInv
<1> QED
  BY <1>1, <1>2, PTL DEF Spec

(* Every address holds a window, a buffer or nothing, the list never grows *)
(* past its array, and every cursor stays inside its buffer.               *)
THEOREM TypeCorrect == Spec => []TypeOK
<1>1. ASSUME Inv PROVE TypeOK
  <2>1. \A a \in Addrs : mem[a] = FREE \/ mem[a] \in Window \/ mem[a] \in Buffer
    BY <1>1, Holds DEF Cell
  <2>2. {active_window, dragging_window} \subseteq Addrs \cup {NULL}
    BY <1>1, TopFacts, Holds DEF Inv
  <2> QED
    BY <1>1, <2>1, <2>2 DEF Inv, TypeOK
<1>2. Inv => TypeOK
  BY <1>1
<1> QED
  BY <1>2, WindowsInvariant, PTL

(* The list holds each existing window once and nothing else, whatever     *)
(* windows are created, closed, shown and hidden.                          *)
THEOREM ListHoldsEachWindow == Spec => []ListHoldsWindows
<1>1. Inv => ListHoldsWindows
  BY DEF Inv
<1> QED
  BY <1>1, WindowsInvariant, PTL

(* The window that gets the keys is the topmost one. *)
THEOREM KeysGoToTopmost == Spec => []ActiveIsTopmost
<1>1. Inv => ActiveIsTopmost
  BY DEF Inv
<1> QED
  BY <1>1, WindowsInvariant, PTL

(* No buffer is leaked, freed twice or shared by two windows. *)
THEOREM BuffersHaveOneOwner == Spec => []BuffersOwned
<1>1. ASSUME Inv PROVE BuffersOwned
  <2>1. \A w \in ToSet(windows) :
          mem[w].content # NULL => mem[mem[w].content].kind = "buffer"
    BY <1>1 DEF Inv, ContentsAreBuffers, Listed
  <2>2. ASSUME NEW b \in Addrs, mem[b].kind = "buffer"
        PROVE  Cardinality({w \in ToSet(windows) : mem[w].content = b}) = 1
    <3>1. PICK w : {v \in ToSet(windows) : mem[v].content = b} = {w}
      BY <1>1, <2>2 DEF Inv, OneOwner, OwnersOf, Listed
    <3> QED
      BY <3>1, FS_Singleton
  <2> QED
    BY <2>1, <2>2 DEF BuffersOwned
<1>2. Inv => BuffersOwned
  BY <1>1
<1> QED
  BY <1>2, WindowsInvariant, PTL

(* Two windows change places only when one of them comes to the top. *)
THEOREM StackingChangesOnTop == Spec => StackingKept
<1>1. Inv /\ [Next]_vars => [StackingStep]_vars
  BY NextInv, OrderKept
<1>2. [][StackingStep]_vars => StackingKept
  BY PTL DEF StackingStep, StackingKept
<1> QED
  BY <1>1, <1>2, WindowsInvariant, PTL DEF Spec

=============================================================================
