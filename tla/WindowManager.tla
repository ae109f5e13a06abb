--------------------------- MODULE WindowManager ---------------------------
(***************************************************************************)
(* The window manager of drivers/video/window.c: the list of windows in    *)
(* stacking order, the active window, dragging with the mouse, the close   *)
(* button and the terminal's text buffer.                                  *)
(*                                                                         *)
(* Windows and terminal buffers are heap objects: mem says what lies at an *)
(* address, and malloc may return any address that is free, NULL included, *)
(* or one that was a window before.  Callers pass only windows that exist. *)
(* Every window operation runs to completion in one interrupt handler.     *)
(* window_resize has no action: it needs WINDOW_FLAG_RESIZABLE, which no   *)
(* code sets.  on_click has none either: no window has one.                *)
(* window_handle_mouse has no caller in this version (mouse_event of       *)
(* main.c has yet to call it); its branches are actions all the same.      *)
(***************************************************************************)
EXTENDS Integers, Sequences, SequencesExt, FiniteSetsExt

CONSTANTS
  MAX_WINDOWS,   (* (16)                                                   *)
  TITLE_HEIGHT,  (* rows of the title bar (20)                             *)
  CLOSE_LEFT, CLOSE_RIGHT, CLOSE_TOP, CLOSE_BOTTOM,
                 (* the close button: columns width - CLOSE_LEFT up to     *)
                 (* width - CLOSE_RIGHT, rows CLOSE_TOP up to CLOSE_BOTTOM *)
                 (* (18, 4, 4, 18)                                         *)
  COORD,         (* coordinates are modulo this (2^16)                     *)
  BUFFER_SIZE,   (* TERMINAL_BUFFER_SIZE (1024)                            *)
  Addrs,         (* heap addresses                                         *)
  Shapes,        (* the <<x, y, width, height>> of the windows created     *)
  Points         (* the positions <<x, y>> of the mouse and of moves       *)

NULL == 0

ASSUME ScreenAssumption ==
  /\ MAX_WINDOWS \in Nat /\ TITLE_HEIGHT \in Nat
  /\ {CLOSE_LEFT, CLOSE_RIGHT, CLOSE_TOP, CLOSE_BOTTOM} \subseteq Nat
  /\ COORD \in Nat \ {0} /\ BUFFER_SIZE \in Nat \ {0}
  /\ NULL \notin Addrs
  /\ Points \subseteq (0 .. COORD - 1) \X (0 .. COORD - 1)
  /\ \A s \in Shapes : \A i \in 1 .. 4 : s[i] \in 0 .. COORD - 1

VARIABLES
  mem,              (* address -> the window, buffer or nothing there      *)
  windows,          (* windows[0 .. num_windows-1], the topmost last       *)
  active_window,
  dragging_window,
  drag_offset       (* <<drag_offset_x, drag_offset_y>>                    *)

vars == <<mem, windows, active_window, dragging_window, drag_offset>>

Flags == {"VISIBLE", "MINIMIZED", "MAXIMIZED"}
FREE == [kind |-> "free"]
Window ==
  [kind: {"window"}, x: 0 .. COORD - 1, y: 0 .. COORD - 1,
   width: 0 .. COORD - 1, height: 0 .. COORD - 1,
   flags: SUBSET Flags, content: Addrs \cup {NULL}]
Buffer == [kind: {"buffer"}, cursor: 0 .. BUFFER_SIZE - 1]

(* After window_init. *)
Init ==
  /\ mem = [a \in Addrs |-> FREE]
  /\ windows = <<>>
  /\ active_window = NULL /\ dragging_window = NULL /\ drag_offset = <<0, 0>>

-----------------------------------------------------------------------------
IsWindow(a) == a \in Addrs /\ mem[a].kind = "window"
Free == {a \in Addrs : mem[a] = FREE}

(* The topmost window of a list, NULL if there is none. *)
TopOf(ws) == IF ws = <<>> THEN NULL ELSE Last(ws)

(* Mutants of ToFront: the window is not taken out first; it swaps places   *)
(* with the topmost one.                                                    *)
ToFrontKeepsOld(ws, w) == Append(ws, w)
ToFrontSwaps(ws, w) ==
  LET i == IF Contains(ws, w) THEN SelectInSeq(ws, LAMBDA v : v = w) ELSE Len(ws)
  IN IF ws = <<>> THEN ws ELSE [ws EXCEPT ![i] = Last(ws), ![Len(ws)] = ws[i]]

(* window_bring_to_front on the list. *)
ToFront(ws, w) == IF Contains(ws, w) THEN Append(RemoveFirst(ws, w), w) ELSE ws

NewWindow(s, content) ==
  [kind |-> "window", x |-> s[1], y |-> s[2], width |-> s[3], height |-> s[4],
   flags |-> {"VISIBLE"}, content |-> content]
NewBuffer == [kind |-> "buffer", cursor |-> 0]

(* Mutant of Released: the content is not freed. *)
ReleasedWindowOnly(m, w) == [m EXCEPT ![w] = FREE]

(* The memory after window_destroy has freed w and its content. *)
Released(m, w) == [a \in Addrs |-> IF a \in {w, m[w].content} THEN FREE ELSE m[a]]

-----------------------------------------------------------------------------
(* window_create, as window_create_file_browser and _text_editor call it.   *)
(* With MAX_WINDOWS windows, or without memory, nothing happens.            *)
Create(s) ==
  /\ Len(windows) < MAX_WINDOWS
  /\ \E w \in Free :
       /\ mem' = [mem EXCEPT ![w] = NewWindow(s, NULL)]
       /\ windows' = ToFront(Append(windows, w), w)
       /\ active_window' = w
  /\ UNCHANGED <<dragging_window, drag_offset>>

(* window_create_terminal: a window and its buffer. *)
CreateTerminal(s) ==
  /\ Len(windows) < MAX_WINDOWS
  /\ \E w \in Free : \E b \in Free \ {w} :
       /\ mem' = [mem EXCEPT ![w] = NewWindow(s, b), ![b] = NewBuffer]
       /\ windows' = ToFront(Append(windows, w), w)
       /\ active_window' = w
  /\ UNCHANGED <<dragging_window, drag_offset>>

(* The buffer cannot be allocated: the new window is destroyed again, and   *)
(* what was on top becomes active.                                          *)
CreateTerminalFails(s) ==
  /\ Len(windows) < MAX_WINDOWS
  /\ \E w \in Free :
       /\ windows' = RemoveFirst(ToFront(Append(windows, w), w), w)
       /\ active_window' = TopOf(windows')
       /\ mem' = Released([mem EXCEPT ![w] = NewWindow(s, NULL)], w)
  /\ UNCHANGED <<dragging_window, drag_offset>>

(* Mutant of DestroyWindow: the window stays active. *)
DestroyWindowStaysActive(w) ==
  /\ windows' = RemoveFirst(windows, w)
  /\ mem' = Released(mem, w)
  /\ UNCHANGED active_window

(* window_destroy: everything but the dragging state. *)
DestroyWindow(w) ==
  /\ windows' = RemoveFirst(windows, w)
  /\ active_window' = IF active_window = w THEN TopOf(windows') ELSE active_window
  /\ mem' = Released(mem, w)

Destroy(w) == DestroyWindow(w) /\ UNCHANGED <<dragging_window, drag_offset>>

Show(w) ==
  /\ mem' = [mem EXCEPT ![w].flags = @ \cup {"VISIBLE"}]
  /\ windows' = ToFront(windows, w)
  /\ active_window' = w
  /\ UNCHANGED <<dragging_window, drag_offset>>

(* The window stays where it is in the list: a topmost one remains active. *)
Hide(w) ==
  /\ mem' = [mem EXCEPT ![w].flags = @ \ {"VISIBLE"}]
  /\ active_window' = IF active_window = w THEN TopOf(windows) ELSE active_window
  /\ UNCHANGED <<windows, dragging_window, drag_offset>>

(* window_move, also to an address where there is no window any more: then  *)
(* what it writes is not part of this model.                                *)
Moved(w, x, y) ==
  IF IsWindow(w) THEN [mem EXCEPT ![w].x = x % COORD, ![w].y = y % COORD] ELSE mem

Move(w, p) ==
  /\ mem' = Moved(w, p[1], p[2])
  /\ UNCHANGED <<windows, active_window, dragging_window, drag_offset>>

BringToFront(w) ==
  /\ windows' = ToFront(windows, w)
  /\ active_window' = w
  /\ UNCHANGED <<mem, dragging_window, drag_offset>>

(* window_minimize ({"MINIMIZED"}), _maximize ({"MAXIMIZED"}), _restore ({}). *)
Sized(flags, new) == (flags \ {"MINIMIZED", "MAXIMIZED"}) \cup new

SetSize(w, new) ==
  /\ mem' = [mem EXCEPT ![w].flags = Sized(@, new)]
  /\ UNCHANGED <<windows, active_window, dragging_window, drag_offset>>

-----------------------------------------------------------------------------
(* window_handle_mouse *)

Covers(v, x, y) ==
  /\ "VISIBLE" \in v.flags
  /\ x >= v.x /\ x < v.x + v.width
  /\ y >= v.y /\ y < v.y + v.height

OnCloseButton(v, x, y) ==
  /\ x >= v.x + v.width - CLOSE_LEFT /\ x < v.x + v.width - CLOSE_RIGHT
  /\ y >= v.y + CLOSE_TOP /\ y < v.y + CLOSE_BOTTOM

(* The topmost visible window under the mouse, NULL if there is none. *)
Under(x, y) ==
  LET i == SelectLastInSeq(windows, LAMBDA w : Covers(mem[w], x, y))
  IN IF i = 0 THEN NULL ELSE windows[i]

MouseDrag(x, y) ==
  /\ dragging_window # NULL
  /\ mem' = Moved(dragging_window, x - drag_offset[1], y - drag_offset[2])
  /\ UNCHANGED <<windows, active_window, dragging_window, drag_offset>>

MouseDrop ==
  /\ dragging_window # NULL
  /\ dragging_window' = NULL
  /\ UNCHANGED <<mem, windows, active_window, drag_offset>>

(* A left click on the title bar starts a drag; the close button works with *)
(* or without a click, and after a drag has started.                        *)
MouseOnTitle(x, y, left) ==
  LET w == Under(x, y)
      v == mem[w]
      onTop == IF left THEN ToFront(windows, w) ELSE windows
      close == OnCloseButton(v, x, y)
  IN /\ dragging_window = NULL
     /\ w # NULL /\ y < v.y + TITLE_HEIGHT
     /\ left \/ close
     /\ dragging_window' = IF left THEN w ELSE NULL
     /\ drag_offset' = IF left THEN <<x - v.x, y - v.y>> ELSE drag_offset
     /\ IF close
          THEN /\ windows' = RemoveFirst(onTop, w)
               /\ active_window' = IF left \/ active_window = w
                                     THEN TopOf(windows') ELSE active_window
               /\ mem' = Released(mem, w)
          ELSE /\ windows' = onTop
               /\ active_window' = w
               /\ UNCHANGED mem

(* Mutant of TerminalKey: the last byte is not kept for the terminator. *)
TerminalKeyFills(b) == IF b.cursor < BUFFER_SIZE THEN [b EXCEPT !.cursor = @ + 1] ELSE b

(* terminal_key: one more character, if there is room for it and a NUL. *)
TerminalKey(b) == IF b.cursor < BUFFER_SIZE - 1 THEN [b EXCEPT !.cursor = @ + 1] ELSE b

(* window_handle_key: only terminals have on_key. *)
HandleKey ==
  /\ active_window # NULL
  /\ LET b == mem[active_window].content
     IN b # NULL /\ mem' = [mem EXCEPT ![b] = TerminalKey(@)]
  /\ UNCHANGED <<windows, active_window, dragging_window, drag_offset>>

Next ==
  \/ \E s \in Shapes : Create(s) \/ CreateTerminal(s) \/ CreateTerminalFails(s)
  \/ \E w \in {a \in Addrs : IsWindow(a)} :
       \/ Destroy(w) \/ Show(w) \/ Hide(w) \/ BringToFront(w)
       \/ \E p \in Points : Move(w, p)
       \/ \E new \in {{"MINIMIZED"}, {"MAXIMIZED"}, {}} : SetSize(w, new)
  \/ \E p \in Points :
       \/ MouseDrag(p[1], p[2])
       \/ \E left \in BOOLEAN : MouseOnTitle(p[1], p[2], left)
  \/ MouseDrop
  \/ HandleKey

Spec == Init /\ [][Next]_vars

-----------------------------------------------------------------------------
(* Properties.                                                             *)

(* An address holds a window, a buffer or nothing; the cursor of a buffer   *)
(* leaves the last byte to the terminator, and the list has room.           *)
TypeOK ==
  /\ \A a \in Addrs : mem[a] = FREE \/ mem[a] \in Window \/ mem[a] \in Buffer
  /\ windows \in Seq(Addrs) /\ Len(windows) <= MAX_WINDOWS
  /\ {active_window, dragging_window} \subseteq Addrs \cup {NULL}
  /\ drag_offset \in Int \X Int

(* The window that gets the keys is the topmost one, through every create,  *)
(* destroy, show, hide and click.                                           *)
ActiveIsTopmost == active_window = TopOf(windows)

(* The list holds each existing window once and nothing else: none is lost, *)
(* and window_update never follows a pointer to freed memory.               *)
ListHoldsWindows ==
  /\ ToSet(windows) = {a \in Addrs : IsWindow(a)}
  /\ IsInjective(windows)

(* Every terminal buffer is the content of exactly one window, and every    *)
(* content is a buffer: destroying windows leaks no buffer, frees none      *)
(* twice and takes none from a window that remains.                         *)
BuffersOwned ==
  /\ \A w \in ToSet(windows) :
       mem[w].content # NULL => mem[mem[w].content].kind = "buffer"
  /\ \A b \in Addrs : mem[b].kind = "buffer" =>
       Cardinality({w \in ToSet(windows) : mem[w].content = b}) = 1

Before(ws, a, b) ==
  \E i, j \in DOMAIN ws : i < j /\ ws[i] = a /\ ws[j] = b

(* Two windows change places in the stacking order only when one of them    *)
(* comes to the top.                                                        *)
StackingKept ==
  [][\A a, b \in ToSet(windows) \cap ToSet(windows') :
       Before(windows, a, b) /\ ~Before(windows', a, b) => a = TopOf(windows')]_vars

(* "Free window resources" (window.c:105): a window that has been destroyed *)
(* is no longer used, and the mouse in particular does not go on moving it. *)
DragsExistingWindow == dragging_window # NULL => IsWindow(dragging_window)

=============================================================================
