------------------------------ MODULE KxoScreen -------------------------------
(***************************************************************************)
(* What user/xo-user.c and user/tui.c leave on the terminal.  The screen   *)
(* is a set of pieces (a board's grid, a record line, a tab's border ...), *)
(* each with the character cells tui.c writes it to and with what it shows *)
(* now.  Painting a piece spoils every other piece that has a cell in      *)
(* common with it, so that a wrong coordinate shows up as a wrong screen.  *)
(* What is inside a piece is a number: the step count that stands for a    *)
(* record, the tab of a label, the second of a load average.               *)
(* The terminal is at least 106 columns by 70 rows; nothing checks it.     *)
(***************************************************************************)
EXTENDS Integers, FiniteSets, TLC

CONSTANTS
  N_GAMES,        (* 9 in the program                                      *)
  LiveSets,       (* sets of games whose records the viewer gets           *)
  Steps,          (* moves of a record, of 1..16                           *)
  MaxSec          (* seconds that pass                                     *)

ASSUME ScreenAssumption ==
  /\ N_GAMES \in 1 .. 16 /\ \A L \in LiveSets : L \subseteq 0 .. N_GAMES - 1
  /\ Steps \subseteq 1 .. 16 /\ MaxSec \in Nat

Games == 0 .. N_GAMES - 1
Records == [id : Games, steps : Steps]
XO_TAB_RECORD == 0
XO_TAB_LOADAVG == 1
TAB_TOTLEN == 2

VARIABLES
  live,           (* the games that move                                   *)
  screen,         (* what each piece shows                                 *)
  rest,           (* per record line, the moves of older records in it     *)
  read_attr,
  tlb, tab,       (* the task_obj                                          *)
  prev_tab, start,        (* tui.c's statics; start in seconds             *)
  now,            (* seconds                                               *)
  last,           (* the steps of each game's last record: history         *)
  garbled,        (* the tab shows what was never read: history            *)
  pc              (* the task about to run: io or tab; or done             *)

tuiVars == <<prev_tab, start, garbled>>
screenVars == <<live, screen, rest, read_attr, tlb, tab, tuiVars, now, last, pc>>

-----------------------------------------------------------------------------
(* Cells.  gotoxy(0, y) goes to column 1.                                  *)
Row(x, y, w) == {<<c, y>> : c \in x .. x + w - 1}
Column(x, y, h) == {<<x, r>> : r \in y .. y + h - 1}
Block(x, y, w, h) == (x .. x + w - 1) \X (y .. y + h - 1)
At(x) == IF x = 0 THEN 1 ELSE x

UI_COLS == 3
BOARD_W == 35
BOARD_H == 13
TAB_CTX_BASEY == 52
TAB_LABEL_BASEY == 49

(* render_boards_temp: neighbours share their lines.                       *)
FrameCells(i) ==
  LET x == (i % UI_COLS) * BOARD_W
      y == 10 + (i \div UI_COLS) * 12
  IN  (IF i < UI_COLS THEN Row(At(x), y + 1, BOARD_W + 1) ELSE {})
        \cup {<<At(x + j), 10 + y + 3>> : j \in 0 .. BOARD_W - 1}
        \cup Column(At(x), y + 1, 13)
        \cup (IF (i + 1) % UI_COLS = 0 \/ i + 1 = N_GAMES
              THEN Column(x + BOARD_W, y + 1, 13) ELSE {})

(* update_table: the board of game id, its name above and its players      *)
(* below.                                                                  *)
BoardX(id) == (id % UI_COLS) * BOARD_W + 1
BoardY(id) == 10 + (id \div UI_COLS) * (BOARD_H - 1)
NameCells(id) == Row(BoardX(id) + 15, BoardY(id) + 2, 6)
GridCells(id) == Block(BoardX(id) + 9, BoardY(id) + 3, 17, 9)
FooterCells(id) == Row(BoardX(id) + 12, BoardY(id) + 12, 12)

(* xo_record: a move takes five columns, of which the square is the second *)
(* and the third; 77 blanks come first.                                    *)
LineY(id) == 53 + id
SlotCells(i) == 11 + 5 * i + 1 .. 11 + 5 * i + 2
LineBlanks == 11 .. 11 + 76
LineCells(id) == Row(11, LineY(id), 16 * 5)
Unblanked == {i \in 0 .. 15 : ~(SlotCells(i) \subseteq LineBlanks)}

(* draw_tab_border and draw_tab_label.                                     *)
High(t) == IF t = XO_TAB_RECORD THEN 11 ELSE 10
tab_maxh == 11
BorderCells(t) ==
  Column(1, TAB_CTX_BASEY, High(t)) \cup Column(105, TAB_CTX_BASEY, High(t))
    \cup Row(1, TAB_CTX_BASEY + High(t), 105)
LabelCells == Block(1, TAB_LABEL_BASEY, 23, 3) \cup Row(24, TAB_LABEL_BASEY + 2, 82)

CellsOf(p) ==
  LET kind == p[1]  n == p[2]
  IN  CASE kind = "frames" -> UNION {FrameCells(i) : i \in Games}
        [] kind = "logo" -> Block(38, 1, 32, 9)
        [] kind = "clock" -> Row(50, 48, 8)
        [] kind = "stop" -> Block(1, 8, 13, 3)
        [] kind = "name" -> NameCells(n)
        [] kind = "grid" -> GridCells(n)
        [] kind = "footer" -> FooterCells(n)
        [] kind = "label" -> LabelCells
        [] kind = "border" -> BorderCells(n)
        [] kind = "games" -> UNION {Row(4, LineY(i), 7) : i \in Games}
        [] kind = "line" -> LineCells(n)
        [] kind = "title" -> Row(17, 52, 53)
        [] kind = "avg" -> Row(20, 53 + n, 53)

Pieces ==
  {<<k, g>> : k \in {"name", "grid", "footer", "line", "avg"}, g \in Games}
    \cup {<<k, 0>> : k \in {"frames", "logo", "clock", "stop", "label", "games", "title"}}
    \cup {<<"border", t>> : t \in {XO_TAB_RECORD, XO_TAB_LOADAVG}}

Blank == 0
Spoiled == -1

(* The pairs of pieces with a cell in common, and the pieces in the rows   *)
(* that draw_tab_border clears before it draws.                            *)
Under(p) == {q \in Pieces \ {p} : CellsOf(p) \cap CellsOf(q) # {}}
Overlaps == UNION {{<<p, q>> : q \in Under(p)} : p \in Pieces}
InRows(lo, hi) == {q \in Pieces : \A c \in CellsOf(q) : c[2] \in lo .. hi}
ClearedShort ==                           \* MUTANT: one row too few
  InRows(TAB_CTX_BASEY, TAB_CTX_BASEY + tab_maxh - 1)
Cleared == InRows(TAB_CTX_BASEY, TAB_CTX_BASEY + tab_maxh)
Garbled == {q \in Pieces : \E c \in CellsOf(q) : c[2] \in 53 .. 69}

-----------------------------------------------------------------------------
(* Painting.                                                               *)
Paint(s, ps, c) ==
  LET under == {pq[2] : pq \in {o \in Overlaps : o[1] \in ps}} \ ps
  IN  [q \in ps |-> c] @@ [q \in {u \in under : s[u] # Blank} |-> Spoiled] @@ s

update_table(s, r) == Paint(s, {"name", "grid", "footer"} \X {r.id}, r.steps)

stop_message(s, stop) == Paint(s, {<<"stop", 0>>}, IF stop THEN 1 ELSE Blank)

print_now(s) == Paint(s, {<<"clock", 0>>}, 1)

draw_tab_border(s, t) ==
  Paint([q \in Cleared |-> Blank] @@ s, {<<"border", t>>}, 1)

draw_tab_label(s, t) == Paint(s, {<<"label", 0>>}, t + 1)

xo_record(s, r) ==
  LET bordered == IF prev_tab # XO_TAB_RECORD THEN draw_tab_border(s, XO_TAB_RECORD) ELSE s
  IN  Paint(Paint(bordered, {<<"games", 0>>}, 1), {<<"line", r.id>>}, r.steps)

(* What the blanks and the new moves leave of the line's old ones.         *)
Rest(r) ==
  ((rest[r.id] \cup 0 .. screen[<<"line", r.id>>] - 1) \cap Unblanked) \ 0 .. r.steps - 1

render_loadavg(s) ==
  Paint(Paint(draw_tab_border(s, XO_TAB_LOADAVG), {<<"title", 0>>}, 1),
        {"avg"} \X Games, now + 1)

-----------------------------------------------------------------------------
(* task_io, for each thing that may end its wait.                          *)
Io(s) == pc = "io" /\ pc' = "tab" /\ screen' = stop_message(s, ~read_attr')
                   /\ UNCHANGED <<live, rest, tuiVars, now>>

Record(r) ==
  /\ read_attr /\ r.id \in live
  /\ tlb' = r /\ last' = [last EXCEPT ![r.id] = r.steps]
  /\ UNCHANGED <<read_attr, tab>>
  /\ Io(update_table(screen, r))

(* A record is there, and the viewer does not read it.                     *)
Unread == ~read_attr /\ UNCHANGED <<read_attr, tlb, tab, last>> /\ Io(screen)

CtrlP == read_attr' = ~read_attr /\ UNCHANGED <<tlb, tab, last>> /\ Io(screen)

KeyTab(t) == tab' = t /\ UNCHANGED <<read_attr, tlb, last>> /\ Io(screen)

(* The loop ends after the tab's turn, which read_attr keeps from drawing. *)
(* The message that Ctrl-Q prints stands until tui_quit leaves the screen. *)
CtrlQ ==
  /\ pc = "io" /\ read_attr' = FALSE /\ pc' = "done"
  /\ screen' = stop_message(screen, TRUE)
  /\ UNCHANGED <<live, rest, tlb, tab, tuiVars, now, last>>

-----------------------------------------------------------------------------
(* task_tab, and print_now of the next round.  tlb is not initialised:     *)
(* drawn before the first record, its line may be anywhere from the first  *)
(* on and of any length; the tab region is not followed from there on.     *)
Unset == [id |-> 0, steps |-> 0]

NextRound(s) == pc' = "io" /\ screen' = print_now(s)
TabUnchanged == UNCHANGED <<live, read_attr, tlb, tab, now, last>>

TabPaused ==
  /\ pc = "tab" /\ ~read_attr /\ NextRound(screen)
  /\ TabUnchanged /\ UNCHANGED <<rest, tuiVars>>

TabRecord ==
  /\ pc = "tab" /\ read_attr /\ tab = XO_TAB_RECORD /\ tlb # Unset
  /\ NextRound(xo_record(draw_tab_label(screen, tab), tlb))
  /\ rest' = IF prev_tab = XO_TAB_RECORD THEN [rest EXCEPT ![tlb.id] = Rest(tlb)]
                                          ELSE [g \in Games |-> {}]
  /\ prev_tab' = tab /\ garbled' = (garbled /\ prev_tab = XO_TAB_RECORD)
  /\ TabUnchanged /\ UNCHANGED start

TabGarbage ==
  /\ pc = "tab" /\ read_attr /\ tab = XO_TAB_RECORD /\ tlb = Unset
  /\ LET labelled == draw_tab_label(screen, tab)
     IN  NextRound([q \in Garbled |-> Spoiled] @@ labelled)
  /\ prev_tab' = tab /\ garbled' = TRUE
  /\ TabUnchanged /\ UNCHANGED <<rest, start>>

(* xo_loadavg; the nanoseconds never add up to a second.                   *)
Refresh == prev_tab # XO_TAB_LOADAVG \/ now - start >= 1

TabLoadavg ==
  /\ pc = "tab" /\ read_attr /\ tab = XO_TAB_LOADAVG
  /\ LET labelled == draw_tab_label(screen, tab)
     IN  IF Refresh THEN NextRound(render_loadavg(labelled)) /\ start' = now
                    ELSE NextRound(labelled) /\ UNCHANGED start
  /\ rest' = IF Refresh THEN [g \in Games |-> {}] ELSE rest
  /\ prev_tab' = tab /\ garbled' = (garbled /\ ~Refresh)
  /\ TabUnchanged

Second ==
  /\ pc # "done" /\ now < MaxSec /\ now' = now + 1
  /\ UNCHANGED <<live, screen, rest, read_attr, tlb, tab, tuiVars, last, pc>>

-----------------------------------------------------------------------------
ScreenInit ==
  /\ live \in LiveSets
  /\ screen = print_now(Paint(Paint([p \in Pieces |-> Blank], {<<"logo", 0>>}, 1),
                              {<<"frames", 0>>}, 1))
  /\ rest = [g \in Games |-> {}] /\ last = [g \in Games |-> 0]
  /\ read_attr = TRUE /\ tlb = Unset /\ tab = XO_TAB_RECORD
  /\ prev_tab = TAB_TOTLEN /\ start = 0 /\ now = 0 /\ pc = "io"
  /\ garbled = FALSE

ScreenNext ==
  \/ (\E r \in Records : Record(r)) \/ Unread \/ CtrlP \/ CtrlQ
  \/ \E t \in {XO_TAB_RECORD, XO_TAB_LOADAVG} : KeyTab(t)
  \/ TabPaused \/ TabRecord \/ TabGarbage \/ TabLoadavg \/ Second

ScreenSpec == ScreenInit /\ [][ScreenNext]_screenVars

-----------------------------------------------------------------------------
Shows(p, n, c) == screen[<<p, n>>] = c

(* Nine boards, each with its game's last record under its own name, in    *)
(* frames nothing is drawn over, whatever the tabs, the clock, the logo    *)
(* and the stop message do beside them.                                    *)
BoardsTrue ==
  /\ \A p \in {"frames", "logo", "clock"} : Shows(p, 0, 1)
  /\ \A g \in Games : \A p \in {"name", "grid", "footer"} : Shows(p, g, last[g])

(* The stop message stands on the screen exactly while the viewer does not *)
(* read.                                                                   *)
StopTrue == Shows("stop", 0, 1) <=> ~read_attr

(* The label, the border and the contents of the tab region belong to one  *)
(* tab: nothing of the other one is left when the tab changes.             *)
TabTrue ==
  prev_tab # TAB_TOTLEN /\ ~garbled =>
    LET isRecord == prev_tab = XO_TAB_RECORD
        On(b) == IF b THEN 1 ELSE Blank
    IN  /\ Shows("label", 0, prev_tab + 1)
        /\ Shows("border", XO_TAB_RECORD, On(isRecord)) /\ Shows("games", 0, On(isRecord))
        /\ Shows("border", XO_TAB_LOADAVG, On(~isRecord)) /\ Shows("title", 0, On(~isRecord))
        /\ \A g \in Games : Shows(IF isRecord THEN "avg" ELSE "line", g, Blank)

(* A record line shows its game's last record or nothing, and of older     *)
(* records no more than the sixteenth move, which is beyond the blanks.    *)
LinesTrue ==
  prev_tab = XO_TAB_RECORD /\ pc = "io" /\ ~garbled =>
    \A g \in Games :
      (Shows("line", g, last[g]) \/ Shows("line", g, Blank)) /\ rest[g] \subseteq {15}
=============================================================================
