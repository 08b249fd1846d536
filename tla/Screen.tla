------------------------------- MODULE Screen -------------------------------
(***************************************************************************)
(* The screen library (libs/curses): windows whose changed columns are     *)
(* kept as one range per line, tmpwin, in which wnoutrefresh collects them, *)
(* curscr, what the terminal is believed to show, and the terminal.        *)
(* Rows and columns count from 0, a position is <<row, column>>, as in C.  *)
(***************************************************************************)
EXTENDS Integers, Sequences, FiniteSetsExt

CONSTANTS
    LINES, COLS,
    NONL,           \* the terminal turns a carriage return into a newline
    Letters,        \* printing characters that programs write
    Attributes,     \* values of _attrs; 0 is ATR_NRM
    Programs,       \* [calls, windows]: the functions a program uses, and the
                    \* [rows, cols, y, x] of windows it asks newwin for
    MaxCalls        \* bound on the calls of a program

ASSUME ScreenAssumption ==
    /\ LINES \in Nat \ {0} /\ COLS \in Nat \ {0} /\ NONL \in BOOLEAN
    /\ 0 \in Attributes /\ MaxCalls \in Nat

\* The letters are none of the characters that waddch does not print.
LettersPrint == Letters \cap {"\n", "\r", "\t", "BS"} = {}

\* newwin is asked for windows that lie on the screen: it does not look (newwin.c).
WindowsFit ==
    \A p \in Programs : \A u \in p.windows :
      /\ u.rows \in Nat \ {0} /\ u.cols \in Nat \ {0} /\ u.y \in Nat /\ u.x \in Nat
      /\ u.y + u.rows <= LINES /\ u.x + u.cols <= COLS

ASSUME ProgramAssumption == LettersPrint /\ WindowsFit

NoChange == -1      \* _NO_CHANGE
Space == " "

VARIABLES
    program,        \* the program that runs
    win,            \* the windows a program draws in, by name
    tmpwin, curscr,
    lastattr,       \* newattr's: the attributes the terminal writes with
    shown,          \* the terminal
    intact,         \* ghost: nothing else wrote on it since it was painted whole
    echoed,         \* ghost: cells that show a key, which tmpwin has not got
    calls

vars == <<program, win, tmpwin, curscr, lastattr, shown, intact, echoed, calls>>

-----------------------------------------------------------------------------
(* Windows.  _line[y] points to one of the rows newwin allocated.           *)

Rows(w) == 0 .. w.maxy
Columns(w) == 0 .. w.maxx
Cells(w) == Rows(w) \X Columns(w)

NewWindow(rows, cols, y, x) ==
    [maxy |-> rows - 1, maxx |-> cols - 1, begy |-> y, begx |-> x,
     cury |-> 0, curx |-> 0, attrs |-> 0, clear |-> FALSE, scroll |-> FALSE,
     line |-> [i \in 0 .. rows - 1 |-> i],
     row |-> [i \in 0 .. rows - 1 |-> [j \in 0 .. cols - 1 |-> <<Space, 0>>]],
     minchng |-> [i \in 0 .. rows - 1 |-> 0],
     maxchng |-> [i \in 0 .. rows - 1 |-> cols - 1],
     regtop |-> 0, regbottom |-> rows - 1]

Cell(w, y, x) == w.row[w.line[y]][x]
Blank(w) == <<Space, w.attrs>>
BlankRow(w) == [x \in Columns(w) |-> Blank(w)]
Text(w) == [p \in Cells(w) |-> Cell(w, p[1], p[2])]

\* w with glyphs g[x] in the columns DOMAIN g of line y, not recorded as changed.
Put(w, y, g) ==
    [w EXCEPT !.row[w.line[y]] =
        [x \in Columns(w) |-> IF x \in DOMAIN g THEN g[x] ELSE w.row[w.line[y]][x]]]

At(x, glyph) == [c \in {x} |-> glyph]

\* The range of line y grows to columns first .. last.
Widen(w, y, first, last) ==
    [w EXCEPT !.minchng[y] = IF @ = NoChange \/ @ > first THEN first ELSE @,
              !.maxchng[y] = IF @ < last THEN last ELSE @]

\* Lines in rows are changed from end to end.
Touch(w, rows) ==
    [w EXCEPT !.minchng = [y \in Rows(w) |-> IF y \in rows THEN 0 ELSE @[y]],
              !.maxchng = [y \in Rows(w) |-> IF y \in rows THEN w.maxx ELSE @[y]]]

touchwin(w) == Touch(w, Rows(w))

\* Lines top + 1 .. bottom move up, and the row of line top comes blank to bottom.
Up(w, top, bottom) ==
    [w EXCEPT !.row[w.line[top]] = BlankRow(w),
              !.line = [y \in Rows(w) |->
                          IF y = bottom THEN w.line[top]
                          ELSE IF y \in top .. bottom THEN w.line[y + 1] ELSE w.line[y]]]

\* Lines top .. bottom - 1 move down, and the row of line bottom comes blank to top.
Down(w, top, bottom) ==
    [w EXCEPT !.row[w.line[bottom]] = BlankRow(w),
              !.line = [y \in Rows(w) |->
                          IF y = top THEN w.line[bottom]
                          ELSE IF y \in top .. bottom THEN w.line[y - 1] ELSE w.line[y]]]

\* scroll(): up by a line, if allowed and the cursor is in the region.
scroll(w) ==
    IF ~ w.scroll \/ w.cury < w.regtop \/ w.cury > w.regbottom THEN w
    ELSE [Touch(Up(w, w.regtop, w.regbottom), w.regtop .. w.regbottom)
            EXCEPT !.cury = IF @ > w.regtop THEN @ - 1 ELSE @]

\* The cursor goes to column x of the line after y: newline() and the assignments
\* after it, which its error skips.
Newline(w, y, x) ==
    IF y + 1 <= w.regbottom THEN [w EXCEPT !.cury = y + 1, !.curx = x]
    ELSE IF w.scroll THEN [scroll(w) EXCEPT !.cury = y, !.curx = x]
    ELSE w

\* What waddch records of a character at x: an end of the range at most.
Noted(w, y, x) ==
    IF w.minchng[y] = NoChange THEN [w EXCEPT !.minchng[y] = x, !.maxchng[y] = x]
    ELSE IF x < w.minchng[y] THEN [w EXCEPT !.minchng[y] = x]
    ELSE IF x > w.maxchng[y] THEN [w EXCEPT !.maxchng[y] = x]
    ELSE w

\* waddch of a character that is printed, a newline, a return, a backspace.
Written(w, c) ==
    LET y == w.cury  x == w.curx  glyph == <<c, w.attrs>>
        noted == IF Cell(w, y, x) # glyph THEN Noted(w, y, x) ELSE w
        put == Put(noted, y, At(x, glyph))
    IN  IF x + 1 > w.maxx THEN Newline(put, y, 0) ELSE [put EXCEPT !.curx = x + 1]

\* A tab: spaces to the next stop, the end of the line or an error.
Tab(w) ==
    LET stop == ((w.curx \div 8) + 1) * 8
        upto[n \in w.curx .. stop] ==
          IF n = w.curx THEN w
          ELSE IF upto[n - 1].curx = n - 1 THEN Written(upto[n - 1], Space) ELSE upto[n - 1]
    IN  upto[stop]

waddch(w, c) ==
    CASE c = "\n" -> Newline(w, w.cury, IF NONL THEN 0 ELSE w.curx)
      [] c = "\r" -> [w EXCEPT !.curx = 0]
      [] c = "\t" -> Tab(w)
      [] c = "BS" -> [w EXCEPT !.curx = IF @ = 0 THEN 0 ELSE @ - 1]
      [] OTHER -> Written(w, c)

\* Variant for mutation: anywhere in the window.
wmoveAnywhere(w, y, x) ==
    IF x < 0 \/ x > w.maxx \/ y < 0 \/ y > w.maxy THEN w
    ELSE [w EXCEPT !.cury = y, !.curx = x]

wmove(w, y, x) ==
    IF x < 0 \/ x > w.maxx \/ y < w.regtop \/ y > w.regbottom THEN w
    ELSE [w EXCEPT !.cury = y, !.curx = x]

wsetscrreg(w, top, bottom) ==
    IF top <= w.cury /\ w.cury <= bottom /\ bottom <= w.maxy
    THEN [w EXCEPT !.regtop = top, !.regbottom = bottom] ELSE w

\* Insertion and deletion of a character at the cursor: the rest of the line moves.
winsch(w, c) ==
    LET shifted == [x \in w.curx + 1 .. w.maxx |-> Cell(w, w.cury, x - 1)]
    IN  IF c \in {"\n", "\r", "\t", "BS"} THEN waddch(w, c)
        ELSE waddch(Widen(Put(w, w.cury, shifted), w.cury, w.curx, w.maxx), c)

wdelch(w) ==
    LET shifted == [x \in w.curx .. w.maxx |->
                      IF x = w.maxx THEN Blank(w) ELSE Cell(w, w.cury, x + 1)]
    IN  Widen(Put(w, w.cury, shifted), w.cury, w.curx, w.maxx)

winsertln(w) == Touch(Down(w, w.cury, w.regbottom), w.cury .. w.regbottom)

\* Variant for mutation: the blank line at the bottom is not recorded.
BlankUnrecorded(w) == Touch(Up(w, w.cury, w.regbottom), w.cury .. w.regbottom - 1)

wdeleteln(w) == Touch(Up(w, w.cury, w.regbottom), w.cury .. w.regbottom)

\* Line y is blanked from column x on; the columns that were not blank are recorded.
Blanked(w, y, x) ==
    LET cleared == {c \in x .. w.maxx : Cell(w, y, c) # Blank(w)}
        put == Put(w, y, [c \in cleared |-> Blank(w)])
    IN  IF cleared = {} THEN w ELSE Widen(put, y, Min(cleared), Max(cleared))

wclrtoeol(w) == Blanked(w, w.cury, w.curx)

\* To the bottom of the scrolling region.
wclrtobot(w) ==
    LET below[y \in w.cury .. w.regbottom + 1] ==
          IF y = w.cury THEN w
          ELSE Blanked(below[y - 1], y - 1, IF y - 1 = w.cury THEN w.curx ELSE 0)
    IN  below[w.regbottom + 1]

\* The scrolling region only.
werase(w) ==
    LET region == w.regtop .. w.regbottom
        rows == {w.line[y] : y \in region}
    IN  [Touch(w, region) EXCEPT
           !.row = [r \in Rows(w) |-> IF r \in rows THEN BlankRow(w) ELSE @[r]],
           !.cury = w.regtop, !.curx = 0]

wclear(w) == [werase(w) EXCEPT !.clear = TRUE]

\* overlay and overwrite of v upon w: some characters are copied, with w's attributes.
Copied(v, w, cells) ==
    LET cols(y) == {x \in Columns(w) : <<y, x>> \in cells}
        glyphs(y) == [x \in cols(y) |-> <<Cell(v, y, x)[1], w.attrs>>]
        line(u, y) == IF cols(y) = {}
                      THEN IF u.minchng[y] = NoChange THEN [u EXCEPT !.maxchng[y] = 0] ELSE u
                      ELSE Widen(Put(u, y, glyphs(y)), y, Min(cols(y)), Max(cols(y)))
        upto[n \in 0 .. Min({v.maxy, w.maxy}) + 1] ==
          IF n = 0 THEN w ELSE line(upto[n - 1], n - 1)
    IN  upto[Min({v.maxy, w.maxy}) + 1]

overlay(v, w) ==
    Copied(v, w, {p \in Cells(v) \cap Cells(w) : Text(v)[p][1] # Space})
overwrite(v, w) ==
    Copied(v, w, {p \in Cells(v) \cap Cells(w) : Text(v)[p][1] # Text(w)[p][1]})

\* A box of character c with corners <<ymin, xmin>> and <<ymax, xmax>>, 0 for the maximum.
wbox(w, ymin, xmin, ymax0, xmax0, c) ==
    LET ymax == IF ymax0 = 0 THEN w.maxy ELSE ymax0
        xmax == IF xmax0 = 0 THEN w.maxx ELSE xmax0
        side(y) == IF y \in {ymin, ymax} THEN xmin .. xmax ELSE {xmin, xmax}
        upto[y \in ymin - 1 .. ymax] ==
          IF y = ymin - 1 THEN w
          ELSE Widen(Put(upto[y - 1], y, [x \in side(y) |-> <<c, w.attrs>>]), y, xmin, xmax)
    IN  IF ymax > w.maxy \/ xmax > w.maxx \/ ymin >= ymax \/ xmin >= xmax THEN w
        ELSE upto[ymax]

mvwin(w, y, x) ==
    IF y + w.maxy > LINES - 1 \/ x + w.maxx > COLS - 1 THEN w
    ELSE touchwin([w EXCEPT !.begy = y, !.begx = x])

-----------------------------------------------------------------------------
(* From windows to the terminal                                             *)

Screen == (0 .. LINES - 1) \X (0 .. COLS - 1)

\* wnoutrefresh: what w has changed is copied to tmpwin t, and recorded there.
Line(t, w, y) ==
    LET first == w.minchng[y]  last == w.maxchng[y]
        copied == [x \in w.begx + first .. w.begx + last |-> Cell(w, y, x - w.begx)]
    IN  IF first = NoChange THEN t
        ELSE Widen(Put(t, w.begy + y, copied), w.begy + y, w.begx + first, w.begx + last)

Desired(t, w) ==
    LET lines[n \in 0 .. w.maxy + 1] == IF n = 0 THEN t ELSE Line(lines[n - 1], w, n - 1)
    IN  [lines[w.maxy + 1] EXCEPT !.clear = @ \/ w.clear,
                                  !.cury = w.begy + w.cury, !.curx = w.begx + w.curx]

Unchanged(w) == [y \in Rows(w) |-> NoChange]

Flushed(w) ==
    [w EXCEPT !.minchng = Unchanged(w), !.maxchng = Unchanged(w), !.clear = FALSE]

\* The attributes the terminal is left with once the cells p of text are painted.
After(text, p, attr) ==
    LET last == CHOOSE q \in p : \A r \in p : r[1] < q[1] \/ (r[1] = q[1] /\ r[2] <= q[2])
    IN  IF p = {} THEN attr ELSE text[last][2]

\* clrupdate: everything that is not blank is painted on a cleared terminal.
clrupdate(attrs, text) ==
    LET p == {q \in Screen : text[q] # <<Space, 0>>}
    IN  [shown |-> [q \in Screen |-> IF q \in p THEN text[q] ELSE <<Space, 0>>],
         attr |-> After(text, p, attrs), intact |-> TRUE]

\* transformline, for every line with a change.
Transformed(t, c) ==
    LET old == Text(c)  new == Text(t)
        changed == {q \in Screen : /\ t.minchng[q[1]] # NoChange
                                   /\ q[2] \in t.minchng[q[1]] .. t.maxchng[q[1]]
                                   /\ old[q] # new[q]}
    IN  [shown |-> [q \in Screen |-> IF q \in changed THEN new[q] ELSE shown[q]],
         attr |-> After(new, changed, lastattr), intact |-> intact]

\* Variant for mutation: what is painted is not stored in curscr.
Unstored(t, c) == c

\* curscr once transformline has copied the ranges of t.
Image(t, c) ==
    [c EXCEPT !.row = [y \in Rows(c) |->
        [x \in Columns(c) |-> IF /\ t.minchng[y] # NoChange
                                 /\ x \in t.minchng[y] .. t.maxchng[y]
                              THEN Cell(t, y, x) ELSE c.row[y][x]]]]

WithCursor(c, t) == [c EXCEPT !.cury = t.cury, !.curx = t.curx]

\* doupdate, from tmpwin t and curscr c; cleared: tmpwin was painted whole.
doupdate(t, c) ==
    CASE c.clear -> [cleared |-> FALSE, tmpwin |-> t, curscr |-> WithCursor([c EXCEPT !.clear = FALSE], t),
                     terminal |-> clrupdate(c.attrs, Text(c))]
      [] ~ c.clear /\ t.clear ->
           [cleared |-> TRUE, tmpwin |-> [t EXCEPT !.clear = FALSE],
            curscr |-> WithCursor([c EXCEPT !.row = t.row], t),
            terminal |-> clrupdate(t.attrs, Text(t))]
      [] OTHER -> [cleared |-> FALSE, tmpwin |-> [t EXCEPT !.minchng = Unchanged(t), !.maxchng = Unchanged(t)],
                   curscr |-> WithCursor(Image(t, c), t),
                   terminal |-> Transformed(t, c)]

Dirty(w) == {p \in Cells(w) : /\ w.minchng[p[1]] # NoChange
                              /\ p[2] \in w.minchng[p[1]] .. w.maxchng[p[1]]}

Sending(w) == {<<w.begy + p[1], w.begx + p[2]>> : p \in Dirty(w)}

-----------------------------------------------------------------------------
(* Programs                                                                 *)

ScreenInit ==
    /\ program \in Programs
    /\ LET full == NewWindow(LINES, COLS, 0, 0)
       IN  /\ win = [w \in {"stdscr"} |-> full]
           /\ tmpwin = [full EXCEPT !.clear = TRUE]
           /\ curscr = full
    /\ lastattr = 0 /\ intact = FALSE /\ echoed = {} /\ calls = 0
    /\ shown = [q \in Screen |-> <<"?", 0>>]

Call(name) == name \in program.calls /\ calls < MaxCalls /\ calls' = calls + 1

Terminal == <<lastattr, shown, intact, echoed>>
Replace(w, new) ==
    win' = [win EXCEPT ![w] = new] /\ UNCHANGED <<program, tmpwin, curscr, Terminal>>

\* After doupdate; keep are the echoed keys that it leaves, if it does not clear.
Updated(u, keep) ==
    /\ echoed' = IF u.cleared THEN {} ELSE keep
    /\ tmpwin' = u.tmpwin /\ curscr' = u.curscr
    /\ shown' = u.terminal.shown /\ lastattr' = u.terminal.attr /\ intact' = u.terminal.intact

\* The functions of one window that only draw in it.
Write == \E w \in DOMAIN win :
    \/ \E c \in Letters \cup {Space} : Call("waddch") /\ Replace(w, waddch(win[w], c))
    \/ \E c \in {"\n", "\r", "\t", "BS"} : Call("control") /\ Replace(w, waddch(win[w], c))
    \/ \E c \in Letters \cup {"\n"} : Call("winsch") /\ Replace(w, winsch(win[w], c))

Erase == \E w \in DOMAIN win :
    \/ Call("wdelch") /\ Replace(w, wdelch(win[w]))
    \/ Call("winsertln") /\ Replace(w, winsertln(win[w]))
    \/ Call("wdeleteln") /\ Replace(w, wdeleteln(win[w]))
    \/ Call("wclrtoeol") /\ Replace(w, wclrtoeol(win[w]))
    \/ Call("wclrtobot") /\ Replace(w, wclrtobot(win[w]))
    \/ Call("werase") /\ Replace(w, werase(win[w]))
    \/ Call("wclear") /\ Replace(w, wclear(win[w]))
    \/ Call("scroll") /\ Replace(w, scroll(win[w]))

Arrange == \E w \in DOMAIN win :
    \/ \E p \in Cells(win[w]) : Call("wmove") /\ Replace(w, wmove(win[w], p[1], p[2]))
    \/ \E top, bottom \in Rows(win[w]) :
         Call("wsetscrreg") /\ Replace(w, wsetscrreg(win[w], top, bottom))
    \/ \E a \in Attributes : Call("wattrset") /\ Replace(w, [win[w] EXCEPT !.attrs = a])
    \/ Call("scrollok") /\ Replace(w, [win[w] EXCEPT !.scroll = ~ @])
    \/ \E p, q \in Cells(win[w]), c \in Letters :
         Call("wbox") /\ Replace(w, wbox(win[w], p[1], p[2], q[1], q[2], c))
    \/ Call("clearok") /\ Replace(w, [win[w] EXCEPT !.clear = TRUE])
    \/ Call("touchwin") /\ Replace(w, touchwin(win[w]))
    \/ \E p \in Screen : Call("mvwin") /\ Replace(w, mvwin(win[w], p[1], p[2]))
    \/ \E v \in DOMAIN win \ {w} :
         \/ Call("overlay") /\ Replace(w, overlay(win[v], win[w]))
         \/ Call("overwrite") /\ Replace(w, overwrite(win[v], win[w]))

newwin == \E u \in program.windows :
    /\ Call("newwin") /\ "w" \notin DOMAIN win
    /\ win' = [v \in DOMAIN win \cup {"w"} |->
                 IF v = "w" THEN NewWindow(u.rows, u.cols, u.y, u.x) ELSE win[v]]
    /\ UNCHANGED <<program, tmpwin, curscr, Terminal>>

delwin ==
    /\ Call("delwin") /\ "w" \in DOMAIN win
    /\ win' = [v \in DOMAIN win \ {"w"} |-> win[v]]
    /\ UNCHANGED <<program, tmpwin, curscr, Terminal>>

wnoutrefresh == \E w \in DOMAIN win :
    /\ Call("wnoutrefresh")
    /\ tmpwin' = Desired(tmpwin, win[w])
    /\ win' = [win EXCEPT ![w] = Flushed(@)]
    /\ echoed' = echoed \ Sending(win[w])
    /\ UNCHANGED <<program, curscr, lastattr, shown, intact>>

update == Call("doupdate") /\ Updated(doupdate(tmpwin, curscr), echoed) /\ UNCHANGED <<program, win>>

wrefresh == \E w \in DOMAIN win :
    /\ Call("wrefresh")
    /\ Updated(doupdate(Desired(tmpwin, win[w]), curscr), echoed \ Sending(win[w]))
    /\ win' = [win EXCEPT ![w] = Flushed(@)]
    /\ UNCHANGED program

\* wrefresh(curscr) and clearok(curscr, TRUE)
redraw ==
    \/ /\ Call("redraw")
       /\ Updated(doupdate(tmpwin, [curscr EXCEPT !.clear = TRUE]), echoed)
       /\ UNCHANGED <<program, win>>
    \/ /\ Call("redraw")
       /\ tmpwin' = [tmpwin EXCEPT !.clear = TRUE]
       /\ UNCHANGED <<program, win, curscr, Terminal>>

\* A refresh, then a key that the terminal echoes and that goes to curscr and w.
wgetch == \E w \in DOMAIN win, c \in Letters :
    LET u == doupdate(Desired(tmpwin, win[w]), curscr)
        y == win[w].begy + win[w].cury  x == win[w].begx + win[w].curx
        full == win[w].maxy = LINES - 1 /\ win[w].maxx = COLS - 1
    IN  /\ Call("wgetch")
        /\ ~ (full /\ ~ win[w].scroll /\ win[w].curx = COLS - 2 /\ win[w].cury = LINES - 2)
        /\ tmpwin' = u.tmpwin /\ lastattr' = u.terminal.attr /\ intact' = u.terminal.intact
        /\ echoed' = (IF u.cleared THEN {} ELSE echoed \ Sending(win[w])) \cup {<<y, x>>}
        /\ shown' = [u.terminal.shown EXCEPT ![<<y, x>>] = <<c, lastattr'>>]
        /\ curscr' = waddch(wmove(u.curscr, y, x), c)
        /\ win' = [win EXCEPT ![w] = waddch(Flushed(@), c)]
        /\ UNCHANGED program

\* Something else writes on the terminal.
garble ==
    /\ Call("garble") /\ intact
    /\ shown' = [q \in Screen |-> <<"?", 0>>] /\ intact' = FALSE
    /\ UNCHANGED <<program, win, tmpwin, curscr, lastattr, echoed>>

ScreenNext ==
    \/ Write \/ Erase \/ Arrange \/ newwin \/ delwin
    \/ wnoutrefresh \/ update \/ wrefresh \/ redraw \/ wgetch \/ garble

ScreenSpec == ScreenInit /\ [][ScreenNext]_vars

-----------------------------------------------------------------------------
(* Properties                                                               *)

\* Every line of a window points to a row of its own, so that delwin frees each
\* once; newwin, scroll, winsertln and wdeleteln pass rows around (newwin.c,
\* winscrol.c, winsertln.c, wdeleteln.c), which wmove and wsetscrreg keep safe.
RowsOwnedOnce ==
    \A w \in DOMAIN win : \A y, z \in Rows(win[w]) :
      win[w].line[y] = win[w].line[z] => y = z

\* Unless something else wrote on it, the terminal shows what curscr says: what
\* doupdate leaves unpainted is there already (doupdt.c).  A key that the terminal
\* echoes has the terminal's attributes, of which curscr knows nothing.
CurscrIsShown ==
    intact => \A q \in Screen :
      IF "wgetch" \in program.calls THEN shown[q][1] = Text(curscr)[q][1]
      ELSE shown[q] = Text(curscr)[q]

Shown == INSTANCE Display WITH
    text <- [w \in DOMAIN win |-> Text(win[w])],
    at <- [w \in DOMAIN win |-> <<win[w].begy, win[w].begx>>],
    dirty <- [w \in DOMAIN win |-> Dirty(win[w])],
    desired <- Text(tmpwin), image <- Text(curscr)

\* The library implements Display: every cell that a call changes is in the range of
\* its line, wnoutrefresh sends what the ranges hold, and doupdate paints all that
\* differs from the last update, however calls on windows are interleaved.
IsADisplay == Shown!Spec

=============================================================================
