---------------------------- MODULE ScreenProofs ----------------------------
(***************************************************************************)
(* That no change is lost between a window and the terminal, for a screen  *)
(* of any size, any windows upon it and any order of calls.                *)
(*                                                                         *)
(* Draws(w, v) says what every function of one window promises: v is a     *)
(* sound window of the same place and size, and each cell in which it      *)
(* differs from w is in the range of changes of its line.  It is shown for *)
(* each function; a function that works line by line (wclrtobot, wbox,     *)
(* overlay, wnoutrefresh, a tab) is a run of steps that draw.  What        *)
(* wnoutrefresh and doupdate do is then said cell by cell (HasSent,        *)
(* Paints), and ScreenInv, the inductive invariant, is that the windows    *)
(* are sound and lie on the screen, that every cell that curscr has not    *)
(* got from tmpwin is recorded there or shows an echoed key, and that the  *)
(* terminal shows what curscr says.                                        *)
(***************************************************************************)
EXTENDS Screen, Induction

(***************************************************************************)
(* Windows that are sound, and what it is to draw in one                   *)
(***************************************************************************)

Fields == {"maxy", "maxx", "begy", "begx", "cury", "curx", "attrs", "clear", "scroll",
           "line", "row", "minchng", "maxchng", "regtop", "regbottom"}

Glyph == (Letters \cup {Space}) \X Attributes

IsWindow(w) == w = [f \in Fields |-> w[f]]

\* v is w but for what its lines hold and what is recorded of them.
SameFrame(w, v) ==
    /\ IsWindow(v) /\ v.maxy = w.maxy /\ v.maxx = w.maxx /\ v.begy = w.begy /\ v.begx = w.begx
    /\ v.attrs = w.attrs /\ v.clear = w.clear /\ v.scroll = w.scroll
    /\ v.regtop = w.regtop /\ v.regbottom = w.regbottom
    /\ v.cury = w.cury /\ v.curx = w.curx

\* v is w but for its cursor, attributes, region and flags.
SameLines(w, v) ==
    /\ IsWindow(v) /\ v.maxy = w.maxy /\ v.maxx = w.maxx /\ v.begy = w.begy /\ v.begx = w.begx
    /\ v.line = w.line /\ v.row = w.row /\ v.minchng = w.minchng /\ v.maxchng = w.maxchng

\* The size and the flags of a window.
Framed(w) ==
    /\ IsWindow(w) /\ w.maxy \in Nat /\ w.maxx \in Nat /\ w.begy \in Nat /\ w.begx \in Nat
    /\ w.attrs \in Attributes /\ w.clear \in BOOLEAN /\ w.scroll \in BOOLEAN

\* Each line has its row.
Lined(w) ==
    /\ w.line \in [0 .. w.maxy -> 0 .. w.maxy]
    /\ \A y, z \in 0 .. w.maxy : w.line[y] = w.line[z] => y = z

\* The cursor is in the scrolling region.
Pointed(w) ==
    /\ w.regtop \in Nat /\ w.cury \in Nat /\ w.regbottom \in Nat
    /\ w.regtop <= w.cury /\ w.cury <= w.regbottom /\ w.regbottom <= w.maxy
    /\ w.curx \in 0 .. w.maxx

\* A line is unchanged or changed in some of its columns.
Ranged(w) ==
    /\ w.minchng \in [0 .. w.maxy -> Int] /\ w.maxchng \in [0 .. w.maxy -> Int]
    /\ \A y \in 0 .. w.maxy :
         \/ w.minchng[y] = -1 /\ w.maxchng[y] \in {-1, 0}
         \/ 0 <= w.minchng[y] /\ w.minchng[y] <= w.maxchng[y] /\ w.maxchng[y] <= w.maxx

Held(w) == w.row \in [0 .. w.maxy -> [0 .. w.maxx -> Glyph]]

Sound(w) == Framed(w) /\ Lined(w) /\ Pointed(w) /\ Ranged(w) /\ Held(w)

\* The cell is in the range of its line.
Within(w, y, x) == w.minchng[y] # -1 /\ w.minchng[y] <= x /\ x <= w.maxchng[y]

\* v is w after something was drawn: all that changed is in the range of its line.
Draws(w, v) ==
    /\ Sound(v) /\ v.maxy = w.maxy /\ v.maxx = w.maxx /\ v.begy = w.begy /\ v.begx = w.begx
    /\ \A y \in 0 .. w.maxy, x \in 0 .. w.maxx :
         Within(w, y, x) \/ Cell(v, y, x) # Cell(w, y, x) => Within(v, y, x)

LEMMA DrawsNothing ==
  ASSUME NEW w, Sound(w)
  PROVE  Draws(w, w)
BY DEF Draws

LEMMA DrawsOn ==
  ASSUME NEW w, NEW u, NEW v, Draws(w, u), Draws(u, v)
  PROVE  Draws(w, v)
BY DEF Draws

\* Where the lines stay the same, a window only needs a place for its cursor.
LEMMA SameLinesDraws ==
  ASSUME NEW w, Sound(w), NEW v, SameLines(w, v), Pointed(v),
         v.attrs \in Attributes, v.clear \in BOOLEAN, v.scroll \in BOOLEAN
  PROVE  Draws(w, v)
<1>1. Framed(v)
  BY DEF Sound, Framed, SameLines
<1>2. Lined(v) /\ Ranged(v) /\ Held(v)
  BY DEF Sound, Lined, Ranged, Held, SameLines
<1>3. \A y, x : Cell(v, y, x) = Cell(w, y, x) /\ (Within(w, y, x) <=> Within(v, y, x))
  BY DEF SameLines, Cell, Within
<1> QED
  BY <1>1, <1>2, <1>3 DEF Draws, Sound, SameLines

\* The row of line y with glyphs g, and the ends of a range that grows.
Overlaid(w, y, g) ==
    [x \in 0 .. w.maxx |-> IF x \in DOMAIN g THEN g[x] ELSE w.row[w.line[y]][x]]
Lowered(m, y, first) == [m EXCEPT ![y] = IF @ = -1 \/ @ > first THEN first ELSE @]
Raised(m, y, last) == [m EXCEPT ![y] = IF @ < last THEN last ELSE @]

(***************************************************************************)
(* What the helpers change of a window                                     *)
(***************************************************************************)

LEMMA PutIs ==
  ASSUME NEW w, IsWindow(w), NEW y, NEW g
  PROVE  /\ SameFrame(w, Put(w, y, g))
         /\ Put(w, y, g).line = w.line
         /\ Put(w, y, g).minchng = w.minchng /\ Put(w, y, g).maxchng = w.maxchng
         /\ Put(w, y, g).row = [w.row EXCEPT ![w.line[y]] = Overlaid(w, y, g)]
BY DEF SameFrame, IsWindow, Fields, Put, Columns, Overlaid

LEMMA PutKeepsRanges ==
  ASSUME NEW w, IsWindow(w), NEW y, NEW g
  PROVE  Put(w, y, g).minchng = w.minchng /\ Put(w, y, g).maxchng = w.maxchng
BY DEF IsWindow, Fields, Put

LEMMA WidenIs ==
  ASSUME NEW w, IsWindow(w), NEW y, NEW first, NEW last
  PROVE  /\ SameFrame(w, Widen(w, y, first, last))
         /\ Widen(w, y, first, last).line = w.line /\ Widen(w, y, first, last).row = w.row
         /\ Widen(w, y, first, last).minchng = Lowered(w.minchng, y, first)
         /\ Widen(w, y, first, last).maxchng = Raised(w.maxchng, y, last)
BY DEF SameFrame, IsWindow, Fields, Widen, NoChange, Lowered, Raised

LEMMA TouchIs ==
  ASSUME NEW w, IsWindow(w), NEW rows
  PROVE  /\ SameFrame(w, Touch(w, rows))
         /\ Touch(w, rows).line = w.line /\ Touch(w, rows).row = w.row
         /\ Touch(w, rows).minchng = [y \in 0 .. w.maxy |-> IF y \in rows THEN 0 ELSE w.minchng[y]]
         /\ Touch(w, rows).maxchng = [y \in 0 .. w.maxy |-> IF y \in rows THEN w.maxx ELSE w.maxchng[y]]
BY DEF SameFrame, IsWindow, Fields, Touch, Rows

\* The lines of a region once they have moved.
UpLines(w, top, bottom) ==
    [y \in 0 .. w.maxy |-> IF y = bottom THEN w.line[top]
                          ELSE IF y \in top .. bottom THEN w.line[y + 1] ELSE w.line[y]]
DownLines(w, top, bottom) ==
    [y \in 0 .. w.maxy |-> IF y = top THEN w.line[bottom]
                          ELSE IF y \in top .. bottom THEN w.line[y - 1] ELSE w.line[y]]

LEMMA UpIs ==
  ASSUME NEW w, IsWindow(w), NEW top, NEW bottom
  PROVE  /\ SameFrame(w, Up(w, top, bottom))
         /\ Up(w, top, bottom).minchng = w.minchng /\ Up(w, top, bottom).maxchng = w.maxchng
         /\ Up(w, top, bottom).row = [w.row EXCEPT ![w.line[top]] = BlankRow(w)]
         /\ Up(w, top, bottom).line = UpLines(w, top, bottom)
BY DEF SameFrame, IsWindow, Fields, Up, Rows, UpLines

LEMMA DownIs ==
  ASSUME NEW w, IsWindow(w), NEW top, NEW bottom
  PROVE  /\ SameFrame(w, Down(w, top, bottom))
         /\ Down(w, top, bottom).minchng = w.minchng /\ Down(w, top, bottom).maxchng = w.maxchng
         /\ Down(w, top, bottom).row = [w.row EXCEPT ![w.line[bottom]] = BlankRow(w)]
         /\ Down(w, top, bottom).line = DownLines(w, top, bottom)
BY DEF SameFrame, IsWindow, Fields, Down, Rows, DownLines

\* The parts of a window that an operation does not touch.
LEMMA FrameKept ==
  ASSUME NEW w, Sound(w), NEW v, SameFrame(w, v)
  PROVE  Framed(v) /\ Pointed(v)
BY DEF Sound, Framed, Pointed, SameFrame

(***************************************************************************)
(* Each function of a window only draws in it                              *)
(***************************************************************************)

\* Glyphs put where the range of the line has them.
LEMMA PutDraws ==
  ASSUME NEW w, Sound(w), NEW y \in 0 .. w.maxy, NEW g,
         \A x \in 0 .. w.maxx : x \in DOMAIN g => g[x] \in Glyph /\ (Cell(w, y, x) # g[x] => Within(w, y, x))
  PROVE  Draws(w, Put(w, y, g))
<1>1. PICK v : v = Put(w, y, g)
  OBVIOUS
<1> DEFINE r == Overlaid(w, y, g)
<1>2. /\ SameFrame(w, v) /\ v.line = w.line /\ v.minchng = w.minchng /\ v.maxchng = w.maxchng
      /\ v.row = [w.row EXCEPT ![w.line[y]] = r]
  BY <1>1, PutIs DEF Sound, Framed
<1>3. /\ w.line \in [0 .. w.maxy -> 0 .. w.maxy] /\ w.row \in [0 .. w.maxy -> [0 .. w.maxx -> Glyph]]
      /\ \A z \in 0 .. w.maxy : w.line[z] = w.line[y] => z = y
  BY DEF Sound, Lined, Held
<1>4. r \in [0 .. w.maxx -> Glyph]
  <2>1. w.row[w.line[y]] \in [0 .. w.maxx -> Glyph]
    BY <1>3
  <2>2. ASSUME NEW x \in 0 .. w.maxx
        PROVE  (IF x \in DOMAIN g THEN g[x] ELSE w.row[w.line[y]][x]) \in Glyph
    BY <2>1
  <2> QED
    BY <2>2 DEF Overlaid
<1>5. Framed(v) /\ Pointed(v) /\ v.maxy = w.maxy /\ v.maxx = w.maxx /\ v.begy = w.begy /\ v.begx = w.begx
  BY <1>2, FrameKept DEF SameFrame
<1>6. Lined(v) /\ Ranged(v)
  BY <1>2, <1>5 DEF Sound, Lined, Ranged
<1>7. Held(v)
  <2> HIDE DEF r
  <2> QED
    BY <1>2, <1>3, <1>4, <1>5 DEF Held
<1>8. \A z, x : Within(v, z, x) <=> Within(w, z, x)
  BY <1>2 DEF Within
<1>9. ASSUME NEW z \in 0 .. w.maxy, NEW x \in 0 .. w.maxx, Cell(v, z, x) # Cell(w, z, x)
      PROVE  Within(w, z, x)
  <2>1. z = y
    <3> SUFFICES ASSUME z # y PROVE FALSE
      OBVIOUS
    <3>1. w.line[z] \in 0 .. w.maxy /\ w.line[z] # w.line[y]
      BY <1>3
    <3>2. v.row[w.line[z]] = w.row[w.line[z]]
      <4> HIDE DEF r
      <4> QED
        BY <1>2, <1>3, <3>1
    <3> QED
      BY <1>2, <1>9, <3>2 DEF Cell
  <2>2. v.row[w.line[y]] = r
    <3> HIDE DEF r
    <3> QED
      BY <1>2, <1>3
  <2>3. Cell(v, y, x) = r[x]
    BY <1>2, <2>2 DEF Cell
  <2>4. Cell(w, y, x) = w.row[w.line[y]][x]
    BY DEF Cell
  <2>5. x \in DOMAIN g /\ r[x] = g[x]
    BY <1>9, <2>1, <2>3, <2>4 DEF Overlaid
  <2> QED
    BY <1>9, <2>1, <2>3, <2>5
<1> HIDE DEF r
<1>10. Draws(w, v)
  BY <1>5, <1>6, <1>7, <1>8, <1>9 DEF Draws, Sound
<1> QED
  BY <1>1, <1>10

\* A range that grows.
LEMMA RangesAreInts ==
  ASSUME NEW n, NEW m \in [0 .. n -> Int], NEW y, NEW k \in Int
  PROVE  Lowered(m, y, k) \in [0 .. n -> Int] /\ Raised(m, y, k) \in [0 .. n -> Int]
BY DEF Lowered, Raised

\* A function of which one value is replaced.
LEMMA ReplacedIn ==
  ASSUME NEW R, NEW n, NEW f \in [0 .. n -> R], NEW i, NEW r \in R
  PROVE  [f EXCEPT ![i] = r] \in [0 .. n -> R]
OBVIOUS

LEMMA WidenDraws ==
  ASSUME NEW w, Sound(w), NEW y \in 0 .. w.maxy, NEW first \in 0 .. w.maxx, NEW last \in first .. w.maxx
  PROVE  /\ Draws(w, Widen(w, y, first, last))
         /\ \A x \in first .. last : Within(Widen(w, y, first, last), y, x)
<1>1. PICK v : v = Widen(w, y, first, last)
  OBVIOUS
<1>2. /\ SameFrame(w, v) /\ v.line = w.line /\ v.row = w.row
      /\ v.minchng = Lowered(w.minchng, y, first) /\ v.maxchng = Raised(w.maxchng, y, last)
  BY <1>1, WidenIs DEF Sound, Framed
<1>3. Framed(v) /\ Pointed(v) /\ v.maxy = w.maxy /\ v.maxx = w.maxx /\ v.begy = w.begy /\ v.begx = w.begx
  BY <1>2, FrameKept DEF SameFrame
<1>4. Lined(v) /\ Held(v)
  BY <1>2, <1>3 DEF Sound, Lined, Held
<1>5. w.minchng \in [0 .. w.maxy -> Int] /\ w.maxchng \in [0 .. w.maxy -> Int]
  BY DEF Sound, Ranged
<1>6. first \in Int /\ last \in Int /\ 0 <= first /\ first <= last /\ last <= w.maxx /\ w.maxx \in Int
  BY DEF Sound, Framed
<1>7. \A z \in 0 .. w.maxy :
        \/ w.minchng[z] = -1 /\ w.maxchng[z] \in {-1, 0}
        \/ 0 <= w.minchng[z] /\ w.minchng[z] <= w.maxchng[z] /\ w.maxchng[z] <= w.maxx
  BY DEF Sound, Ranged
<1>8. ASSUME NEW z \in 0 .. w.maxy PROVE
        /\ v.minchng[z] = IF z = y THEN IF w.minchng[y] = -1 \/ w.minchng[y] > first THEN first ELSE w.minchng[y]
                          ELSE w.minchng[z]
        /\ v.maxchng[z] = IF z = y THEN IF w.maxchng[y] < last THEN last ELSE w.maxchng[y]
                          ELSE w.maxchng[z]
  BY <1>2, <1>5 DEF Lowered, Raised
<1>9. Ranged(v)
  <2>1. v.minchng \in [0 .. w.maxy -> Int] /\ v.maxchng \in [0 .. w.maxy -> Int]
    BY <1>2, <1>5, <1>6, RangesAreInts
  <2>2. ASSUME NEW z \in 0 .. w.maxy PROVE
         \/ v.minchng[z] = -1 /\ v.maxchng[z] \in {-1, 0}
         \/ 0 <= v.minchng[z] /\ v.minchng[z] <= v.maxchng[z] /\ v.maxchng[z] <= w.maxx
    <3>1. w.minchng[z] \in Int /\ w.maxchng[z] \in Int
      BY <1>5
    <3> QED
      BY <1>6, <1>7, <1>8, <3>1
  <2> QED
    BY <1>3, <2>1, <2>2 DEF Ranged
<1>10. \A x \in first .. last : Within(v, y, x)
  <2>1. w.minchng[y] \in Int /\ w.maxchng[y] \in Int
    BY <1>5
  <2> QED
    BY <1>6, <1>7, <1>8, <2>1 DEF Within
<1>11. ASSUME NEW z \in 0 .. w.maxy, NEW x \in 0 .. w.maxx, Within(w, z, x) PROVE Within(v, z, x)
  <2>1. w.minchng[z] \in Int /\ w.maxchng[z] \in Int
    BY <1>5
  <2> QED
    BY <1>6, <1>7, <1>8, <1>11, <2>1 DEF Within
<1>12. \A z, x : Cell(v, z, x) = Cell(w, z, x)
  BY <1>2 DEF Cell
<1>13. Draws(w, v)
  BY <1>3, <1>4, <1>9, <1>11, <1>12 DEF Draws, Sound
<1> QED
  BY <1>1, <1>10, <1>13

\* Windows with the same fields are the same.
LEMMA SameFields ==
  ASSUME NEW v, IsWindow(v), NEW w, SameFrame(v, w),
         w.line = v.line, w.row = v.row, w.minchng = v.minchng, w.maxchng = v.maxchng
  PROVE  v = w
<1>1. w = [f \in Fields |-> w[f]] /\ v = [f \in Fields |-> v[f]]
  BY DEF SameFrame, IsWindow
<1>2. \A f \in Fields : v[f] = w[f]
  BY DEF Fields, SameFrame
<1> QED
  BY <1>1, <1>2

LEMMA WidenPut ==
  ASSUME NEW w, Sound(w), NEW y, NEW first, NEW last, NEW g
  PROVE  Widen(Put(w, y, g), y, first, last) = Put(Widen(w, y, first, last), y, g)
<1>1. PICK p, q, r, s : p = Put(w, y, g) /\ q = Widen(p, y, first, last)
                        /\ r = Widen(w, y, first, last) /\ s = Put(r, y, g)
  OBVIOUS
<1>2. IsWindow(w)
  BY DEF Sound, Framed
<1> DEFINE row == [w.row EXCEPT ![w.line[y]] = Overlaid(w, y, g)]
           min == Lowered(w.minchng, y, first)
           max == Raised(w.maxchng, y, last)
<1>3. SameFrame(w, p) /\ p.line = w.line /\ p.minchng = w.minchng /\ p.maxchng = w.maxchng /\ p.row = row
  BY <1>1, <1>2, PutIs
<1>4. SameFrame(w, r) /\ r.line = w.line /\ r.row = w.row /\ r.minchng = min /\ r.maxchng = max
  BY <1>1, <1>2, WidenIs
<1>5. SameFrame(p, q) /\ q.line = w.line /\ q.row = row /\ q.minchng = min /\ q.maxchng = max
  <2>1. IsWindow(p)
    BY <1>3 DEF SameFrame
  <2> QED
    BY <1>1, <1>3, <2>1, WidenIs
<1>6. SameFrame(r, s) /\ s.line = w.line /\ s.minchng = min /\ s.maxchng = max /\ s.row = row
  <2>1. IsWindow(r) /\ r.maxx = w.maxx
    BY <1>4 DEF SameFrame
  <2>2. /\ SameFrame(r, Put(r, y, g)) /\ Put(r, y, g).line = r.line
        /\ Put(r, y, g).minchng = r.minchng /\ Put(r, y, g).maxchng = r.maxchng
        /\ Put(r, y, g).row = [r.row EXCEPT ![r.line[y]] = Overlaid(r, y, g)]
    BY <2>1, PutIs
  <2>3. Overlaid(r, y, g) = Overlaid(w, y, g)
    BY <1>4, <2>1 DEF Overlaid
  <2> HIDE DEF min, max
  <2> QED
    BY <1>1, <1>4, <2>1, <2>2, <2>3
<1> HIDE DEF row, min, max
<1>7. SameFrame(q, s) /\ IsWindow(q)
  BY <1>3, <1>4, <1>5, <1>6 DEF SameFrame
<1>8. q = s
  BY <1>5, <1>6, <1>7, SameFields
<1> QED
  BY <1>1, <1>8

LEMMA PutWidenDraws ==
  ASSUME NEW w, Sound(w), NEW y \in 0 .. w.maxy, NEW first \in 0 .. w.maxx, NEW last \in first .. w.maxx,
         NEW g, \A x \in 0 .. w.maxx : x \in DOMAIN g => x \in first .. last /\ g[x] \in Glyph
  PROVE  Draws(w, Widen(Put(w, y, g), y, first, last))
<1>1. PICK u : u = Widen(w, y, first, last)
  OBVIOUS
<1>2. Draws(w, u) /\ \A x \in first .. last : Within(u, y, x)
  BY <1>1, WidenDraws
<1>3. Sound(u) /\ u.maxy = w.maxy /\ u.maxx = w.maxx
  BY <1>2 DEF Draws
<1>4. Draws(u, Put(u, y, g))
  BY <1>2, <1>3, PutDraws
<1>5. Widen(Put(w, y, g), y, first, last) = Put(u, y, g)
  BY <1>1, WidenPut
<1> QED
  BY <1>2, <1>4, <1>5, DrawsOn

\* Lines that changed in any way are recorded from end to end.
LEMMA TouchDraws ==
  ASSUME NEW w, Sound(w), NEW u, SameFrame(w, u), u.minchng = w.minchng, u.maxchng = w.maxchng,
         Lined(u), Held(u), NEW rows,
         \A z \in 0 .. w.maxy, x \in 0 .. w.maxx : z \notin rows => Cell(u, z, x) = Cell(w, z, x)
  PROVE  Draws(w, Touch(u, rows)) /\ SameFrame(w, Touch(u, rows))
<1>1. PICK v : v = Touch(u, rows)
  OBVIOUS
<1>2. /\ SameFrame(u, v) /\ v.line = u.line /\ v.row = u.row
      /\ v.minchng = [y \in 0 .. u.maxy |-> IF y \in rows THEN 0 ELSE u.minchng[y]]
      /\ v.maxchng = [y \in 0 .. u.maxy |-> IF y \in rows THEN u.maxx ELSE u.maxchng[y]]
  BY <1>1, TouchIs DEF SameFrame
<1>3. SameFrame(w, v) /\ u.maxy = w.maxy /\ u.maxx = w.maxx
  BY <1>2 DEF SameFrame
<1>4. Framed(v) /\ Pointed(v) /\ v.maxy = w.maxy /\ v.maxx = w.maxx /\ v.begy = w.begy /\ v.begx = w.begx
  BY <1>3, FrameKept DEF SameFrame
<1>5. Lined(v) /\ Held(v)
  BY <1>2, <1>3, <1>4 DEF Lined, Held
<1>6. /\ w.minchng \in [0 .. w.maxy -> Int] /\ w.maxchng \in [0 .. w.maxy -> Int] /\ w.maxx \in Nat
      /\ \A y \in 0 .. w.maxy :
           \/ w.minchng[y] = -1 /\ w.maxchng[y] \in {-1, 0}
           \/ 0 <= w.minchng[y] /\ w.minchng[y] <= w.maxchng[y] /\ w.maxchng[y] <= w.maxx
  BY DEF Sound, Ranged, Framed
<1>7. ASSUME NEW z \in 0 .. w.maxy PROVE
        /\ v.minchng[z] = IF z \in rows THEN 0 ELSE w.minchng[z]
        /\ v.maxchng[z] = IF z \in rows THEN w.maxx ELSE w.maxchng[z]
  BY <1>2, <1>3
<1>8. Ranged(v)
  <2>1. v.minchng \in [0 .. w.maxy -> Int] /\ v.maxchng \in [0 .. w.maxy -> Int]
    <3>1. ASSUME NEW z \in 0 .. w.maxy PROVE v.minchng[z] \in Int /\ v.maxchng[z] \in Int
      <4>1. w.minchng \in [0 .. w.maxy -> Int] /\ w.maxchng \in [0 .. w.maxy -> Int]
        BY <1>6
      <4>2. w.minchng[z] \in Int /\ w.maxchng[z] \in Int
        BY <4>1
      <4>3. w.maxx \in Int /\ 0 \in Int
        BY <1>6
      <4> QED
        BY <1>7, <4>2, <4>3
    <3> QED
      BY <1>2, <1>3, <3>1
  <2> QED
    BY <1>4, <1>6, <1>7, <2>1 DEF Ranged
<1>9. ASSUME NEW z \in 0 .. w.maxy, NEW x \in 0 .. w.maxx, Within(w, z, x) PROVE Within(v, z, x)
  BY <1>6, <1>7, <1>9 DEF Within
<1>10. ASSUME NEW z \in 0 .. w.maxy, NEW x \in 0 .. w.maxx, Cell(v, z, x) # Cell(w, z, x)
       PROVE  Within(v, z, x)
  <2>1. Cell(v, z, x) = Cell(u, z, x)
    BY <1>2 DEF Cell
  <2>2. z \in rows
    BY <1>10, <2>1
  <2> QED
    BY <1>6, <1>7, <2>2 DEF Within
<1>11. Draws(w, v)
  BY <1>4, <1>5, <1>8, <1>9, <1>10 DEF Draws, Sound
<1> QED
  BY <1>1, <1>3, <1>11

LEMMA BlankIs ==
  ASSUME NEW w, Sound(w)
  PROVE  Blank(w) \in Glyph /\ BlankRow(w) \in [0 .. w.maxx -> Glyph]
BY DEF Blank, BlankRow, Columns, Glyph, Sound, Framed

\* Up and Down pass the rows around among the lines.
LEMMA UpTurns ==
  ASSUME NEW w, Sound(w), NEW top \in Nat, NEW bottom \in Nat, top <= bottom, bottom <= w.maxy
  PROVE  /\ Draws(w, Touch(Up(w, top, bottom), top .. bottom))
         /\ SameFrame(w, Touch(Up(w, top, bottom), top .. bottom))
<1> DEFINE l == UpLines(w, top, bottom)
<1>1. PICK u : u = Up(w, top, bottom)
  OBVIOUS
<1>2. SameFrame(w, u) /\ u.minchng = w.minchng /\ u.maxchng = w.maxchng
      /\ u.row = [w.row EXCEPT ![w.line[top]] = BlankRow(w)] /\ u.line = l
  BY <1>1, UpIs DEF Sound, Framed
<1>3. /\ w.maxy \in Nat /\ w.line \in [0 .. w.maxy -> 0 .. w.maxy]
      /\ w.row \in [0 .. w.maxy -> [0 .. w.maxx -> Glyph]]
      /\ \A y, z \in 0 .. w.maxy : w.line[y] = w.line[z] => y = z
  BY DEF Sound, Framed, Lined, Held
<1>4. ASSUME NEW y \in 0 .. w.maxy
      PROVE  /\ y = bottom => l[y] = w.line[top]
             /\ y # bottom /\ top <= y /\ y <= bottom => l[y] = w.line[y + 1] /\ y + 1 \in 0 .. w.maxy
             /\ y < top \/ y > bottom => l[y] = w.line[y]
  BY <1>3 DEF UpLines
<1>5. top \in 0 .. w.maxy /\ bottom \in 0 .. w.maxy
  BY <1>3
<1> HIDE DEF l
<1>6. l \in [0 .. w.maxy -> 0 .. w.maxy]
  <2>1. ASSUME NEW y \in 0 .. w.maxy PROVE l[y] \in 0 .. w.maxy
    <3>1. y = bottom \/ (y # bottom /\ top <= y /\ y <= bottom) \/ y < top \/ y > bottom
      BY <1>3
    <3>3. y + 1 \in 0 .. w.maxy => w.line[y + 1] \in 0 .. w.maxy
      BY <1>3
    <3>2. w.line[top] \in 0 .. w.maxy /\ w.line[bottom] \in 0 .. w.maxy /\ w.line[y] \in 0 .. w.maxy
      BY <1>3, <1>5
    <3> QED
      BY <1>4, <3>1, <3>2, <3>3
  <2> QED
    BY <2>1 DEF l, UpLines
<1>7. ASSUME NEW y \in 0 .. w.maxy, NEW z \in 0 .. w.maxy, l[y] = l[z] PROVE y = z
  <2>1. ASSUME NEW i \in 0 .. w.maxy
        PROVE  \E j \in 0 .. w.maxy : l[i] = w.line[j] /\
                 (\/ i = bottom /\ j = top
                  \/ i # bottom /\ top <= i /\ i <= bottom /\ j = i + 1
                  \/ (i < top \/ i > bottom) /\ j = i)
    <3>1. i = bottom \/ (i # bottom /\ top <= i /\ i <= bottom) \/ i < top \/ i > bottom
      BY <1>3
    <3> QED
      BY <1>4, <1>5, <3>1
  <2>2. PICK j \in 0 .. w.maxy : l[y] = w.line[j] /\
          (\/ y = bottom /\ j = top
           \/ y # bottom /\ top <= y /\ y <= bottom /\ j = y + 1
           \/ (y < top \/ y > bottom) /\ j = y)
    BY <2>1
  <2>3. PICK k \in 0 .. w.maxy : l[z] = w.line[k] /\
          (\/ z = bottom /\ k = top
           \/ z # bottom /\ top <= z /\ z <= bottom /\ k = z + 1
           \/ (z < top \/ z > bottom) /\ k = z)
    BY <2>1
  <2>4. j = k
    BY <1>3, <1>7, <2>2, <2>3
  <2> QED
    BY <1>3, <2>2, <2>3, <2>4
<1>8. Lined(u)
  <2>1. u.maxy = w.maxy
    BY <1>2 DEF SameFrame
  <2> QED
    BY <1>2, <1>6, <1>7, <2>1 DEF Lined
<1>9. Held(u)
  <2>1. u.maxy = w.maxy /\ u.maxx = w.maxx
    BY <1>2 DEF SameFrame
  <2>2. u.row \in [0 .. w.maxy -> [0 .. w.maxx -> Glyph]]
    <3>1. PICK rows : rows = [0 .. w.maxx -> Glyph]
      OBVIOUS
    <3>2. w.row \in [0 .. w.maxy -> rows] /\ BlankRow(w) \in rows
      BY <1>3, <3>1, BlankIs
    <3>3. u.row \in [0 .. w.maxy -> rows]
      BY <1>2, <3>2, ReplacedIn
    <3> QED
      BY <3>1, <3>3
  <2> QED
    BY <2>1, <2>2 DEF Held
<1>10. ASSUME NEW z \in 0 .. w.maxy, NEW x \in 0 .. w.maxx, z \notin top .. bottom
       PROVE  Cell(u, z, x) = Cell(w, z, x)
  <2>1. l[z] = w.line[z] /\ w.line[z] # w.line[top] /\ w.line[z] \in 0 .. w.maxy
    BY <1>3, <1>4, <1>5, <1>10
  <2>2. u.row[w.line[z]] = w.row[w.line[z]]
    BY <1>2, <1>3, <2>1
  <2> QED
    BY <1>2, <2>1, <2>2 DEF Cell
<1> QED
  BY <1>1, <1>2, <1>8, <1>9, <1>10, TouchDraws

LEMMA DownTurns ==
  ASSUME NEW w, Sound(w), NEW top \in Nat, NEW bottom \in Nat, top <= bottom, bottom <= w.maxy
  PROVE  Draws(w, Touch(Down(w, top, bottom), top .. bottom))
<1> DEFINE l == DownLines(w, top, bottom)
<1>1. PICK u : u = Down(w, top, bottom)
  OBVIOUS
<1>2. SameFrame(w, u) /\ u.minchng = w.minchng /\ u.maxchng = w.maxchng
      /\ u.row = [w.row EXCEPT ![w.line[bottom]] = BlankRow(w)] /\ u.line = l
  BY <1>1, DownIs DEF Sound, Framed
<1>3. /\ w.maxy \in Nat /\ w.line \in [0 .. w.maxy -> 0 .. w.maxy]
      /\ w.row \in [0 .. w.maxy -> [0 .. w.maxx -> Glyph]]
      /\ \A y, z \in 0 .. w.maxy : w.line[y] = w.line[z] => y = z
  BY DEF Sound, Framed, Lined, Held
<1>4. ASSUME NEW y \in 0 .. w.maxy
      PROVE  /\ y = top => l[y] = w.line[bottom]
             /\ y # top /\ top <= y /\ y <= bottom => l[y] = w.line[y - 1] /\ y - 1 \in 0 .. w.maxy
             /\ y < top \/ y > bottom => l[y] = w.line[y]
  BY <1>3 DEF DownLines
<1>5. top \in 0 .. w.maxy /\ bottom \in 0 .. w.maxy
  BY <1>3
<1> HIDE DEF l
<1>6. l \in [0 .. w.maxy -> 0 .. w.maxy]
  <2>1. ASSUME NEW y \in 0 .. w.maxy PROVE l[y] \in 0 .. w.maxy
    <3>1. y = top \/ (y # top /\ top <= y /\ y <= bottom) \/ y < top \/ y > bottom
      BY <1>3
    <3>2. w.line[top] \in 0 .. w.maxy /\ w.line[bottom] \in 0 .. w.maxy /\ w.line[y] \in 0 .. w.maxy
      BY <1>3, <1>5
    <3>3. y # top /\ top <= y /\ y <= bottom => w.line[y - 1] \in 0 .. w.maxy
      BY <1>3, <1>4
    <3>4. CASE y = top
      BY <1>4, <3>2, <3>4
    <3>5. CASE y # top /\ top <= y /\ y <= bottom
      BY <1>4, <3>3, <3>5
    <3>6. CASE y < top \/ y > bottom
      BY <1>4, <3>2, <3>6
    <3> QED
      BY <3>1, <3>4, <3>5, <3>6
  <2> QED
    BY <2>1 DEF l, DownLines
<1>7. ASSUME NEW y \in 0 .. w.maxy, NEW z \in 0 .. w.maxy, l[y] = l[z] PROVE y = z
  <2>1. ASSUME NEW i \in 0 .. w.maxy
        PROVE  \E j \in 0 .. w.maxy : l[i] = w.line[j] /\
                 (\/ i = top /\ j = bottom
                  \/ i # top /\ top <= i /\ i <= bottom /\ j = i - 1
                  \/ (i < top \/ i > bottom) /\ j = i)
    <3>1. i = top \/ (i # top /\ top <= i /\ i <= bottom) \/ i < top \/ i > bottom
      BY <1>3
    <3> QED
      BY <1>4, <1>5, <3>1
  <2>2. PICK j \in 0 .. w.maxy : l[y] = w.line[j] /\
          (\/ y = top /\ j = bottom
           \/ y # top /\ top <= y /\ y <= bottom /\ j = y - 1
           \/ (y < top \/ y > bottom) /\ j = y)
    BY <2>1
  <2>3. PICK k \in 0 .. w.maxy : l[z] = w.line[k] /\
          (\/ z = top /\ k = bottom
           \/ z # top /\ top <= z /\ z <= bottom /\ k = z - 1
           \/ (z < top \/ z > bottom) /\ k = z)
    BY <2>1
  <2>4. j = k
    BY <1>3, <1>7, <2>2, <2>3
  <2> QED
    BY <1>3, <2>2, <2>3, <2>4
<1>8. Lined(u)
  <2>1. u.maxy = w.maxy
    BY <1>2 DEF SameFrame
  <2> QED
    BY <1>2, <1>6, <1>7, <2>1 DEF Lined
<1>9. Held(u)
  <2>1. u.maxy = w.maxy /\ u.maxx = w.maxx
    BY <1>2 DEF SameFrame
  <2>2. u.row \in [0 .. w.maxy -> [0 .. w.maxx -> Glyph]]
    <3>1. PICK rows : rows = [0 .. w.maxx -> Glyph]
      OBVIOUS
    <3>2. w.row \in [0 .. w.maxy -> rows] /\ BlankRow(w) \in rows
      BY <1>3, <3>1, BlankIs
    <3>3. u.row \in [0 .. w.maxy -> rows]
      BY <1>2, <3>2, ReplacedIn
    <3> QED
      BY <3>1, <3>3
  <2> QED
    BY <2>1, <2>2 DEF Held
<1>10. ASSUME NEW z \in 0 .. w.maxy, NEW x \in 0 .. w.maxx, z \notin top .. bottom
       PROVE  Cell(u, z, x) = Cell(w, z, x)
  <2>1. l[z] = w.line[z] /\ w.line[z] # w.line[bottom] /\ w.line[z] \in 0 .. w.maxy
    BY <1>3, <1>4, <1>5, <1>10
  <2>2. u.row[w.line[z]] = w.row[w.line[z]]
    BY <1>2, <1>3, <2>1
  <2> QED
    BY <1>2, <2>1, <2>2 DEF Cell
<1> QED
  BY <1>1, <1>2, <1>8, <1>9, <1>10, TouchDraws

\* The cursor somewhere else in the region.
LEMMA MoveDraws ==
  ASSUME NEW w, Sound(w), NEW y \in w.regtop .. w.regbottom, NEW x \in 0 .. w.maxx
  PROVE  /\ Draws(w, [w EXCEPT !.cury = y, !.curx = x]) /\ Draws(w, [w EXCEPT !.cury = y])
         /\ Draws(w, [w EXCEPT !.curx = x])
         /\ SameLines(w, [w EXCEPT !.cury = y]) /\ SameLines(w, [w EXCEPT !.curx = x])
         /\ SameLines(w, [w EXCEPT !.cury = y, !.curx = x])
<1>1. PICK a, b, c : a = [w EXCEPT !.cury = y, !.curx = x] /\ b = [w EXCEPT !.cury = y]
                     /\ c = [w EXCEPT !.curx = x]
  OBVIOUS
<1>2. IsWindow(w) /\ w.regtop \in Nat /\ w.regbottom \in Nat /\ w.maxy \in Nat
  BY DEF Sound, Pointed, Framed
<1>3. SameLines(w, a) /\ SameLines(w, b) /\ SameLines(w, c)
  BY <1>1, <1>2 DEF SameLines, IsWindow, Fields
<1>4. /\ a.regtop = w.regtop /\ a.regbottom = w.regbottom /\ a.cury = y /\ a.curx = x
      /\ b.regtop = w.regtop /\ b.regbottom = w.regbottom /\ b.cury = y /\ b.curx = w.curx
      /\ c.regtop = w.regtop /\ c.regbottom = w.regbottom /\ c.cury = w.cury /\ c.curx = x
      /\ a.attrs = w.attrs /\ b.attrs = w.attrs /\ c.attrs = w.attrs
      /\ a.clear = w.clear /\ b.clear = w.clear /\ c.clear = w.clear
      /\ a.scroll = w.scroll /\ b.scroll = w.scroll /\ c.scroll = w.scroll
  BY <1>1, <1>2 DEF IsWindow, Fields
<1>5. Pointed(a) /\ Pointed(b) /\ Pointed(c)
  BY <1>2, <1>3, <1>4 DEF Sound, Pointed, SameLines
<1>6. w.attrs \in Attributes /\ w.clear \in BOOLEAN /\ w.scroll \in BOOLEAN
  BY DEF Sound, Framed
<1>7. Draws(w, a) /\ Draws(w, b) /\ Draws(w, c)
  BY <1>3, <1>4, <1>5, <1>6, SameLinesDraws
<1> QED
  BY <1>1, <1>3, <1>7

LEMMA ScrollDraws ==
  ASSUME NEW w, Sound(w)
  PROVE  Draws(w, scroll(w)) /\ scroll(w).regtop = w.regtop /\ scroll(w).regbottom = w.regbottom
<1>1. CASE ~ w.scroll \/ w.cury < w.regtop \/ w.cury > w.regbottom
  BY <1>1, DrawsNothing DEF scroll
<1>2. CASE ~ (~ w.scroll \/ w.cury < w.regtop \/ w.cury > w.regbottom)
  <2>1. PICK v : v = Touch(Up(w, w.regtop, w.regbottom), w.regtop .. w.regbottom)
    OBVIOUS
  <2>2. Draws(w, v) /\ SameFrame(w, v)
    <3>1. w.regtop \in Nat /\ w.regbottom \in Nat /\ w.regtop <= w.regbottom /\ w.regbottom <= w.maxy
      BY DEF Sound, Pointed
    <3> QED
      BY <2>1, <3>1, UpTurns
  <2>3. Sound(v) /\ v.regtop = w.regtop /\ v.regbottom = w.regbottom /\ v.cury = w.cury
    BY <2>2 DEF Draws, SameFrame
  <2>4. PICK y : y = IF v.cury > w.regtop THEN v.cury - 1 ELSE v.cury
    OBVIOUS
  <2>5. y \in v.regtop .. v.regbottom
    BY <2>3, <2>4 DEF Sound, Pointed
  <2>6. scroll(w) = [v EXCEPT !.cury = y]
    BY <1>2, <2>1, <2>4 DEF scroll
  <2>7. Draws(v, [v EXCEPT !.cury = y])
    <3>1. 0 \in 0 .. v.maxx
      BY <2>3 DEF Sound, Framed
    <3> QED
      BY <2>3, <2>5, <3>1, MoveDraws
  <2>8. [v EXCEPT !.cury = y].regtop = v.regtop /\ [v EXCEPT !.cury = y].regbottom = v.regbottom
    BY <2>3 DEF Sound, Framed, IsWindow, Fields
  <2> QED
    BY <2>2, <2>3, <2>6, <2>7, <2>8, DrawsOn
<1> QED
  BY <1>1, <1>2

LEMMA NewlineDraws ==
  ASSUME NEW w, Sound(w), NEW x \in 0 .. w.maxx
  PROVE  Draws(w, Newline(w, w.cury, x))
<1>1. CASE w.cury + 1 <= w.regbottom
  <2>1. PICK y : y = w.cury + 1
    OBVIOUS
  <2>2. y \in w.regtop .. w.regbottom
    BY <1>1, <2>1 DEF Sound, Pointed
  <2>3. Newline(w, w.cury, x) = [w EXCEPT !.cury = y, !.curx = x]
    BY <1>1, <2>1 DEF Newline
  <2>4. Draws(w, [w EXCEPT !.cury = y, !.curx = x])
    BY <2>2, MoveDraws
  <2> QED
    BY <2>3, <2>4
<1>2. CASE ~ w.cury + 1 <= w.regbottom /\ w.scroll
  <2>1. PICK v : v = scroll(w)
    OBVIOUS
  <2>2. PICK y : y = w.cury
    OBVIOUS
  <2>3. Draws(w, v) /\ Sound(v) /\ y \in v.regtop .. v.regbottom /\ x \in 0 .. v.maxx
    BY <2>1, <2>2, ScrollDraws DEF Draws, Sound, Pointed
  <2>4. Newline(w, w.cury, x) = [v EXCEPT !.cury = y, !.curx = x]
    BY <1>2, <2>1, <2>2 DEF Newline
  <2> QED
    BY <2>3, <2>4, MoveDraws, DrawsOn
<1>3. CASE ~ w.cury + 1 <= w.regbottom /\ ~ w.scroll
  BY <1>3, DrawsNothing DEF Newline
<1> QED
  BY <1>1, <1>2, <1>3

LEMMA CellIs ==
  ASSUME NEW w, Sound(w), NEW y \in 0 .. w.maxy, NEW x \in 0 .. w.maxx
  PROVE  Cell(w, y, x) \in Glyph
<1>1. w.line[y] \in 0 .. w.maxy
  BY DEF Sound, Lined
<1>2. w.row[w.line[y]] \in [0 .. w.maxx -> Glyph]
  BY <1>1 DEF Sound, Held
<1> QED
  BY <1>2 DEF Cell

\* waddch notes what a range of one column would.
LEMMA NotedIs ==
  ASSUME NEW w, Sound(w), NEW y \in 0 .. w.maxy, NEW x \in 0 .. w.maxx
  PROVE  Noted(w, y, x) = Widen(w, y, x, x)
<1>1. PICK v, n : v = Widen(w, y, x, x) /\ n = Noted(w, y, x)
  OBVIOUS
<1>2. /\ SameFrame(w, v) /\ v.line = w.line /\ v.row = w.row
      /\ v.minchng = Lowered(w.minchng, y, x) /\ v.maxchng = Raised(w.maxchng, y, x)
  BY <1>1, WidenIs DEF Sound, Framed
<1>3. w.minchng \in [0 .. w.maxy -> Int] /\ w.maxchng \in [0 .. w.maxy -> Int]
  BY DEF Sound, Ranged
<1>4. w.minchng[y] \in Int /\ w.maxchng[y] \in Int /\ x \in Int /\ 0 <= x
  <2>1. w.minchng[y] \in Int /\ w.maxchng[y] \in Int
    BY <1>3
  <2> QED
    BY <2>1
<1>5. \/ w.minchng[y] = -1 /\ w.maxchng[y] \in {-1, 0}
      \/ 0 <= w.minchng[y] /\ w.minchng[y] <= w.maxchng[y]
  BY DEF Sound, Ranged
<1>6. IsWindow(w)
  BY DEF Sound, Framed
<1>7. /\ SameFrame(w, n) /\ n.line = w.line /\ n.row = w.row
      /\ n.minchng = IF w.minchng[y] = -1 \/ x < w.minchng[y] THEN [w.minchng EXCEPT ![y] = x] ELSE w.minchng
      /\ n.maxchng = IF w.minchng[y] = -1 \/ (~ x < w.minchng[y] /\ x > w.maxchng[y])
                     THEN [w.maxchng EXCEPT ![y] = x] ELSE w.maxchng
  <2>1. CASE w.minchng[y] = -1
    <3>1. n = [w EXCEPT !.minchng[y] = x, !.maxchng[y] = x]
      BY <1>1, <2>1 DEF Noted, NoChange
    <3> QED
      BY <1>6, <2>1, <3>1 DEF SameFrame, IsWindow, Fields
  <2>2. CASE w.minchng[y] # -1 /\ x < w.minchng[y]
    <3>1. n = [w EXCEPT !.minchng[y] = x]
      BY <1>1, <2>2 DEF Noted, NoChange
    <3> QED
      BY <1>6, <2>2, <3>1 DEF SameFrame, IsWindow, Fields
  <2>3. CASE w.minchng[y] # -1 /\ ~ x < w.minchng[y] /\ x > w.maxchng[y]
    <3>1. n = [w EXCEPT !.maxchng[y] = x]
      BY <1>1, <2>3 DEF Noted, NoChange
    <3> QED
      BY <1>6, <2>3, <3>1 DEF SameFrame, IsWindow, Fields
  <2>4. CASE w.minchng[y] # -1 /\ ~ x < w.minchng[y] /\ ~ x > w.maxchng[y]
    <3>1. n = w
      BY <1>1, <2>4 DEF Noted, NoChange
    <3> QED
      BY <1>6, <2>4, <3>1 DEF SameFrame
  <2> QED
    BY <2>1, <2>2, <2>3, <2>4
<1>8. w.minchng = [w.minchng EXCEPT ![y] = w.minchng[y]] /\ w.maxchng = [w.maxchng EXCEPT ![y] = w.maxchng[y]]
  BY <1>3
<1>9. n.minchng = Lowered(w.minchng, y, x)
  <2>1. CASE w.minchng[y] = -1 \/ w.minchng[y] > x
    BY <1>4, <1>7, <2>1 DEF Lowered
  <2>2. CASE ~ (w.minchng[y] = -1 \/ w.minchng[y] > x)
    BY <1>4, <1>7, <1>8, <2>2 DEF Lowered
  <2> QED
    BY <2>1, <2>2
<1>10. n.maxchng = Raised(w.maxchng, y, x)
  <2>1. CASE w.maxchng[y] < x
    BY <1>4, <1>5, <1>7, <2>1 DEF Raised
  <2>2. CASE ~ (w.maxchng[y] < x)
    <3>1. w.minchng[y] = -1 => x = w.maxchng[y]
      BY <1>4, <1>5, <2>2
    <3> QED
      BY <1>4, <1>5, <1>7, <1>8, <2>2, <3>1 DEF Raised
  <2> QED
    BY <2>1, <2>2
<1>11. SameFrame(v, n) /\ IsWindow(v)
  BY <1>2, <1>7 DEF SameFrame
<1>12. v = n
  BY <1>2, <1>7, <1>9, <1>10, <1>11, SameFields
<1> QED
  BY <1>1, <1>12

\* A character that waddch writes, before the cursor goes on.
LEMMA WrittenPut ==
  ASSUME NEW w, Sound(w), NEW glyph \in Glyph, NEW n,
         n = IF Cell(w, w.cury, w.curx) # glyph THEN Noted(w, w.cury, w.curx) ELSE w
  PROVE  /\ Draws(w, Put(n, w.cury, At(w.curx, glyph)))
         /\ SameFrame(w, Put(n, w.cury, At(w.curx, glyph)))
<1>1. w.cury \in 0 .. w.maxy /\ w.curx \in 0 .. w.maxx /\ w.curx \in w.curx .. w.maxx /\ w.curx \in w.curx .. w.curx
  BY DEF Sound, Framed, Pointed
<1>2. IsWindow(w)
  BY DEF Sound, Framed
<1>3. Draws(w, n) /\ SameFrame(w, n) /\ (Cell(n, w.cury, w.curx) # glyph => Within(n, w.cury, w.curx))
  <2>1. CASE Cell(w, w.cury, w.curx) # glyph
    <3>1. n = Widen(w, w.cury, w.curx, w.curx)
      BY <1>1, <2>1, NotedIs
    <3>2. SameFrame(w, n)
      BY <1>2, <3>1, WidenIs
    <3>3. Draws(w, n) /\ Within(n, w.cury, w.curx)
      BY <1>1, <3>1, WidenDraws
    <3> QED
      BY <3>2, <3>3
  <2>2. CASE Cell(w, w.cury, w.curx) = glyph
    BY <1>2, <2>2, DrawsNothing DEF SameFrame
  <2> QED
    BY <2>1, <2>2
<1>4. Sound(n) /\ n.maxy = w.maxy /\ n.maxx = w.maxx /\ IsWindow(n)
  BY <1>3 DEF Draws, SameFrame
<1>5. \A x \in 0 .. n.maxx : x \in DOMAIN At(w.curx, glyph) =>
        At(w.curx, glyph)[x] \in Glyph
        /\ (Cell(n, w.cury, x) # At(w.curx, glyph)[x] => Within(n, w.cury, x))
  BY <1>3 DEF At
<1>6. Draws(n, Put(n, w.cury, At(w.curx, glyph)))
  BY <1>1, <1>4, <1>5, PutDraws
<1>7. SameFrame(n, Put(n, w.cury, At(w.curx, glyph)))
  BY <1>4, PutIs
<1>8. SameFrame(w, Put(n, w.cury, At(w.curx, glyph)))
  BY <1>3, <1>7 DEF SameFrame
<1> QED
  BY <1>3, <1>6, <1>8, DrawsOn

LEMMA WrittenDraws ==
  ASSUME NEW w, Sound(w), NEW c \in Letters \cup {Space}
  PROVE  Draws(w, Written(w, c))
<1>1. PICK glyph : glyph = <<c, w.attrs>>
  OBVIOUS
<1>2. glyph \in Glyph
  BY <1>1 DEF Glyph, Sound, Framed
<1>3. PICK n : n = IF Cell(w, w.cury, w.curx) # glyph THEN Noted(w, w.cury, w.curx) ELSE w
  OBVIOUS
<1>4. PICK put : put = Put(n, w.cury, At(w.curx, glyph))
  OBVIOUS
<1>5. Draws(w, put) /\ SameFrame(w, put)
  BY <1>2, <1>3, <1>4, WrittenPut
<1>6. Sound(put) /\ put.cury = w.cury /\ put.curx = w.curx /\ put.maxx = w.maxx
  BY <1>5 DEF Draws, SameFrame
<1>7. Written(w, c) = IF w.curx + 1 > w.maxx THEN Newline(put, w.cury, 0) ELSE [put EXCEPT !.curx = w.curx + 1]
  BY <1>1, <1>3, <1>4 DEF Written
<1>8. CASE w.curx + 1 > w.maxx
  <2>1. 0 \in 0 .. put.maxx
    BY <1>6 DEF Sound, Framed
  <2>2. Draws(put, Newline(put, put.cury, 0))
    BY <1>6, <2>1, NewlineDraws
  <2> QED
    BY <1>5, <1>6, <1>7, <1>8, <2>2, DrawsOn
<1>9. CASE ~ (w.curx + 1 > w.maxx)
  <2>1. PICK x : x = w.curx + 1
    OBVIOUS
  <2>2. x \in 0 .. put.maxx
    BY <1>6, <1>9, <2>1 DEF Sound, Framed, Pointed
  <2>3. PICK y : y = put.cury
    OBVIOUS
  <2>4. y \in put.regtop .. put.regbottom
    BY <1>6, <2>3 DEF Sound, Pointed
  <2>5. Draws(put, [put EXCEPT !.curx = x])
    BY <1>6, <2>2, <2>4, MoveDraws
  <2> QED
    BY <1>5, <1>7, <1>9, <2>1, <2>5, DrawsOn
<1> QED
  BY <1>8, <1>9

\* The windows that drawing in w can make.
Values(w) ==
    Int \cup BOOLEAN \cup Attributes \cup [0 .. w.maxy -> Int]
    \cup [0 .. w.maxy -> [0 .. w.maxx -> Glyph]]
Drawings(w) == {v \in [Fields -> Values(w)] : Draws(w, v)}

LEMMA DrawingsAre ==
  ASSUME NEW w
  PROVE  \A v : v \in Drawings(w) <=> Draws(w, v)
<1>1. ASSUME NEW v, Draws(w, v) PROVE v \in [Fields -> Values(w)]
  <2>1. v = [f \in Fields |-> v[f]]
    BY <1>1 DEF Draws, Sound, Framed, IsWindow
  <2>2. v.maxy = w.maxy /\ v.maxx = w.maxx
    BY <1>1 DEF Draws
  <2>3. /\ v.maxy \in Int /\ v.maxx \in Int /\ v.begy \in Int /\ v.begx \in Int /\ v.cury \in Int /\ v.curx \in Int
        /\ v.regtop \in Int /\ v.regbottom \in Int /\ v.attrs \in Attributes /\ v.clear \in BOOLEAN
        /\ v.scroll \in BOOLEAN
    BY <1>1 DEF Draws, Sound, Framed, Pointed
  <2>4. /\ v.minchng \in [0 .. w.maxy -> Int] /\ v.maxchng \in [0 .. w.maxy -> Int]
        /\ v.row \in [0 .. w.maxy -> [0 .. w.maxx -> Glyph]]
    BY <1>1, <2>2 DEF Draws, Sound, Ranged, Held
  <2>5. v.line \in [0 .. w.maxy -> Int]
    <3>1. v.line \in [0 .. w.maxy -> 0 .. w.maxy]
      BY <1>1, <2>2 DEF Draws, Sound, Lined
    <3> QED
      BY <3>1
  <2>6. \A f \in Fields : v[f] \in Values(w)
    BY <2>3, <2>4, <2>5 DEF Fields, Values
  <2> QED
    BY <2>1, <2>6
<1> QED
  BY <1>1 DEF Drawings

LEMMA TabDraws ==
  ASSUME NEW w, Sound(w)
  PROVE  Draws(w, Tab(w))
<1> DEFINE a == w.curx
           b == ((w.curx \div 8) + 1) * 8
           V == Drawings(w)
           Turn(n, v) == IF v.curx = n - 1 THEN Written(v, Space) ELSE v
           IsLoop(g) == g = [n \in a .. b |-> IF n = a THEN w
                               ELSE IF g[n - 1].curx = n - 1 THEN Written(g[n - 1], Space) ELSE g[n - 1]]
           loop == CHOOSE g : IsLoop(g)
           step == [n \in a + 1 .. b |-> [v \in V |-> Turn(n, v)]]
<1>1. a \in Int /\ b \in Int /\ a <= b
  <2>1. w.curx \in Nat
    BY DEF Sound, Pointed
  <2> QED
    BY <2>1
<1> HIDE DEF a, b
<1>2. ASSUME NEW n, NEW v \in V PROVE Turn(n, v) \in V
  <2>1. Draws(w, v) /\ Sound(v)
    BY <1>2, DrawingsAre DEF Draws
  <2>2. Draws(v, Written(v, Space))
    BY <2>1, WrittenDraws
  <2>3. Draws(w, Turn(n, v))
    BY <2>1, <2>2, DrawsOn
  <2> HIDE DEF Turn
  <2> QED
    BY <2>3, DrawingsAre
<1>3. w \in V
  BY DrawsNothing, DrawingsAre
<1> HIDE DEF V
<1>4. step \in StepsFrom(a, b, V)
  <2> HIDE DEF Turn
  <2> QED
    BY <1>2 DEF StepsFrom
<1>5. PICK f \in [a .. b -> V] : f[a] = w /\ \A i \in a + 1 .. b : f[i] = step[i][f[i - 1]]
  <2> HIDE DEF step, IsLoop, loop, Turn
  <2>1. \E f : IsRun(f, a, b, V, w, step)
    BY <1>1, <1>3, <1>4, RecursionFrom
  <2> QED
    BY <2>1 DEF IsRun
<1>6. IsLoop(f)
  <2>1. ASSUME NEW n \in a .. b
        PROVE  f[n] = IF n = a THEN w ELSE Turn(n, f[n - 1])
    <3>1. CASE n = a
      BY <1>5, <3>1
    <3>2. CASE n # a
      <4>1. n \in a + 1 .. b /\ n - 1 \in a .. b
        BY <1>1, <3>2
      <4>2. f[n - 1] \in V /\ f[n] = step[n][f[n - 1]]
        BY <1>5, <4>1
      <4> HIDE DEF Turn
      <4>3. step[n][f[n - 1]] = Turn(n, f[n - 1])
        BY <4>1, <4>2
      <4> QED
        BY <3>2, <4>2, <4>3
    <3> QED
      BY <3>1, <3>2
  <2> HIDE DEF step
  <2> QED
    BY <1>5, <2>1
<1>7. IsLoop(loop)
  <2> HIDE DEF IsLoop
  <2> QED
    BY <1>6
<1> HIDE DEF loop
<1>8. ASSUME NEW n \in a .. b
      PROVE  loop[n] = IF n = a THEN w ELSE Turn(n, loop[n - 1])
  BY <1>7
<1>9. loop[b] \in V
  <2> DEFINE S == {i \in a .. b : loop[i] \in V}
  <2>1. a \in S
    BY <1>1, <1>3, <1>8
  <2>2. ASSUME NEW i \in a + 1 .. b, i - 1 \in S PROVE i \in S
    <3>1. i \in a .. b /\ i # a
      BY <1>1
    <3> HIDE DEF Turn
    <3> QED
      BY <1>2, <1>8, <2>2, <3>1
  <2>3. \A i \in a .. b : i \in S
    <3> HIDE DEF S
    <3> QED
      BY <1>1, <2>1, <2>2, UpFrom
  <2> QED
    BY <1>1, <2>3
<1>10. Tab(w) = loop[b]
  BY DEF Tab, loop, a, b
<1> QED
  BY <1>9, <1>10, DrawingsAre DEF V

Printed == Letters \cup {Space}
Controls == {"\n", "\r", "\t", "BS"}

LEMMA WaddchDraws ==
  ASSUME NEW w, Sound(w), NEW c \in Printed \cup Controls
  PROVE  Draws(w, waddch(w, c))
<1>1. w.curx \in 0 .. w.maxx /\ 0 \in 0 .. w.maxx /\ w.maxx \in Nat
  BY DEF Sound, Framed, Pointed
<1>2. PICK y : y = w.cury
  OBVIOUS
<1>3. y \in w.regtop .. w.regbottom
  BY <1>2 DEF Sound, Pointed
<1>4. CASE c = "\n"
  <2>1. PICK x : x = IF NONL THEN 0 ELSE w.curx
    OBVIOUS
  <2>2. x \in 0 .. w.maxx
    BY <1>1, <2>1
  <2>3. waddch(w, c) = Newline(w, w.cury, x)
    BY <1>4, <2>1 DEF waddch
  <2> QED
    BY <2>2, <2>3, NewlineDraws
<1>5. CASE c = "\r"
  <2>1. waddch(w, c) = [w EXCEPT !.curx = 0]
    BY <1>5 DEF waddch
  <2>2. Draws(w, [w EXCEPT !.curx = 0])
    BY <1>1, <1>3, MoveDraws
  <2> QED
    BY <2>1, <2>2
<1>6. CASE c = "\t"
  BY <1>6, TabDraws DEF waddch
<1>7. CASE c = "BS"
  <2>1. PICK x : x = IF w.curx = 0 THEN 0 ELSE w.curx - 1
    OBVIOUS
  <2>2. x \in 0 .. w.maxx
    BY <1>1, <2>1
  <2>3. waddch(w, c) = [w EXCEPT !.curx = x]
    BY <1>7, <2>1 DEF waddch
  <2>4. Draws(w, [w EXCEPT !.curx = x])
    BY <1>3, <2>2, MoveDraws
  <2> QED
    BY <2>3, <2>4
<1>8. CASE c \notin Controls
  <2>1. waddch(w, c) = Written(w, c)
    BY <1>8 DEF waddch, Controls
  <2>2. c \in Letters \cup {Space}
    BY <1>8 DEF Printed
  <2> QED
    BY <2>1, <2>2, WrittenDraws
<1> QED
  BY <1>4, <1>5, <1>6, <1>7, <1>8 DEF Controls

LEMMA WmoveDraws ==
  ASSUME NEW w, Sound(w), NEW y \in Int, NEW x \in Int
  PROVE  Draws(w, wmove(w, y, x))
<1>1. CASE x < 0 \/ x > w.maxx \/ y < w.regtop \/ y > w.regbottom
  BY <1>1, DrawsNothing DEF wmove
<1>2. CASE ~ (x < 0 \/ x > w.maxx \/ y < w.regtop \/ y > w.regbottom)
  <2>1. y \in w.regtop .. w.regbottom /\ x \in 0 .. w.maxx
    BY <1>2 DEF Sound, Framed, Pointed
  <2>2. Draws(w, [w EXCEPT !.cury = y, !.curx = x])
    BY <2>1, MoveDraws
  <2> QED
    BY <1>2, <2>2 DEF wmove
<1> QED
  BY <1>1, <1>2

LEMMA WsetscrregDraws ==
  ASSUME NEW w, Sound(w), NEW top \in 0 .. w.maxy, NEW bottom \in 0 .. w.maxy
  PROVE  Draws(w, wsetscrreg(w, top, bottom))
<1>1. CASE ~ (top <= w.cury /\ w.cury <= bottom /\ bottom <= w.maxy)
  BY <1>1, DrawsNothing DEF wsetscrreg
<1>2. CASE top <= w.cury /\ w.cury <= bottom /\ bottom <= w.maxy
  <2>1. PICK v : v = [w EXCEPT !.regtop = top, !.regbottom = bottom]
    OBVIOUS
  <2>2. IsWindow(w) /\ w.maxy \in Nat /\ w.cury \in Nat /\ w.curx \in 0 .. w.maxx
        /\ w.attrs \in Attributes /\ w.clear \in BOOLEAN /\ w.scroll \in BOOLEAN
    BY DEF Sound, Framed, Pointed
  <2>3. SameLines(w, v)
    BY <2>1, <2>2 DEF SameLines, IsWindow, Fields
  <2>4. v.regtop = top /\ v.regbottom = bottom /\ v.cury = w.cury /\ v.curx = w.curx
        /\ v.attrs = w.attrs /\ v.clear = w.clear /\ v.scroll = w.scroll
    BY <2>1, <2>2 DEF IsWindow, Fields
  <2>5. Pointed(v)
    BY <1>2, <2>2, <2>3, <2>4 DEF Pointed, SameLines
  <2>6. Draws(w, v)
    BY <2>2, <2>3, <2>4, <2>5, SameLinesDraws
  <2> QED
    BY <1>2, <2>1, <2>6 DEF wsetscrreg
<1> QED
  BY <1>1, <1>2

\* Attributes and flags.
LEMMA FlagDraws ==
  ASSUME NEW w, Sound(w), NEW a \in Attributes, NEW flag \in BOOLEAN
  PROVE  /\ Draws(w, [w EXCEPT !.attrs = a]) /\ Draws(w, [w EXCEPT !.scroll = flag])
         /\ Draws(w, [w EXCEPT !.clear = flag])
<1>1. PICK u, v, z : u = [w EXCEPT !.attrs = a] /\ v = [w EXCEPT !.scroll = flag] /\ z = [w EXCEPT !.clear = flag]
  OBVIOUS
<1>2. IsWindow(w) /\ w.attrs \in Attributes /\ w.clear \in BOOLEAN /\ w.scroll \in BOOLEAN /\ Pointed(w)
  BY DEF Sound, Framed
<1>3. SameLines(w, u) /\ SameLines(w, v) /\ SameLines(w, z)
  BY <1>1, <1>2 DEF SameLines, IsWindow, Fields
<1>4. /\ u.regtop = w.regtop /\ u.regbottom = w.regbottom /\ u.cury = w.cury /\ u.curx = w.curx
      /\ v.regtop = w.regtop /\ v.regbottom = w.regbottom /\ v.cury = w.cury /\ v.curx = w.curx
      /\ z.regtop = w.regtop /\ z.regbottom = w.regbottom /\ z.cury = w.cury /\ z.curx = w.curx
  BY <1>1, <1>2 DEF IsWindow, Fields
<1>5. /\ u.attrs = a /\ u.clear = w.clear /\ u.scroll = w.scroll
      /\ v.attrs = w.attrs /\ v.clear = w.clear /\ v.scroll = flag
      /\ z.attrs = w.attrs /\ z.clear = flag /\ z.scroll = w.scroll
  BY <1>1, <1>2 DEF IsWindow, Fields
<1>6. Pointed(u) /\ Pointed(v) /\ Pointed(z)
  BY <1>2, <1>3, <1>4 DEF Pointed, SameLines
<1>7. Draws(w, u) /\ Draws(w, v) /\ Draws(w, z)
  BY <1>2, <1>3, <1>5, <1>6, SameLinesDraws
<1> QED
  BY <1>1, <1>7

LEMMA WinschDraws ==
  ASSUME NEW w, Sound(w), NEW c \in Printed \cup Controls
  PROVE  Draws(w, winsch(w, c))
<1>1. CASE c \in {"\n", "\r", "\t", "BS"}
  BY <1>1, WaddchDraws DEF winsch
<1>2. CASE c \notin {"\n", "\r", "\t", "BS"}
  <2> DEFINE shifted == [x \in w.curx + 1 .. w.maxx |-> Cell(w, w.cury, x - 1)]
  <2>1. w.cury \in 0 .. w.maxy /\ w.curx \in 0 .. w.maxx /\ w.maxx \in w.curx .. w.maxx /\ w.maxx \in Nat
    BY DEF Sound, Framed, Pointed
  <2>2. \A x \in 0 .. w.maxx : x \in DOMAIN shifted => x \in w.curx .. w.maxx /\ shifted[x] \in Glyph
    <3>1. \A x \in w.curx + 1 .. w.maxx : x - 1 \in 0 .. w.maxx /\ x \in w.curx .. w.maxx
      BY <2>1
    <3> QED
      BY <2>1, <3>1, CellIs
  <2> HIDE DEF shifted
  <2>3. PICK v : v = Widen(Put(w, w.cury, shifted), w.cury, w.curx, w.maxx)
    OBVIOUS
  <2>4. Draws(w, v)
    BY <2>1, <2>2, <2>3, PutWidenDraws
  <2>5. Draws(v, waddch(v, c))
    BY <2>4, WaddchDraws DEF Draws
  <2>6. winsch(w, c) = waddch(v, c)
    BY <1>2, <2>3 DEF winsch, shifted
  <2> QED
    BY <2>4, <2>5, <2>6, DrawsOn
<1> QED
  BY <1>1, <1>2

LEMMA WdelchDraws ==
  ASSUME NEW w, Sound(w)
  PROVE  Draws(w, wdelch(w))
<1> DEFINE shifted == [x \in w.curx .. w.maxx |->
                        IF x = w.maxx THEN Blank(w) ELSE Cell(w, w.cury, x + 1)]
<1>1. w.cury \in 0 .. w.maxy /\ w.curx \in 0 .. w.maxx /\ w.maxx \in w.curx .. w.maxx /\ w.maxx \in Nat
  BY DEF Sound, Framed, Pointed
<1>2. \A x \in 0 .. w.maxx : x \in DOMAIN shifted => x \in w.curx .. w.maxx /\ shifted[x] \in Glyph
  <2>1. \A x \in w.curx .. w.maxx : x # w.maxx => x + 1 \in 0 .. w.maxx
    BY <1>1
  <2> QED
    BY <1>1, <2>1, CellIs, BlankIs
<1> HIDE DEF shifted
<1>3. Draws(w, Widen(Put(w, w.cury, shifted), w.cury, w.curx, w.maxx))
  BY <1>1, <1>2, PutWidenDraws
<1> QED
  BY <1>3 DEF wdelch, shifted

LEMMA LinesDraw ==
  ASSUME NEW w, Sound(w)
  PROVE  Draws(w, winsertln(w)) /\ Draws(w, wdeleteln(w))
<1>1. w.cury \in Nat /\ w.regbottom \in Nat /\ w.cury <= w.regbottom /\ w.regbottom <= w.maxy
  BY DEF Sound, Pointed
<1> QED
  BY <1>1, UpTurns, DownTurns DEF winsertln, wdeleteln

\* The least and the greatest of some columns or lines.
LEMMA EndsOf ==
  ASSUME NEW n \in Nat, NEW S, S \subseteq 0 .. n, S # {}
  PROVE  /\ Min(S) \in S /\ Max(S) \in S
         /\ \A k \in S : Min(S) <= k /\ k <= Max(S)
<1>1. \E m \in S : \A k \in S : m <= k
  <2>1. S \subseteq Nat
    OBVIOUS
  <2> QED
    BY <2>1, LeastOf
<1>2. Min(S) \in S /\ \A k \in S : Min(S) <= k
  BY <1>1 DEF Min
<1>3. \E m \in S : \A k \in S : m >= k
  <2> DEFINE T == {n - k : k \in S}
  <2>1. T \subseteq Nat /\ T # {}
    <3>1. \A k \in S : k \in 0 .. n /\ n - k \in Nat
      OBVIOUS
    <3>2. T \subseteq Nat
      BY <3>1
    <3>3. PICK k : k \in S
      OBVIOUS
    <3>4. n - k \in T
      BY <3>3
    <3> QED
      BY <3>2, <3>4
  <2>2. PICK t \in T : \A k \in T : t <= k
    <3> HIDE DEF T
    <3> QED
      BY <2>1, LeastOf
  <2>3. PICK m \in S : t = n - m
    OBVIOUS
  <2>4. ASSUME NEW k \in S PROVE m >= k
    <3>1. n - k \in T /\ n - m <= n - k
      BY <2>2, <2>3
    <3>2. m \in Int /\ k \in Int
      OBVIOUS
    <3> QED
      BY <3>1, <3>2
  <2> QED
    BY <2>4
<1>4. Max(S) \in S /\ \A k \in S : Max(S) >= k
  BY <1>3 DEF Max
<1> QED
  BY <1>2, <1>4

LEMMA BlankedDraws ==
  ASSUME NEW w, Sound(w), NEW y \in 0 .. w.maxy, NEW x \in 0 .. w.maxx
  PROVE  Draws(w, Blanked(w, y, x))
<1> DEFINE cleared == {c \in x .. w.maxx : Cell(w, y, c) # Blank(w)}
           g == [c \in cleared |-> Blank(w)]
<1>1. CASE cleared = {}
  BY <1>1, DrawsNothing DEF Blanked
<1>2. CASE cleared # {}
  <2>1. cleared \subseteq 0 .. w.maxx /\ w.maxx \in Nat
    BY DEF Sound, Framed
  <2>2. \A c \in 0 .. w.maxx : c \in DOMAIN g => c \in cleared /\ g[c] \in Glyph
    BY BlankIs
  <2>3. PICK v : v = Widen(Put(w, y, g), y, Min(cleared), Max(cleared))
    OBVIOUS
  <2>4. Blanked(w, y, x) = v
    BY <1>2, <2>3 DEF Blanked
  <2> HIDE DEF cleared, g
  <2>5. Min(cleared) \in cleared /\ Max(cleared) \in cleared /\ \A k \in cleared : Min(cleared) <= k /\ k <= Max(cleared)
    BY <1>2, <2>1, EndsOf
  <2>6. PICK first, last : first = Min(cleared) /\ last = Max(cleared)
    OBVIOUS
  <2>7. first \in 0 .. w.maxx /\ last \in first .. w.maxx
    <3>1. first \in 0 .. w.maxx /\ last \in 0 .. w.maxx /\ first <= last
      BY <2>1, <2>5, <2>6
    <3> QED
      BY <3>1
  <2>8. \A c \in 0 .. w.maxx : c \in DOMAIN g => c \in first .. last /\ g[c] \in Glyph
    BY <2>1, <2>2, <2>5, <2>6
  <2>9. Draws(w, Widen(Put(w, y, g), y, first, last))
    BY <2>7, <2>8, PutWidenDraws
  <2> QED
    BY <2>3, <2>4, <2>6, <2>9
<1> QED
  BY <1>1, <1>2

LEMMA WclrtobotDraws ==
  ASSUME NEW w, Sound(w)
  PROVE  Draws(w, wclrtobot(w)) /\ Draws(w, wclrtoeol(w))
<1> DEFINE a == w.cury
           b == w.regbottom + 1
           V == Drawings(w)
           Turn(n, v) == Blanked(v, n - 1, IF n - 1 = w.cury THEN w.curx ELSE 0)
           IsLoop(g) == g = [n \in a .. b |-> IF n = a THEN w ELSE Blanked(g[n - 1], n - 1, IF n - 1 = w.cury THEN w.curx ELSE 0)]
           loop == CHOOSE g : IsLoop(g)
           step == [n \in a + 1 .. b |-> [v \in V |-> Turn(n, v)]]
<1>12. /\ w.cury \in Nat /\ w.regbottom \in Nat /\ w.cury <= w.regbottom /\ w.regbottom <= w.maxy
      /\ w.curx \in 0 .. w.maxx /\ 0 \in 0 .. w.maxx /\ w.maxy \in Nat
  BY DEF Sound, Framed, Pointed
<1>0. a \in Int /\ b \in Int /\ a <= b
  BY <1>12
<1>1. ASSUME NEW n \in a + 1 .. b, NEW v, Draws(w, v) PROVE Draws(v, Turn(n, v))
  <2>1. Sound(v) /\ v.maxy = w.maxy /\ v.maxx = w.maxx
    BY <1>1 DEF Draws
  <2>2. PICK y, x : y = n - 1 /\ x = IF n - 1 = w.cury THEN w.curx ELSE 0
    OBVIOUS
  <2>3. y \in 0 .. v.maxy /\ x \in 0 .. v.maxx
    BY <1>12, <2>1, <2>2
  <2>4. Draws(v, Blanked(v, y, x))
    BY <2>1, <2>3, BlankedDraws
  <2> QED
    BY <2>2, <2>4
<1> HIDE DEF a, b
<1>2. ASSUME NEW n \in a + 1 .. b, NEW v \in V PROVE Turn(n, v) \in V
  <2> HIDE DEF Turn
  <2>1. Draws(w, v)
    BY <1>2, DrawingsAre
  <2>2. Draws(v, Turn(n, v))
    BY <1>2, <2>1, <1>1
  <2>3. Draws(w, Turn(n, v))
    BY <2>1, <2>2, DrawsOn
  <2> QED
    BY <2>3, DrawingsAre
<1>3. w \in V
  BY DrawsNothing, DrawingsAre
<1> HIDE DEF V
<1>4. step \in StepsFrom(a, b, V)
  <2> HIDE DEF Turn
  <2> QED
    BY <1>2 DEF StepsFrom
<1>5. PICK f \in [a .. b -> V] : f[a] = w /\ \A i \in a + 1 .. b : f[i] = step[i][f[i - 1]]
  <2> HIDE DEF step, IsLoop, loop, Turn
  <2>1. \E f : IsRun(f, a, b, V, w, step)
    BY <1>0, <1>3, <1>4, RecursionFrom
  <2> QED
    BY <2>1 DEF IsRun
<1>6. IsLoop(f)
  <2>1. ASSUME NEW n \in a .. b
        PROVE  f[n] = IF n = a THEN w ELSE Turn(n, f[n - 1])
    <3>1. CASE n = a
      BY <1>5, <3>1
    <3>2. CASE n # a
      <4>1. n \in a + 1 .. b /\ n - 1 \in a .. b
        BY <1>0, <3>2
      <4>2. f[n - 1] \in V /\ f[n] = step[n][f[n - 1]]
        BY <1>5, <4>1
      <4> HIDE DEF Turn
      <4>3. step[n][f[n - 1]] = Turn(n, f[n - 1])
        BY <4>1, <4>2
      <4> QED
        BY <3>2, <4>2, <4>3
    <3> QED
      BY <3>1, <3>2
  <2> HIDE DEF step
  <2> QED
    BY <1>5, <2>1
<1>7. IsLoop(loop)
  <2> HIDE DEF IsLoop
  <2> QED
    BY <1>6
<1> HIDE DEF loop
<1>8. ASSUME NEW n \in a .. b
      PROVE  loop[n] = IF n = a THEN w ELSE Turn(n, loop[n - 1])
  BY <1>7
<1>9. loop[b] \in V
  <2> DEFINE S == {i \in a .. b : loop[i] \in V}
  <2>1. a \in S
    <3>1. a \in a .. b
      BY <1>0
    <3> HIDE DEF Turn
    <3>2. loop[a] = w
      BY <1>8, <3>1
    <3> QED
      BY <1>3, <3>1, <3>2
  <2>2. ASSUME NEW i \in a + 1 .. b, i - 1 \in S PROVE i \in S
    <3>1. i \in a .. b /\ i # a
      BY <1>0
    <3> HIDE DEF Turn
    <3> QED
      BY <1>2, <1>8, <2>2, <3>1
  <2>3. \A i \in a .. b : i \in S
    <3> HIDE DEF S
    <3> QED
      BY <1>0, <2>1, <2>2, UpFrom
  <2> QED
    BY <1>0, <2>3
<1>10. wclrtobot(w) = loop[b]
  BY DEF wclrtobot, loop, a, b
<1>11. Draws(w, wclrtoeol(w))
  BY <1>12, BlankedDraws DEF wclrtoeol
<1> QED
  BY <1>9, <1>10, <1>11, DrawingsAre DEF V

\* The end of a range of a line that has none may be anything.
LEMMA ResetDraws ==
  ASSUME NEW w, Sound(w), NEW y \in 0 .. w.maxy, w.minchng[y] = NoChange
  PROVE  Draws(w, [w EXCEPT !.maxchng[y] = 0])
<1>1. PICK v : v = [w EXCEPT !.maxchng[y] = 0]
  OBVIOUS
<1>2. IsWindow(w)
  BY DEF Sound, Framed
<1>3. /\ SameFrame(w, v) /\ v.line = w.line /\ v.row = w.row /\ v.minchng = w.minchng
      /\ v.maxchng = [w.maxchng EXCEPT ![y] = 0]
  BY <1>1, <1>2 DEF SameFrame, IsWindow, Fields
<1>4. Framed(v) /\ Pointed(v) /\ v.maxy = w.maxy /\ v.maxx = w.maxx /\ v.begy = w.begy /\ v.begx = w.begx
  BY <1>3, FrameKept DEF SameFrame
<1>5. Lined(v) /\ Held(v)
  BY <1>3, <1>4 DEF Sound, Lined, Held
<1>6. w.maxchng \in [0 .. w.maxy -> Int] /\ w.minchng \in [0 .. w.maxy -> Int] /\ w.minchng[y] = -1
  BY DEF Sound, Ranged, NoChange
<1>7. Ranged(v)
  <2>1. v.maxchng \in [0 .. w.maxy -> Int] /\ v.maxchng[y] = 0
    <3>1. w.maxchng \in [0 .. w.maxy -> Int] /\ 0 \in Int
      BY <1>6
    <3> QED
      BY <1>3, <3>1
  <2>2. \A z \in 0 .. w.maxy : z # y => v.maxchng[z] = w.maxchng[z]
    BY <1>3, <1>6
  <2>3. \A z \in 0 .. w.maxy :
         \/ w.minchng[z] = -1 /\ w.maxchng[z] \in {-1, 0}
         \/ 0 <= w.minchng[z] /\ w.minchng[z] <= w.maxchng[z] /\ w.maxchng[z] <= w.maxx
    BY DEF Sound, Ranged
  <2> QED
    BY <1>3, <1>4, <1>6, <2>1, <2>2, <2>3 DEF Ranged
<1>8. ASSUME NEW z \in 0 .. w.maxy, NEW x PROVE Within(w, z, x) => Within(v, z, x)
  BY <1>3, <1>6 DEF Within
<1>9. \A z, x : Cell(v, z, x) = Cell(w, z, x)
  BY <1>3 DEF Cell
<1> QED
  BY <1>1, <1>4, <1>5, <1>7, <1>8, <1>9 DEF Draws, Sound

LEMMA CopiedDraws ==
  ASSUME NEW w, Sound(w), NEW o, Sound(o), NEW cells, cells \subseteq Cells(o) \cap Cells(w)
  PROVE  Draws(w, Copied(o, w, cells))
<1> DEFINE cols(y) == {x \in Columns(w) : <<y, x>> \in cells}
           glyphs(y) == [x \in cols(y) |-> <<Cell(o, y, x)[1], w.attrs>>]
           line(u, y) == IF cols(y) = {}
                      THEN IF u.minchng[y] = NoChange THEN [u EXCEPT !.maxchng[y] = 0] ELSE u
                      ELSE Widen(Put(u, y, glyphs(y)), y, Min(cols(y)), Max(cols(y)))
<1> DEFINE a == 0
           b == Min({o.maxy, w.maxy}) + 1
           V == Drawings(w)
           Turn(n, v) == line(v, n - 1)
           IsLoop(g) == g = [n \in a .. b |-> IF n = a THEN w ELSE line(g[n - 1], n - 1)]
           loop == CHOOSE g : IsLoop(g)
           step == [n \in a + 1 .. b |-> [v \in V |-> Turn(n, v)]]
<1>12. o.maxy \in Nat /\ w.maxy \in Nat /\ w.maxx \in Nat /\ w.attrs \in Attributes
  BY DEF Sound, Framed
<1>13. Min({o.maxy, w.maxy}) \in Nat /\ Min({o.maxy, w.maxy}) <= w.maxy
  <2>1. \E m \in {o.maxy, w.maxy} : \A k \in {o.maxy, w.maxy} : m <= k
    BY <1>12, LeastOf
  <2>2. Min({o.maxy, w.maxy}) \in {o.maxy, w.maxy} /\ \A k \in {o.maxy, w.maxy} : Min({o.maxy, w.maxy}) <= k
    BY <2>1 DEF Min
  <2> QED
    BY <1>12, <2>2
<1>0. a \in Int /\ b \in Int /\ a <= b
  BY <1>13
<1>14. ASSUME NEW y \in 0 .. w.maxy
      PROVE  /\ cols(y) \subseteq 0 .. w.maxx
             /\ \A x \in DOMAIN glyphs(y) : x \in cols(y) /\ glyphs(y)[x] \in Glyph
  <2>1. ASSUME NEW x \in cols(y) PROVE glyphs(y)[x] \in Glyph
    <3>1. y \in 0 .. o.maxy /\ x \in 0 .. o.maxx
      BY DEF Cells, Rows, Columns
    <3>2. Cell(o, y, x) \in Glyph
      BY <3>1, CellIs
    <3>3. <<Cell(o, y, x)[1], w.attrs>> \in Glyph
      BY <1>12, <3>2 DEF Glyph
    <3> QED
      BY <3>3
  <2> QED
    BY <2>1 DEF Columns
<1>1. ASSUME NEW n \in a + 1 .. b, NEW v, Draws(w, v) PROVE Draws(v, Turn(n, v))
  <2>1. Sound(v) /\ v.maxy = w.maxy /\ v.maxx = w.maxx
    BY <1>1 DEF Draws
  <2>2. PICK y : y = n - 1
    OBVIOUS
  <2>3. y \in 0 .. v.maxy /\ y \in 0 .. w.maxy
    BY <1>12, <1>13, <2>1, <2>2
  <2>4. CASE cols(y) = {} /\ v.minchng[y] # NoChange
    BY <2>1, <2>2, <2>4, DrawsNothing
  <2>5. CASE cols(y) = {} /\ v.minchng[y] = NoChange
    <3>1. Draws(v, [v EXCEPT !.maxchng[y] = 0])
      BY <2>1, <2>3, <2>5, ResetDraws
    <3> QED
      BY <2>2, <2>5, <3>1
  <2>6. CASE cols(y) # {}
    <3>1. PICK S, G : S = cols(y) /\ G = glyphs(y)
      OBVIOUS
    <3>2. S \subseteq 0 .. w.maxx /\ S # {} /\ \A x \in DOMAIN G : x \in S /\ G[x] \in Glyph
      <4> HIDE DEF cols, glyphs
      <4> QED
        BY <1>14, <2>3, <2>6, <3>1
    <3>3. PICK first, last : first = Min(S) /\ last = Max(S)
      OBVIOUS
    <3>4. first \in S /\ last \in S /\ \A k \in S : first <= k /\ k <= last
      BY <1>12, <3>2, <3>3, EndsOf
    <3>5. first \in 0 .. v.maxx /\ last \in first .. v.maxx /\ \A x \in 0 .. v.maxx : x \in DOMAIN G => x \in first .. last /\ G[x] \in Glyph
      BY <1>12, <2>1, <3>2, <3>4
    <3>6. Draws(v, Widen(Put(v, y, G), y, first, last))
      BY <2>1, <2>3, <3>5, PutWidenDraws
    <3>7. Turn(n, v) = Widen(Put(v, y, G), y, first, last)
      <4> HIDE DEF cols, glyphs
      <4> QED
        BY <2>2, <2>6, <3>1, <3>3
    <3> QED
      BY <3>6, <3>7
  <2> HIDE DEF cols, Turn
  <2> QED
    BY <2>4, <2>5, <2>6
<1> HIDE DEF a, b
<1>2. ASSUME NEW n \in a + 1 .. b, NEW v \in V PROVE Turn(n, v) \in V
  <2> HIDE DEF Turn
  <2>1. Draws(w, v)
    BY <1>2, DrawingsAre
  <2>2. Draws(v, Turn(n, v))
    BY <1>2, <2>1, <1>1
  <2>3. Draws(w, Turn(n, v))
    BY <2>1, <2>2, DrawsOn
  <2> QED
    BY <2>3, DrawingsAre
<1>3. w \in V
  BY DrawsNothing, DrawingsAre
<1> HIDE DEF V
<1>4. step \in StepsFrom(a, b, V)
  <2> HIDE DEF Turn
  <2> QED
    BY <1>2 DEF StepsFrom
<1>5. PICK f \in [a .. b -> V] : f[a] = w /\ \A i \in a + 1 .. b : f[i] = step[i][f[i - 1]]
  <2> HIDE DEF step, IsLoop, loop, Turn
  <2>1. \E f : IsRun(f, a, b, V, w, step)
    BY <1>0, <1>3, <1>4, RecursionFrom
  <2> QED
    BY <2>1 DEF IsRun
<1>6. IsLoop(f)
  <2>1. ASSUME NEW n \in a .. b
        PROVE  f[n] = IF n = a THEN w ELSE Turn(n, f[n - 1])
    <3>1. CASE n = a
      BY <1>5, <3>1
    <3>2. CASE n # a
      <4>1. n \in a + 1 .. b /\ n - 1 \in a .. b
        BY <1>0, <3>2
      <4>2. f[n - 1] \in V /\ f[n] = step[n][f[n - 1]]
        BY <1>5, <4>1
      <4> HIDE DEF Turn
      <4>3. step[n][f[n - 1]] = Turn(n, f[n - 1])
        BY <4>1, <4>2
      <4> QED
        BY <3>2, <4>2, <4>3
    <3> QED
      BY <3>1, <3>2
  <2> HIDE DEF step
  <2> QED
    BY <1>5, <2>1
<1>7. IsLoop(loop)
  <2> HIDE DEF IsLoop
  <2> QED
    BY <1>6
<1> HIDE DEF loop
<1>8. ASSUME NEW n \in a .. b
      PROVE  loop[n] = IF n = a THEN w ELSE Turn(n, loop[n - 1])
  BY <1>7
<1>9. loop[b] \in V
  <2> DEFINE S == {i \in a .. b : loop[i] \in V}
  <2>1. a \in S
    <3>1. a \in a .. b
      BY <1>0
    <3> HIDE DEF Turn
    <3>2. loop[a] = w
      BY <1>8, <3>1
    <3> QED
      BY <1>3, <3>1, <3>2
  <2>2. ASSUME NEW i \in a + 1 .. b, i - 1 \in S PROVE i \in S
    <3>1. i \in a .. b /\ i # a
      BY <1>0
    <3> HIDE DEF Turn
    <3> QED
      BY <1>2, <1>8, <2>2, <3>1
  <2>3. \A i \in a .. b : i \in S
    <3> HIDE DEF S
    <3> QED
      BY <1>0, <2>1, <2>2, UpFrom
  <2> QED
    BY <1>0, <2>3
<1>10. Copied(o, w, cells) = loop[b]
  BY DEF Copied, loop, a, b
<1> QED
  BY <1>9, <1>10, DrawingsAre DEF V

LEMMA OverlayDraws ==
  ASSUME NEW w, Sound(w), NEW o, Sound(o)
  PROVE  Draws(w, overlay(o, w)) /\ Draws(w, overwrite(o, w))
<1>1. {p \in Cells(o) \cap Cells(w) : Text(o)[p][1] # Space} \subseteq Cells(o) \cap Cells(w)
  OBVIOUS
<1>2. {p \in Cells(o) \cap Cells(w) : Text(o)[p][1] # Text(w)[p][1]} \subseteq Cells(o) \cap Cells(w)
  OBVIOUS
<1> QED
  BY <1>1, <1>2, CopiedDraws DEF overlay, overwrite

LEMMA WboxDraws ==
  ASSUME NEW w, Sound(w), NEW c \in Letters, NEW ymin \in 0 .. w.maxy, NEW xmin \in 0 .. w.maxx,
         NEW ymax0 \in 0 .. w.maxy, NEW xmax0 \in 0 .. w.maxx
  PROVE  Draws(w, wbox(w, ymin, xmin, ymax0, xmax0, c))
<1> DEFINE ymax == IF ymax0 = 0 THEN w.maxy ELSE ymax0
           xmax == IF xmax0 = 0 THEN w.maxx ELSE xmax0
           side(y) == IF y \in {ymin, ymax} THEN xmin .. xmax ELSE {xmin, xmax}
<1>14. CASE ymax > w.maxy \/ xmax > w.maxx \/ ymin >= ymax \/ xmin >= xmax
  BY <1>14, DrawsNothing DEF wbox
<1>15. SUFFICES ASSUME ~ (ymax > w.maxy \/ xmax > w.maxx \/ ymin >= ymax \/ xmin >= xmax)
             PROVE  Draws(w, wbox(w, ymin, xmin, ymax0, xmax0, c))
  BY <1>14
<1> DEFINE a == ymin - 1
           b == ymax
           V == Drawings(w)
           Turn(n, v) == Widen(Put(v, n, [x \in side(n) |-> <<c, w.attrs>>]), n, xmin, xmax)
           IsLoop(g) == g = [n \in a .. b |-> IF n = a THEN w ELSE Widen(Put(g[n - 1], n, [x \in side(n) |-> <<c, w.attrs>>]), n, xmin, xmax)]
           loop == CHOOSE g : IsLoop(g)
           step == [n \in a + 1 .. b |-> [v \in V |-> Turn(n, v)]]
<1>12. /\ w.maxy \in Nat /\ w.maxx \in Nat /\ w.attrs \in Attributes
       /\ xmin \in 0 .. w.maxx /\ xmax \in xmin .. w.maxx /\ ymax \in 0 .. w.maxy /\ ymin < ymax
  BY <1>15 DEF Sound, Framed
<1> HIDE DEF ymax, xmax
<1>0. a \in Int /\ b \in Int /\ a <= b
  BY <1>12
<1>1. ASSUME NEW n \in a + 1 .. b, NEW v, Draws(w, v) PROVE Draws(v, Turn(n, v))
  <2>1. Sound(v) /\ v.maxy = w.maxy /\ v.maxx = w.maxx
    BY <1>1 DEF Draws
  <2>2. n \in 0 .. v.maxy /\ xmin \in 0 .. v.maxx /\ xmax \in xmin .. v.maxx
    BY <1>12, <2>1
  <2>3. PICK G : G = [x \in side(n) |-> <<c, w.attrs>>]
    OBVIOUS
  <2>4. \A x \in 0 .. v.maxx : x \in DOMAIN G => x \in xmin .. xmax /\ G[x] \in Glyph
    BY <1>12, <2>3 DEF Glyph
  <2>5. Draws(v, Widen(Put(v, n, G), n, xmin, xmax))
    BY <2>1, <2>2, <2>4, PutWidenDraws
  <2> QED
    BY <2>3, <2>5
<1> HIDE DEF a, b
<1>2. ASSUME NEW n \in a + 1 .. b, NEW v \in V PROVE Turn(n, v) \in V
  <2> HIDE DEF Turn
  <2>1. Draws(w, v)
    BY <1>2, DrawingsAre
  <2>2. Draws(v, Turn(n, v))
    BY <1>2, <2>1, <1>1
  <2>3. Draws(w, Turn(n, v))
    BY <2>1, <2>2, DrawsOn
  <2> QED
    BY <2>3, DrawingsAre
<1>3. w \in V
  BY DrawsNothing, DrawingsAre
<1> HIDE DEF V
<1>4. step \in StepsFrom(a, b, V)
  <2> HIDE DEF Turn
  <2> QED
    BY <1>2 DEF StepsFrom
<1>5. PICK f \in [a .. b -> V] : f[a] = w /\ \A i \in a + 1 .. b : f[i] = step[i][f[i - 1]]
  <2> HIDE DEF step, IsLoop, loop, Turn, side
  <2>1. \E f : IsRun(f, a, b, V, w, step)
    BY <1>0, <1>3, <1>4, RecursionFrom
  <2> QED
    BY <2>1 DEF IsRun
<1>6. IsLoop(f)
  <2>1. ASSUME NEW n \in a .. b
        PROVE  f[n] = IF n = a THEN w ELSE Turn(n, f[n - 1])
    <3>1. CASE n = a
      BY <1>5, <3>1
    <3>2. CASE n # a
      <4>1. n \in a + 1 .. b /\ n - 1 \in a .. b
        BY <1>0, <3>2
      <4>2. f[n - 1] \in V /\ f[n] = step[n][f[n - 1]]
        BY <1>5, <4>1
      <4> HIDE DEF Turn
      <4>3. step[n][f[n - 1]] = Turn(n, f[n - 1])
        BY <4>1, <4>2
      <4> QED
        BY <3>2, <4>2, <4>3
    <3> QED
      BY <3>1, <3>2
  <2> HIDE DEF step
  <2> QED
    BY <1>5, <2>1
<1>7. IsLoop(loop)
  <2> HIDE DEF IsLoop
  <2> QED
    BY <1>6
<1> HIDE DEF loop
<1>8. ASSUME NEW n \in a .. b
      PROVE  loop[n] = IF n = a THEN w ELSE Turn(n, loop[n - 1])
  BY <1>7
<1>9. loop[b] \in V
  <2> DEFINE S == {i \in a .. b : loop[i] \in V}
  <2>1. a \in S
    <3>1. a \in a .. b
      BY <1>0
    <3> HIDE DEF Turn
    <3>2. loop[a] = w
      BY <1>8, <3>1
    <3> QED
      BY <1>3, <3>1, <3>2
  <2>2. ASSUME NEW i \in a + 1 .. b, i - 1 \in S PROVE i \in S
    <3>1. i \in a .. b /\ i # a
      BY <1>0
    <3> HIDE DEF Turn
    <3> QED
      BY <1>2, <1>8, <2>2, <3>1
  <2>3. \A i \in a .. b : i \in S
    <3> HIDE DEF S
    <3> QED
      BY <1>0, <2>1, <2>2, UpFrom
  <2> QED
    BY <1>0, <2>3
<1>10. wbox(w, ymin, xmin, ymax0, xmax0, c) = loop[b]
  BY <1>15 DEF wbox, loop, a, b, ymax, xmax
<1> QED
  BY <1>9, <1>10, DrawingsAre DEF V

LEMMA TouchwinDraws ==
  ASSUME NEW w, Sound(w)
  PROVE  /\ Draws(w, touchwin(w)) /\ SameFrame(w, touchwin(w))
         /\ \A y \in 0 .. w.maxy, x \in 0 .. w.maxx :
              Within(touchwin(w), y, x) /\ Cell(touchwin(w), y, x) = Cell(w, y, x)
<1>1. IsWindow(w) /\ w.maxx \in Nat
  BY DEF Sound, Framed
<1>2. SameFrame(w, w) /\ Lined(w) /\ Held(w)
  BY <1>1 DEF SameFrame, Sound
<1>3. PICK v : v = Touch(w, Rows(w))
  OBVIOUS
<1>4. Draws(w, v) /\ SameFrame(w, v)
  BY <1>2, <1>3, TouchDraws
<1>5. /\ v.line = w.line /\ v.row = w.row
      /\ v.minchng = [y \in 0 .. w.maxy |-> IF y \in Rows(w) THEN 0 ELSE w.minchng[y]]
      /\ v.maxchng = [y \in 0 .. w.maxy |-> IF y \in Rows(w) THEN w.maxx ELSE w.maxchng[y]]
  BY <1>1, <1>3, TouchIs
<1>6. ASSUME NEW y \in 0 .. w.maxy, NEW x \in 0 .. w.maxx
      PROVE  Within(v, y, x) /\ Cell(v, y, x) = Cell(w, y, x)
  <2>1. v.minchng[y] = 0 /\ v.maxchng[y] = w.maxx
    BY <1>5 DEF Rows
  <2> QED
    BY <1>1, <1>5, <2>1 DEF Within, Cell
<1> QED
  BY <1>3, <1>4, <1>6 DEF touchwin

\* A window that lies on the screen.
OnScreen(w) == w.begy + w.maxy <= LINES - 1 /\ w.begx + w.maxx <= COLS - 1

LEMMA DrawsOnScreen ==
  ASSUME NEW w, OnScreen(w), NEW v, Draws(w, v)
  PROVE  Sound(v) /\ OnScreen(v)
BY DEF OnScreen, Draws

\* What mvwin leaves: all of the window is to be sent, if it has moved.
Moves(w, v) ==
    /\ Sound(v) /\ OnScreen(v) /\ v.maxy = w.maxy /\ v.maxx = w.maxx
    /\ \A y \in 0 .. w.maxy, x \in 0 .. w.maxx :
         Within(v, y, x) /\ Cell(v, y, x) = Cell(w, y, x)

LEMMA MvwinMoves ==
  ASSUME NEW w, Sound(w), NEW y \in Nat, NEW x \in Nat
  PROVE  mvwin(w, y, x) = w \/ Moves(w, mvwin(w, y, x))
<1>1. CASE y + w.maxy > LINES - 1 \/ x + w.maxx > COLS - 1
  BY <1>1 DEF mvwin
<1>2. CASE ~ (y + w.maxy > LINES - 1 \/ x + w.maxx > COLS - 1)
  <2>1. PICK u : u = [w EXCEPT !.begy = y, !.begx = x]
    OBVIOUS
  <2>2. IsWindow(w)
    BY DEF Sound, Framed
  <2>3. /\ IsWindow(u) /\ u.maxy = w.maxy /\ u.maxx = w.maxx /\ u.begy = y /\ u.begx = x
        /\ u.attrs = w.attrs /\ u.clear = w.clear /\ u.scroll = w.scroll
        /\ u.regtop = w.regtop /\ u.regbottom = w.regbottom /\ u.cury = w.cury /\ u.curx = w.curx
        /\ u.line = w.line /\ u.row = w.row /\ u.minchng = w.minchng /\ u.maxchng = w.maxchng
    BY <2>1, <2>2 DEF IsWindow, Fields
  <2>4. Framed(u) /\ Pointed(u)
    BY <2>3 DEF Sound, Framed, Pointed
  <2>5. Lined(u) /\ Ranged(u) /\ Held(u)
    BY <2>3 DEF Sound, Lined, Ranged, Held
  <2>6. Sound(u)
    BY <2>4, <2>5 DEF Sound
  <2>7. PICK v : v = touchwin(u)
    OBVIOUS
  <2>8. /\ Draws(u, v) /\ SameFrame(u, v)
        /\ \A i \in 0 .. u.maxy, j \in 0 .. u.maxx : Within(v, i, j) /\ Cell(v, i, j) = Cell(u, i, j)
    BY <2>6, <2>7, TouchwinDraws
  <2>9. \A i, j : Cell(u, i, j) = Cell(w, i, j)
    BY <2>3 DEF Cell
  <2>10. Sound(v) /\ OnScreen(v) /\ v.maxy = w.maxy /\ v.maxx = w.maxx
    <3>1. LINES \in Int /\ COLS \in Int /\ w.maxy \in Int /\ w.maxx \in Int
      BY ScreenAssumption DEF Sound, Framed
    <3> QED
      BY <1>2, <2>3, <2>8, <3>1 DEF OnScreen, Draws, SameFrame
  <2>11. Moves(w, v)
    BY <2>3, <2>8, <2>9, <2>10 DEF Moves
  <2>12. mvwin(w, y, x) = v
    BY <1>2, <2>1, <2>7 DEF mvwin
  <2> QED
    BY <2>11, <2>12
<1> QED
  BY <1>1, <1>2

LEMMA EraseDraws ==
  ASSUME NEW w, Sound(w)
  PROVE  Draws(w, werase(w)) /\ Draws(w, wclear(w))
<1> DEFINE region == w.regtop .. w.regbottom
           rows == {w.line[y] : y \in region}
           held == [r \in 0 .. w.maxy |-> IF r \in rows THEN BlankRow(w) ELSE w.row[r]]
<1>1. PICK u : u = [w EXCEPT !.row = held]
  OBVIOUS
<1>2. IsWindow(w) /\ w.maxy \in Nat /\ w.maxx \in Nat
  BY DEF Sound, Framed
<1>3. SameFrame(w, u) /\ u.line = w.line /\ u.minchng = w.minchng /\ u.maxchng = w.maxchng /\ u.row = held
  <2> HIDE DEF held
  <2> QED
    BY <1>1, <1>2 DEF SameFrame, IsWindow, Fields
<1>4. w.line \in [0 .. w.maxy -> 0 .. w.maxy] /\ w.row \in [0 .. w.maxy -> [0 .. w.maxx -> Glyph]]
      /\ \A y, z \in 0 .. w.maxy : w.line[y] = w.line[z] => y = z
  BY DEF Sound, Lined, Held
<1>5. held \in [0 .. w.maxy -> [0 .. w.maxx -> Glyph]]
  BY <1>4, BlankIs
<1>6. Lined(u) /\ Held(u)
  <2>1. u.maxy = w.maxy /\ u.maxx = w.maxx
    BY <1>3 DEF SameFrame
  <2> HIDE DEF held
  <2> QED
    BY <1>3, <1>4, <1>5, <2>1 DEF Lined, Held
<1>7. w.regtop \in 0 .. w.maxy /\ w.regbottom \in 0 .. w.maxy /\ w.regtop <= w.regbottom
  BY <1>2 DEF Sound, Pointed
<1>8. ASSUME NEW z \in 0 .. w.maxy, NEW x \in 0 .. w.maxx, z \notin region PROVE Cell(u, z, x) = Cell(w, z, x)
  <2>1. region \subseteq 0 .. w.maxy
    <3>1. \A i \in region : i \in Int /\ w.regtop <= i /\ i <= w.regbottom
      OBVIOUS
    <3>2. w.regtop \in Int /\ 0 <= w.regtop /\ w.regbottom \in Int /\ w.regbottom <= w.maxy
      BY <1>2, <1>7
    <3> HIDE DEF region
    <3> QED
      BY <1>2, <3>1, <3>2
  <2>2. w.line[z] \notin rows
    <3> HIDE DEF region
    <3> QED
      BY <1>4, <1>8, <2>1
  <2>3. held[w.line[z]] = w.row[w.line[z]]
    <3> HIDE DEF rows
    <3> QED
      BY <1>4, <2>2
  <2> HIDE DEF held
  <2> QED
    BY <1>3, <2>3 DEF Cell
<1>9. PICK t : t = Touch(u, region)
  OBVIOUS
<1>10. Draws(w, t) /\ SameFrame(w, t)
  <2> HIDE DEF region
  <2> QED
    BY <1>3, <1>6, <1>8, <1>9, TouchDraws
<1>11. PICK top : top = w.regtop
  OBVIOUS
<1>12. PICK m : m = [t EXCEPT !.cury = top, !.curx = 0]
  OBVIOUS
<1>13. Draws(t, m)
  <2>1. Sound(t) /\ t.regtop = w.regtop /\ t.regbottom = w.regbottom /\ t.maxx = w.maxx
    BY <1>10 DEF Draws, SameFrame
  <2>2. top \in t.regtop .. t.regbottom /\ 0 \in 0 .. t.maxx
    BY <1>2, <1>7, <1>11, <2>1
  <2> QED
    BY <1>12, <2>1, <2>2, MoveDraws
<1>14. werase(w) = m
  <2> DEFINE lows == [y \in 0 .. w.maxy |-> IF y \in region THEN 0 ELSE w.minchng[y]]
             highs == [y \in 0 .. w.maxy |-> IF y \in region THEN w.maxx ELSE w.maxchng[y]]
  <2>1. PICK e, k : k = Touch(w, region) /\ e = [k EXCEPT !.row = held, !.cury = top, !.curx = 0]
    OBVIOUS
  <2>2. SameFrame(w, k) /\ k.line = w.line /\ k.row = w.row /\ k.minchng = lows /\ k.maxchng = highs
    <3> HIDE DEF region
    <3> QED
      BY <1>2, <2>1, TouchIs
  <2>3. werase(w) = [k EXCEPT !.row = [r \in Rows(w) |-> IF r \in rows THEN BlankRow(w) ELSE k.row[r]],
                              !.cury = w.regtop, !.curx = 0]
    BY <2>1 DEF werase
  <2>4. werase(w) = e
    BY <1>11, <2>1, <2>2, <2>3 DEF Rows
  <2>5. SameFrame(u, t) /\ t.line = w.line /\ t.row = held /\ t.minchng = lows /\ t.maxchng = highs
    <3>1. IsWindow(u) /\ u.maxy = w.maxy /\ u.maxx = w.maxx
      BY <1>3 DEF SameFrame
    <3> HIDE DEF region, held
    <3> QED
      BY <1>3, <1>9, <3>1, TouchIs
  <2> HIDE DEF held, lows, highs
  <2>6. IsWindow(k) /\ IsWindow(t)
    BY <2>2, <2>5 DEF SameFrame
  <2>7. /\ IsWindow(e) /\ e.maxy = w.maxy /\ e.maxx = w.maxx /\ e.begy = w.begy /\ e.begx = w.begx
        /\ e.attrs = w.attrs /\ e.clear = w.clear /\ e.scroll = w.scroll
        /\ e.regtop = w.regtop /\ e.regbottom = w.regbottom /\ e.cury = top /\ e.curx = 0
        /\ e.line = w.line /\ e.row = held /\ e.minchng = lows /\ e.maxchng = highs
    BY <2>1, <2>2, <2>6 DEF SameFrame, IsWindow, Fields
  <2>8. /\ IsWindow(m) /\ m.maxy = t.maxy /\ m.maxx = t.maxx /\ m.begy = t.begy /\ m.begx = t.begx
        /\ m.attrs = t.attrs /\ m.clear = t.clear /\ m.scroll = t.scroll
        /\ m.regtop = t.regtop /\ m.regbottom = t.regbottom /\ m.cury = top /\ m.curx = 0
        /\ m.line = w.line /\ m.row = held /\ m.minchng = lows /\ m.maxchng = highs
    BY <1>12, <2>5, <2>6 DEF IsWindow, Fields
  <2>9. SameFrame(e, m)
    BY <1>10, <2>7, <2>8 DEF SameFrame
  <2>10. e = m
    BY <2>7, <2>8, <2>9, SameFields
  <2> QED
    BY <2>4, <2>10
<1>15. Draws(w, werase(w))
  BY <1>10, <1>13, <1>14, DrawsOn
<1>16. Draws(werase(w), [werase(w) EXCEPT !.clear = TRUE])
  <2>1. PICK e : e = werase(w)
    OBVIOUS
  <2>2. Sound(e) /\ e.attrs \in Attributes
    BY <1>15, <2>1 DEF Draws, Sound, Framed
  <2> QED
    BY <2>1, <2>2, FlagDraws
<1> QED
  BY <1>15, <1>16, DrawsOn DEF wclear

\* What newwin gives: all of the window is to be sent.
Opened(w, rows, cols, y, x) ==
    /\ Sound(w) /\ w.maxy = rows - 1 /\ w.maxx = cols - 1 /\ w.begy = y /\ w.begx = x
    /\ \A i \in 0 .. rows - 1, j \in 0 .. cols - 1 : Within(w, i, j)

LEMMA NewWindowSound ==
  ASSUME NEW rows \in Nat \ {0}, NEW cols \in Nat \ {0}, NEW y \in Nat, NEW x \in Nat
  PROVE  Opened(NewWindow(rows, cols, y, x), rows, cols, y, x)
<1>1. PICK w : w = NewWindow(rows, cols, y, x)
  OBVIOUS
<1>2. PICK row : row = [j \in 0 .. cols - 1 |-> <<Space, 0>>]
  OBVIOUS
<1>3. rows - 1 \in Nat /\ cols - 1 \in Nat /\ 0 \in Attributes
  BY ScreenAssumption
<1>4. row \in [0 .. cols - 1 -> Glyph]
  BY <1>2, <1>3 DEF Glyph
<1>5. /\ IsWindow(w) /\ w.maxy = rows - 1 /\ w.maxx = cols - 1 /\ w.begy = y /\ w.begx = x
      /\ w.cury = 0 /\ w.curx = 0 /\ w.attrs = 0 /\ w.clear = FALSE /\ w.scroll = FALSE
      /\ w.line = [i \in 0 .. rows - 1 |-> i] /\ w.row = [i \in 0 .. rows - 1 |-> row]
      /\ w.minchng = [i \in 0 .. rows - 1 |-> 0] /\ w.maxchng = [i \in 0 .. rows - 1 |-> cols - 1]
      /\ w.regtop = 0 /\ w.regbottom = rows - 1
  BY <1>1, <1>2 DEF NewWindow, IsWindow, Fields
<1>6. Framed(w) /\ Pointed(w)
  <2>1. Framed(w)
    <3>1. w.maxy \in Nat /\ w.maxx \in Nat /\ w.begy \in Nat /\ w.begx \in Nat /\ w.attrs \in Attributes
      BY <1>3, <1>5
    <3>2. IsWindow(w) /\ w.clear \in BOOLEAN /\ w.scroll \in BOOLEAN
      BY <1>5
    <3> QED
      BY <3>1, <3>2 DEF Framed
  <2>2. Pointed(w)
    <3>1. w.regbottom \in Nat /\ w.regbottom <= w.maxy /\ w.maxx \in Nat
      BY <1>3, <1>5
    <3>2. w.regtop = 0 /\ w.cury = 0 /\ w.curx = 0
      BY <1>5
    <3> QED
      BY <3>1, <3>2 DEF Pointed
  <2> QED
    BY <2>1, <2>2
<1>7. Lined(w) /\ Held(w)
  BY <1>3, <1>4, <1>5 DEF Lined, Held
<1>8. Ranged(w)
  BY <1>3, <1>5 DEF Ranged
<1>9. \A i \in 0 .. rows - 1, j \in 0 .. cols - 1 : Within(w, i, j)
  BY <1>3, <1>5 DEF Within
<1> QED
  BY <1>1, <1>5, <1>6, <1>7, <1>8, <1>9 DEF Sound, Opened

(***************************************************************************)
(* wnoutrefresh: what a window sends to tmpwin                             *)
(***************************************************************************)

\* tmpwin and curscr: as large as the screen, and their lines never move.
Flat(t) ==
    /\ Sound(t) /\ t.maxy = LINES - 1 /\ t.maxx = COLS - 1
    /\ t.line = [i \in 0 .. LINES - 1 |-> i] /\ t.regtop = 0 /\ t.regbottom = LINES - 1

\* The cell of o that wnoutrefresh sends to i, j of the screen, from the lines before n.
Sends(o, n, i, j) ==
    i - o.begy \in 0 .. o.maxy /\ i - o.begy < n /\ Within(o, i - o.begy, j - o.begx)

\* d is t with what the lines of o before n send.
HasSent(t, o, n, d) ==
    /\ Flat(d) /\ Draws(t, d)
    /\ \A i \in 0 .. LINES - 1, j \in 0 .. COLS - 1 :
         IF Sends(o, n, i, j) THEN Cell(d, i, j) = Cell(o, i - o.begy, j - o.begx) /\ Within(d, i, j)
         ELSE Cell(d, i, j) = Cell(t, i, j)

LEMMA FlatCell ==
  ASSUME NEW t, Flat(t), NEW i \in 0 .. LINES - 1, NEW j
  PROVE  Cell(t, i, j) = t.row[i][j]
BY DEF Flat, Cell

LEMMA LineSends ==
  ASSUME NEW t, Flat(t), NEW o, Sound(o), OnScreen(o), NEW y \in 0 .. o.maxy
  PROVE  /\ Flat(Line(t, o, y)) /\ Draws(t, Line(t, o, y))
         /\ \A i \in 0 .. LINES - 1, j \in 0 .. COLS - 1 :
              IF i - o.begy = y /\ Within(o, y, j - o.begx)
              THEN Cell(Line(t, o, y), i, j) = Cell(o, y, j - o.begx) /\ Within(Line(t, o, y), i, j)
              ELSE Cell(Line(t, o, y), i, j) = Cell(t, i, j)
<1>1. CASE o.minchng[y] = NoChange
  <2>1. Line(t, o, y) = t
    BY <1>1 DEF Line
  <2>2. \A j : ~ Within(o, y, j)
    BY <1>1 DEF Within, NoChange
  <2>3. Sound(t)
    BY DEF Flat
  <2> QED
    BY <2>1, <2>2, <2>3, DrawsNothing
<1>2. CASE o.minchng[y] # NoChange
  <2>1. PICK r, first, last : r = o.begy + y /\ first = o.begx + o.minchng[y] /\ last = o.begx + o.maxchng[y]
    OBVIOUS
  <2>2. PICK g : g = [x \in first .. last |-> Cell(o, y, x - o.begx)]
    OBVIOUS
  <2>3. PICK L : L = Widen(Put(t, r, g), r, first, last)
    OBVIOUS
  <2>4. Line(t, o, y) = L
    BY <1>2, <2>1, <2>2, <2>3 DEF Line
  <2>5. /\ o.begy \in Nat /\ o.begx \in Nat /\ o.maxy \in Nat /\ o.maxx \in Nat
        /\ o.begy + o.maxy <= LINES - 1 /\ o.begx + o.maxx <= COLS - 1 /\ LINES \in Nat /\ COLS \in Nat
        /\ t.maxy = LINES - 1 /\ t.maxx = COLS - 1 /\ Sound(t) /\ IsWindow(t)
    BY ScreenAssumption DEF Sound, Framed, OnScreen, Flat
  <2>6. /\ o.minchng[y] \in Int /\ o.maxchng[y] \in Int
        /\ 0 <= o.minchng[y] /\ o.minchng[y] <= o.maxchng[y] /\ o.maxchng[y] <= o.maxx
    <3>1. o.minchng \in [0 .. o.maxy -> Int] /\ o.maxchng \in [0 .. o.maxy -> Int]
      BY DEF Sound, Ranged
    <3>2. o.minchng[y] \in Int /\ o.maxchng[y] \in Int
      BY <3>1
    <3> QED
      BY <1>2, <3>2 DEF Sound, Ranged, NoChange
  <2>7. r \in 0 .. t.maxy /\ first \in 0 .. t.maxx /\ last \in first .. t.maxx
    BY <2>1, <2>5, <2>6
  <2>8. \A x \in 0 .. t.maxx : x \in DOMAIN g => x \in first .. last /\ g[x] \in Glyph
    <3>1. ASSUME NEW x \in first .. last PROVE x - o.begx \in 0 .. o.maxx
      BY <2>1, <2>5, <2>6
    <3>2. \A x \in first .. last : g[x] \in Glyph
      BY <2>2, <3>1, CellIs
    <3> QED
      BY <2>2, <3>2
  <2>9. Draws(t, L)
    BY <2>3, <2>5, <2>7, <2>8, PutWidenDraws
  <2>10. PICK p : p = Put(t, r, g)
    OBVIOUS
  <2>11. /\ SameFrame(t, p) /\ p.line = t.line /\ p.row = [t.row EXCEPT ![t.line[r]] = Overlaid(t, r, g)]
         /\ IsWindow(p)
    <3>1. SameFrame(t, p) /\ p.line = t.line /\ p.row = [t.row EXCEPT ![t.line[r]] = Overlaid(t, r, g)]
      BY <2>5, <2>10, PutIs
    <3> QED
      BY <3>1 DEF SameFrame
  <2>12. SameFrame(p, L) /\ L.line = p.line /\ L.row = p.row
    BY <2>3, <2>10, <2>11, WidenIs
  <2>13. Flat(L)
    BY <2>5, <2>9, <2>11, <2>12 DEF Flat, Draws, SameFrame
  <2>14. t.line[r] = r /\ t.row \in [0 .. LINES - 1 -> [0 .. COLS - 1 -> Glyph]]
    BY <2>5, <2>7 DEF Flat, Sound, Held
  <2>15. L.row = [t.row EXCEPT ![r] = Overlaid(t, r, g)]
    BY <2>11, <2>12, <2>14
  <2>16. \A x \in first .. last : Within(L, r, x)
    <3>1. PICK q : q = Widen(t, r, first, last)
      OBVIOUS
    <3>2. Sound(q) /\ q.maxy = t.maxy /\ \A x \in first .. last : Within(q, r, x)
      BY <2>5, <2>7, <3>1, WidenDraws DEF Draws
    <3>3. L = Put(q, r, g)
      BY <2>3, <2>5, <3>1, WidenPut
    <3>5. IsWindow(q)
      BY <3>2 DEF Sound, Framed
    <3>4. L.minchng = q.minchng /\ L.maxchng = q.maxchng
      BY <3>3, <3>5, PutKeepsRanges
    <3> QED
      BY <3>2, <3>4 DEF Within
  <2>17. ASSUME NEW i \in 0 .. LINES - 1, NEW j \in 0 .. COLS - 1
         PROVE  IF i - o.begy = y /\ Within(o, y, j - o.begx)
                THEN Cell(L, i, j) = Cell(o, y, j - o.begx) /\ Within(L, i, j)
                ELSE Cell(L, i, j) = Cell(t, i, j)
    <3>1. Cell(L, i, j) = L.row[i][j] /\ Cell(t, i, j) = t.row[i][j]
      BY <2>13, FlatCell
    <3>2. i - o.begy = y <=> i = r
      BY <2>1, <2>5
    <3>3. Within(o, y, j - o.begx) <=> j \in first .. last
      BY <1>2, <2>1, <2>5, <2>6 DEF Within, NoChange
    <3>4. CASE i # r
      <4>1. L.row[i] = t.row[i]
        BY <2>14, <2>15, <3>4
      <4> QED
        BY <3>1, <3>2, <3>4, <4>1
    <3>5. CASE i = r
      <4>1. L.row[r] = Overlaid(t, r, g)
        BY <2>5, <2>7, <2>14, <2>15
      <4>2. Overlaid(t, r, g)[j] = IF j \in first .. last THEN g[j] ELSE t.row[r][j]
        BY <2>2, <2>5, <2>14 DEF Overlaid
      <4>3. j \in first .. last => g[j] = Cell(o, y, j - o.begx)
        BY <2>2
      <4> QED
        BY <2>16, <3>1, <3>2, <3>3, <3>5, <4>1, <4>2, <4>3
    <3> QED
      BY <3>4, <3>5
  <2> QED
    BY <2>4, <2>9, <2>13, <2>17
<1> QED
  BY <1>1, <1>2

LEMMA DesiredIs ==
  ASSUME NEW w, Flat(w), NEW o, Sound(o), OnScreen(o)
  PROVE  HasSent(w, o, o.maxy + 1, Desired(w, o))
<1> DEFINE a == 0
           b == o.maxy + 1
           V == {v \in Drawings(w) : Flat(v)}
           Turn(n, v) == Line(v, o, n - 1)
           IsLoop(g) == g = [n \in a .. b |-> IF n = a THEN w ELSE Line(g[n - 1], o, n - 1)]
           loop == CHOOSE g : IsLoop(g)
           step == [n \in a + 1 .. b |-> [v \in V |-> Turn(n, v)]]
<1>12. o.maxy \in Nat /\ Sound(w)
  BY DEF Flat, Sound, Framed
<1>0. a \in Int /\ b \in Int /\ a <= b
  BY <1>12
<1>1. ASSUME NEW n \in a + 1 .. b, NEW v, Draws(w, v), Flat(v) PROVE Draws(v, Turn(n, v)) /\ Flat(Turn(n, v))
  <2>1. PICK y : y = n - 1
    OBVIOUS
  <2>2. y \in 0 .. o.maxy
    BY <1>12, <2>1
  <2>3. Draws(v, Line(v, o, y)) /\ Flat(Line(v, o, y))
    BY <1>1, <2>2, LineSends
  <2> QED
    BY <2>1, <2>3
<1> HIDE DEF a, b
<1>2. ASSUME NEW n \in a + 1 .. b, NEW v \in V PROVE Turn(n, v) \in V
  <2> HIDE DEF Turn
  <2>1. Draws(w, v) /\ Flat(v)
    BY <1>2, DrawingsAre
  <2>2. Draws(v, Turn(n, v)) /\ Flat(Turn(n, v))
    BY <1>2, <2>1, <1>1
  <2>3. Draws(w, Turn(n, v))
    BY <2>1, <2>2, DrawsOn
  <2> QED
    BY <2>2, <2>3, DrawingsAre
<1>3. w \in V
  BY <1>12, DrawsNothing, DrawingsAre
<1> HIDE DEF V
<1>4. step \in StepsFrom(a, b, V)
  <2> HIDE DEF Turn
  <2> QED
    BY <1>2 DEF StepsFrom
<1>5. PICK f \in [a .. b -> V] : f[a] = w /\ \A i \in a + 1 .. b : f[i] = step[i][f[i - 1]]
  <2> HIDE DEF step, IsLoop, loop, Turn
  <2>1. \E f : IsRun(f, a, b, V, w, step)
    BY <1>0, <1>3, <1>4, RecursionFrom
  <2> QED
    BY <2>1 DEF IsRun
<1>6. IsLoop(f)
  <2>1. ASSUME NEW n \in a .. b
        PROVE  f[n] = IF n = a THEN w ELSE Turn(n, f[n - 1])
    <3>1. CASE n = a
      BY <1>5, <3>1
    <3>2. CASE n # a
      <4>1. n \in a + 1 .. b /\ n - 1 \in a .. b
        BY <1>0, <3>2
      <4>2. f[n - 1] \in V /\ f[n] = step[n][f[n - 1]]
        BY <1>5, <4>1
      <4> HIDE DEF Turn
      <4>3. step[n][f[n - 1]] = Turn(n, f[n - 1])
        BY <4>1, <4>2
      <4> QED
        BY <3>2, <4>2, <4>3
    <3> QED
      BY <3>1, <3>2
  <2> HIDE DEF step
  <2> QED
    BY <1>5, <2>1
<1>7. IsLoop(loop)
  <2> HIDE DEF IsLoop
  <2> QED
    BY <1>6
<1> HIDE DEF loop
<1>8. ASSUME NEW n \in a .. b
      PROVE  loop[n] = IF n = a THEN w ELSE Turn(n, loop[n - 1])
  BY <1>7
<1>9. \A i \in a .. b : loop[i] \in V
  <2> DEFINE S == {i \in a .. b : loop[i] \in V}
  <2>1. a \in S
    <3>1. a \in a .. b
      BY <1>0
    <3> HIDE DEF Turn
    <3>2. loop[a] = w
      BY <1>8, <3>1
    <3> QED
      BY <1>3, <3>1, <3>2
  <2>2. ASSUME NEW i \in a + 1 .. b, i - 1 \in S PROVE i \in S
    <3>1. i \in a .. b /\ i # a
      BY <1>0
    <3> HIDE DEF Turn
    <3> QED
      BY <1>2, <1>8, <2>2, <3>1
  <2>3. \A i \in a .. b : i \in S
    <3> HIDE DEF S
    <3> QED
      BY <1>0, <2>1, <2>2, UpFrom
  <2> QED
    BY <2>3
<1>10. \A i \in a .. b : Draws(w, loop[i]) /\ Flat(loop[i])
  BY <1>9, DrawingsAre DEF V
<1>11. \A i \in a .. b : HasSent(w, o, i, loop[i])
  <2> DEFINE S == {i \in a .. b : HasSent(w, o, i, loop[i])}
  <2>1. a \in S
    <3>1. a \in a .. b /\ a = 0
      BY <1>0 DEF a
    <3> HIDE DEF Turn
    <3>2. loop[a] = w
      BY <1>8, <3>1
    <3>3. \A i \in 0 .. LINES - 1, j \in 0 .. COLS - 1 : ~ Sends(o, a, i, j)
      BY <1>12, <3>1 DEF Sends
    <3>4. HasSent(w, o, a, w)
      BY <1>12, <3>3, DrawsNothing DEF HasSent
    <3> QED
      BY <3>1, <3>2, <3>4
  <2>2. ASSUME NEW i \in a + 1 .. b, i - 1 \in S PROVE i \in S
    <3>1. i \in a .. b /\ i # a
      BY <1>0
    <3>2. PICK y, d, e : y = i - 1 /\ d = loop[i - 1] /\ e = loop[i]
      OBVIOUS
    <3>3. y \in 0 .. o.maxy /\ i = y + 1 /\ y \in Int
      BY <1>0, <1>12, <3>2 DEF a, b
    <3>4. e = Line(d, o, y)
      BY <1>8, <3>1, <3>2
    <3>5. HasSent(w, o, y, d) /\ Flat(d)
      BY <2>2, <3>2 DEF HasSent
    <3>6. Flat(e) /\ Draws(w, e)
      BY <1>10, <3>1, <3>2
    <3>7. Draws(d, e) /\ \A k \in 0 .. LINES - 1, j \in 0 .. COLS - 1 :
              IF k - o.begy = y /\ Within(o, y, j - o.begx)
              THEN Cell(e, k, j) = Cell(o, y, j - o.begx) /\ Within(e, k, j)
              ELSE Cell(e, k, j) = Cell(d, k, j)
      BY <3>3, <3>4, <3>5, LineSends
    <3>8. \A k \in 0 .. LINES - 1, j \in 0 .. COLS - 1 : Within(d, k, j) => Within(e, k, j)
      BY <3>5, <3>7 DEF Flat, Draws
    <3>9. \A k \in 0 .. LINES - 1, j \in 0 .. COLS - 1 :
            Sends(o, i, k, j) <=> Sends(o, y, k, j) \/ (k - o.begy = y /\ Within(o, y, j - o.begx))
      <4>1. o.begy \in Int /\ o.maxy \in Int
        BY DEF Sound, Framed
      <4> QED
        BY <3>3, <4>1 DEF Sends
    <3>10. ASSUME NEW k \in 0 .. LINES - 1, NEW j \in 0 .. COLS - 1
           PROVE  IF Sends(o, i, k, j) THEN Cell(e, k, j) = Cell(o, k - o.begy, j - o.begx) /\ Within(e, k, j)
                  ELSE Cell(e, k, j) = Cell(w, k, j)
      <4>1. IF Sends(o, y, k, j) THEN Cell(d, k, j) = Cell(o, k - o.begy, j - o.begx) /\ Within(d, k, j)
            ELSE Cell(d, k, j) = Cell(w, k, j)
        BY <3>5 DEF HasSent
      <4>2. IF k - o.begy = y /\ Within(o, y, j - o.begx)
            THEN Cell(e, k, j) = Cell(o, y, j - o.begx) /\ Within(e, k, j)
            ELSE Cell(e, k, j) = Cell(d, k, j)
        BY <3>7
      <4> QED
        BY <3>8, <3>9, <4>1, <4>2
    <3>11. HasSent(w, o, i, e)
      BY <3>6, <3>10 DEF HasSent
    <3> QED
      BY <3>1, <3>2, <3>11
  <2>3. \A i \in a .. b : i \in S
    <3> HIDE DEF S
    <3> QED
      BY <1>0, <2>1, <2>2, UpFrom
  <2> QED
    BY <2>3
<1>13. PICK e : e = loop[b]
  OBVIOUS
<1>14. HasSent(w, o, o.maxy + 1, e)
  <2>1. b \in a .. b
    BY <1>0
  <2> QED
    BY <1>11, <1>13, <2>1 DEF b
<1>15. PICK flag, y, x : flag = (e.clear \/ o.clear) /\ y = o.begy + o.cury /\ x = o.begx + o.curx
  OBVIOUS
<1>16. PICK d : d = [e EXCEPT !.clear = flag, !.cury = y, !.curx = x]
  OBVIOUS
<1>17. Desired(w, o) = d
  BY <1>13, <1>15, <1>16 DEF Desired, loop, a, b
<1>18. Flat(e) /\ Sound(e) /\ IsWindow(e)
  BY <1>14 DEF HasSent, Flat, Sound, Framed
<1>19. /\ SameLines(e, d) /\ d.cury = y /\ d.curx = x /\ d.clear = flag
       /\ d.attrs = e.attrs /\ d.scroll = e.scroll /\ d.regtop = e.regtop /\ d.regbottom = e.regbottom
  BY <1>16, <1>18 DEF SameLines, IsWindow, Fields
<1>20. y \in 0 .. LINES - 1 /\ x \in 0 .. COLS - 1
  <2>1. /\ o.begy \in Nat /\ o.begx \in Nat /\ o.cury \in Nat /\ o.cury <= o.maxy /\ o.curx \in 0 .. o.maxx
        /\ o.maxy \in Nat /\ o.maxx \in Nat /\ LINES \in Nat /\ COLS \in Nat
        /\ o.begy + o.maxy <= LINES - 1 /\ o.begx + o.maxx <= COLS - 1
    BY ScreenAssumption DEF Sound, Framed, Pointed, OnScreen
  <2>2. y = o.begy + o.cury /\ x = o.begx + o.curx
    BY <1>15
  <2>3. o.begy + o.cury \in 0 .. LINES - 1
    BY <2>1
  <2>4. o.begx + o.curx \in 0 .. COLS - 1
    BY <2>1
  <2> QED
    BY <2>2, <2>3, <2>4
<1>21. Pointed(d)
  <2>1. d.maxy = LINES - 1 /\ d.maxx = COLS - 1 /\ d.regtop = 0 /\ d.regbottom = LINES - 1
    BY <1>18, <1>19 DEF Flat, SameLines
  <2>2. LINES - 1 \in Nat
    BY ScreenAssumption
  <2> QED
    BY <1>19, <1>20, <2>1, <2>2 DEF Pointed
<1>22. Draws(e, d)
  <2>1. e.attrs \in Attributes /\ e.scroll \in BOOLEAN /\ flag \in BOOLEAN
    <3>1. e.clear \in BOOLEAN /\ o.clear \in BOOLEAN
      BY <1>18 DEF Sound, Framed
    <3> QED
      BY <1>15, <1>18, <3>1 DEF Sound, Framed
  <2> QED
    BY <1>18, <1>19, <1>21, <2>1, SameLinesDraws
<1>23. Flat(d)
  BY <1>18, <1>19, <1>22 DEF Flat, SameLines, Draws
<1>24. \A i, j : Cell(d, i, j) = Cell(e, i, j) /\ (Within(d, i, j) <=> Within(e, i, j))
  BY <1>19 DEF SameLines, Cell, Within
<1>25. Draws(w, d)
  BY <1>14, <1>22, DrawsOn DEF HasSent
<1> QED
  BY <1>14, <1>17, <1>23, <1>24, <1>25 DEF HasSent

(***************************************************************************)
(* doupdate: what tmpwin sends to the terminal                             *)
(***************************************************************************)

\* Every cell that curscr c has not got from tmpwin t is recorded in t, or in e.
Pending(t, c, e) ==
    \A q \in Screen : Within(t, q[1], q[2]) \/ Cell(c, q[1], q[2]) = Cell(t, q[1], q[2]) \/ q \in e

\* A line that differs from what it was: what is painted, or kept, at cell q.
PaintedAt(new, image1, shown1, image0, shown0, kept) ==
    \/ image1 = new /\ (shown1 = new \/ (shown1 = shown0 /\ image0 = new))
    \/ kept /\ image1 = image0 /\ shown1 = shown0

\* What doupdate makes of tmpwin t and curscr c, if the keys echoed in keep may stay.
Paints(t, c, keep, u) ==
    \/ /\ u.cleared /\ u.terminal.intact = TRUE
       /\ \A q \in Screen : Text(u.curscr)[q] = Text(t)[q] /\ u.terminal.shown[q] = Text(t)[q]
    \/ /\ ~ u.cleared /\ u.terminal.intact = intact
       /\ \A q \in Screen :
            PaintedAt(Text(t)[q], Text(u.curscr)[q], u.terminal.shown[q], Text(c)[q], shown[q], q \in keep)

\* curscr: it is never scrolled, and clearok(curscr) acts at once.
Curscr(c) == Flat(c) /\ c.scroll = FALSE /\ c.clear = FALSE

LEMMA FlatText ==
  ASSUME NEW t, Flat(t)
  PROVE  /\ Cells(t) = Screen /\ DOMAIN Text(t) = Screen
         /\ \A q \in Screen : /\ q[1] \in 0 .. LINES - 1 /\ q[2] \in 0 .. COLS - 1
                              /\ Text(t)[q] = Cell(t, q[1], q[2])
<1>1. Cells(t) = Screen
  BY DEF Cells, Rows, Columns, Screen, Flat
<1>2. DOMAIN Text(t) = Screen /\ \A q \in Screen : Text(t)[q] = Cell(t, q[1], q[2])
  BY <1>1 DEF Text
<1>3. \A q \in Screen : q[1] \in 0 .. LINES - 1 /\ q[2] \in 0 .. COLS - 1
  BY DEF Screen
<1> QED
  BY <1>1, <1>2, <1>3

LEMMA SameText ==
  ASSUME NEW t, Flat(t), NEW v, Flat(v), \A i \in 0 .. LINES - 1, j \in 0 .. COLS - 1 : Cell(v, i, j) = Cell(t, i, j)
  PROVE  Text(v) = Text(t)
<1>1. Cells(t) = Screen /\ Cells(v) = Screen
  BY FlatText
<1>2. \A q \in Screen : Cell(v, q[1], q[2]) = Cell(t, q[1], q[2])
  BY DEF Screen
<1> QED
  BY <1>1, <1>2 DEF Text

LEMMA WithinIs ==
  ASSUME NEW w, Sound(w), NEW y \in 0 .. w.maxy, NEW x \in Int
  PROVE  Within(w, y, x) <=> w.minchng[y] # NoChange /\ x \in w.minchng[y] .. w.maxchng[y]
<1>1. w.minchng \in [0 .. w.maxy -> Int] /\ w.maxchng \in [0 .. w.maxy -> Int]
  BY DEF Sound, Ranged
<1>2. w.minchng[y] \in Int /\ w.maxchng[y] \in Int
  BY <1>1
<1> QED
  BY <1>2 DEF Within, NoChange

\* The cursor of a flat window may be anywhere on the screen.
Aimed(c, y, x) == [c EXCEPT !.cury = y, !.curx = x]

LEMMA CursorFlat ==
  ASSUME NEW c, Flat(c), NEW y \in 0 .. LINES - 1, NEW x \in 0 .. COLS - 1
  PROVE  LET v == Aimed(c, y, x)
         IN  /\ Flat(v) /\ SameLines(c, v) /\ v.clear = c.clear /\ v.scroll = c.scroll /\ v.attrs = c.attrs
             /\ v.cury = y /\ v.curx = x
<1>0. PICK v : v = [c EXCEPT !.cury = y, !.curx = x]
  OBVIOUS
<1>1. IsWindow(c) /\ Sound(c) /\ c.maxy = LINES - 1 /\ c.maxx = COLS - 1 /\ c.regtop = 0 /\ c.regbottom = LINES - 1
  BY DEF Flat, Sound, Framed
<1>2. /\ SameLines(c, v) /\ v.cury = y /\ v.curx = x /\ v.clear = c.clear
      /\ v.attrs = c.attrs /\ v.scroll = c.scroll /\ v.regtop = c.regtop /\ v.regbottom = c.regbottom
  BY <1>0, <1>1 DEF SameLines, IsWindow, Fields
<1>3. LINES - 1 \in Nat
  BY ScreenAssumption
<1>4. Pointed(v)
  BY <1>1, <1>2, <1>3 DEF Pointed, SameLines
<1>5. v.attrs \in Attributes /\ v.clear \in BOOLEAN /\ v.scroll \in BOOLEAN
  BY <1>1, <1>2 DEF Sound, Framed
<1>6. Sound(v)
  BY <1>1, <1>2, <1>4, <1>5, SameLinesDraws DEF Draws
<1>7. Flat(v)
  BY <1>1, <1>2, <1>6 DEF Flat, SameLines
<1>8. v = Aimed(c, y, x)
  BY <1>0 DEF Aimed
<1> QED
  BY <1>2, <1>7, <1>8

\* A flat window whose rows or ranges are replaced.
LEMMA RowsFlat ==
  ASSUME NEW c, Flat(c), NEW v, SameFrame(c, v), v.line = c.line, Held(v), Ranged(v)
  PROVE  Flat(v)
<1>1. Framed(v) /\ Pointed(v)
  BY FrameKept DEF Flat
<1>2. Lined(v)
  BY DEF Flat, Sound, Lined, SameFrame
<1> QED
  BY <1>1, <1>2 DEF Flat, Sound, SameFrame

LEMMA ImageIs ==
  ASSUME NEW t, Flat(t), NEW c, Curscr(c)
  PROVE  /\ Curscr(Image(t, c))
         /\ \A i \in 0 .. LINES - 1, j \in 0 .. COLS - 1 :
              Cell(Image(t, c), i, j) = IF Within(t, i, j) THEN Cell(t, i, j) ELSE Cell(c, i, j)
<1> DEFINE row == [y \in 0 .. LINES - 1 |-> [x \in 0 .. COLS - 1 |->
                     IF /\ t.minchng[y] # NoChange /\ x \in t.minchng[y] .. t.maxchng[y]
                     THEN Cell(t, y, x) ELSE c.row[y][x]]]
<1>1. PICK v : v = [c EXCEPT !.row = row]
  OBVIOUS
<1>2. /\ Flat(c) /\ Sound(c) /\ IsWindow(c) /\ c.maxy = LINES - 1 /\ c.maxx = COLS - 1
      /\ c.row \in [0 .. LINES - 1 -> [0 .. COLS - 1 -> Glyph]]
      /\ Sound(t) /\ t.maxy = LINES - 1 /\ t.maxx = COLS - 1
  BY DEF Curscr, Flat, Sound, Framed, Held
<1>3. Image(t, c) = v
  BY <1>1, <1>2 DEF Image, Rows, Columns
<1>4. SameFrame(c, v) /\ v.line = c.line /\ v.minchng = c.minchng /\ v.maxchng = c.maxchng /\ v.row = row
  <2> HIDE DEF row
  <2> QED
    BY <1>1, <1>2 DEF SameFrame, IsWindow, Fields
<1>5. ASSUME NEW i \in 0 .. LINES - 1, NEW j \in 0 .. COLS - 1
      PROVE  row[i][j] = IF Within(t, i, j) THEN Cell(t, i, j) ELSE Cell(c, i, j)
  <2>1. Within(t, i, j) <=> t.minchng[i] # NoChange /\ j \in t.minchng[i] .. t.maxchng[i]
    BY <1>2, WithinIs
  <2>2. Cell(c, i, j) = c.row[i][j]
    BY <1>2, FlatCell
  <2> QED
    BY <2>1, <2>2
<1>6. row \in [0 .. LINES - 1 -> [0 .. COLS - 1 -> Glyph]]
  <2>1. ASSUME NEW i \in 0 .. LINES - 1, NEW j \in 0 .. COLS - 1
        PROVE  Cell(t, i, j) \in Glyph /\ c.row[i][j] \in Glyph
    BY <1>2, CellIs
  <2> QED
    BY <2>1
<1> HIDE DEF row
<1>7. Held(v) /\ Ranged(v)
  <2>1. v.maxy = LINES - 1 /\ v.maxx = COLS - 1
    BY <1>2, <1>4 DEF SameFrame
  <2>2. Ranged(v)
    BY <1>2, <1>4, <2>1 DEF Sound, Ranged
  <2> QED
    BY <1>4, <1>6, <2>1, <2>2 DEF Held
<1>8. Flat(v)
  BY <1>2, <1>4, <1>7, RowsFlat
<1>9. Curscr(v)
  BY <1>4, <1>8 DEF Curscr, SameFrame
<1>10. \A i \in 0 .. LINES - 1, j \in 0 .. COLS - 1 : Cell(v, i, j) = row[i][j]
  BY <1>4, <1>8, FlatCell
<1> QED
  BY <1>3, <1>5, <1>9, <1>10

LEMMA WithCursorIs ==
  ASSUME NEW t, Flat(t), NEW c, Curscr(c)
  PROVE  /\ Curscr(WithCursor(c, t))
         /\ Text(WithCursor(c, t)) = Text(c)
<1>1. PICK y, x : y = t.cury /\ x = t.curx
  OBVIOUS
<1>2. y \in 0 .. LINES - 1 /\ x \in 0 .. COLS - 1
  <2>1. LINES - 1 \in Nat /\ COLS - 1 \in Nat
    BY ScreenAssumption
  <2> QED
    BY <1>1, <2>1 DEF Flat, Sound, Pointed
<1>3. PICK v : v = Aimed(c, y, x)
  OBVIOUS
<1>4. WithCursor(c, t) = v
  BY <1>1, <1>3 DEF WithCursor, Aimed
<1>5. Flat(v) /\ SameLines(c, v) /\ v.clear = c.clear /\ v.scroll = c.scroll
  <2>1. Flat(c)
    BY DEF Curscr
  <2> QED
    BY <1>2, <1>3, <2>1, CursorFlat
<1>6. Text(v) = Text(c)
  BY <1>5 DEF SameLines, Text, Cells, Rows, Columns, Cell
<1> QED
  BY <1>4, <1>5, <1>6 DEF Curscr

\* clrupdate leaves the terminal as its text says.
LEMMA ClrupdateIs ==
  ASSUME NEW t, Flat(t), NEW a
  PROVE  /\ DOMAIN clrupdate(a, Text(t)).shown = Screen /\ clrupdate(a, Text(t)).intact = TRUE
         /\ clrupdate(a, Text(t)).shown = Text(t)
<1>1. DOMAIN Text(t) = Screen /\ Text(t) = [q \in Screen |-> Text(t)[q]]
  <2>1. Cells(t) = Screen
    BY FlatText
  <2> QED
    BY <2>1 DEF Text
<1>2. PICK g : g = Text(t)
  OBVIOUS
<1>3. [q \in Screen |-> IF q \in {z \in Screen : g[z] # <<Space, 0>>} THEN g[q] ELSE <<Space, 0>>] = [q \in Screen |-> g[q]]
  OBVIOUS
<1>4. clrupdate(a, g).shown = [q \in Screen |-> g[q]] /\ clrupdate(a, g).intact = TRUE
  BY <1>3 DEF clrupdate
<1> QED
  BY <1>1, <1>2, <1>4

\* The functions that keep the lines of a flat window.
LEMMA FlagFlat ==
  ASSUME NEW t, Flat(t), NEW flag \in BOOLEAN
  PROVE  /\ Flat([t EXCEPT !.clear = flag]) /\ SameLines(t, [t EXCEPT !.clear = flag])
         /\ [t EXCEPT !.clear = flag].scroll = t.scroll /\ [t EXCEPT !.clear = flag].clear = flag
         /\ Text([t EXCEPT !.clear = flag]) = Text(t)
<1>1. PICK v : v = [t EXCEPT !.clear = flag]
  OBVIOUS
<1>2. IsWindow(t) /\ Sound(t) /\ t.attrs \in Attributes
  BY DEF Flat, Sound, Framed
<1>3. /\ SameLines(t, v) /\ v.scroll = t.scroll /\ v.regtop = t.regtop /\ v.regbottom = t.regbottom
      /\ v.clear = flag
  BY <1>1, <1>2 DEF SameLines, IsWindow, Fields
<1>4. Sound(v)
  BY <1>1, <1>2, FlagDraws DEF Draws
<1>5. Flat(v)
  BY <1>3, <1>4 DEF Flat, SameLines
<1>6. Text(v) = Text(t)
  BY <1>3 DEF SameLines, Text, Cells, Rows, Columns, Cell
<1> QED
  BY <1>1, <1>3, <1>5, <1>6

\* Flushed: nothing is recorded.
LEMMA FlushedIs ==
  ASSUME NEW w, Sound(w)
  PROVE  LET v == Flushed(w)
         IN  /\ Sound(v) /\ v.maxy = w.maxy /\ v.maxx = w.maxx /\ v.begy = w.begy /\ v.begx = w.begx
             /\ v.line = w.line /\ v.row = w.row /\ v.cury = w.cury /\ v.curx = w.curx /\ v.scroll = w.scroll
             /\ Text(v) = Text(w) /\ Dirty(v) = {}
<1> DEFINE none == [y \in 0 .. w.maxy |-> NoChange]
<1>1. PICK v : v = [w EXCEPT !.minchng = none, !.maxchng = none, !.clear = FALSE]
  OBVIOUS
<1>2. Flushed(w) = v
  BY <1>1 DEF Flushed, Unchanged, Rows
<1>3. IsWindow(w)
  BY DEF Sound, Framed
<1>4. /\ IsWindow(v) /\ v.maxy = w.maxy /\ v.maxx = w.maxx /\ v.begy = w.begy /\ v.begx = w.begx
      /\ v.attrs = w.attrs /\ v.clear = FALSE /\ v.scroll = w.scroll
      /\ v.regtop = w.regtop /\ v.regbottom = w.regbottom /\ v.cury = w.cury /\ v.curx = w.curx
      /\ v.line = w.line /\ v.row = w.row /\ v.minchng = none /\ v.maxchng = none
  <2> HIDE DEF none
  <2> QED
    BY <1>1, <1>3 DEF IsWindow, Fields
<1>5. Framed(v) /\ Pointed(v)
  BY <1>4 DEF Sound, Framed, Pointed
<1>6. Lined(v) /\ Held(v)
  BY <1>4 DEF Sound, Lined, Held
<1>7. Ranged(v)
  BY <1>4 DEF Ranged, NoChange
<1>8. Text(v) = Text(w)
  BY <1>4 DEF Text, Cells, Rows, Columns, Cell
<1>9. Dirty(v) = {}
  BY <1>4 DEF Dirty, Cells, Rows, Columns
<1> QED
  BY <1>2, <1>4, <1>5, <1>6, <1>7, <1>8, <1>9 DEF Sound

ToRepaint(c) == [c EXCEPT !.clear = TRUE]

Repainted(t, c, u) ==
    /\ ~ u.cleared /\ u.tmpwin = t
    /\ Curscr(u.curscr) /\ Text(u.curscr) = Text(c)
    /\ u.terminal.shown = Text(c) /\ u.terminal.intact = TRUE

\* doupdate when curscr is to be painted anew: wrefresh(curscr).
LEMMA RedrawPaints ==
  ASSUME NEW t, Flat(t), NEW c, Curscr(c)
  PROVE  Repainted(t, c, doupdate(t, ToRepaint(c)))
<1>1. PICK d : d = [c EXCEPT !.clear = TRUE]
  OBVIOUS
<1>2. Flat(d) /\ d.clear = TRUE /\ Text(d) = Text(c) /\ SameLines(c, d) /\ d.scroll = c.scroll
  BY <1>1, FlagFlat DEF Curscr
<1>3. PICK e : e = [d EXCEPT !.clear = FALSE]
  OBVIOUS
<1>4. Flat(e) /\ e.clear = FALSE /\ Text(e) = Text(d) /\ e.scroll = d.scroll
  BY <1>2, <1>3, FlagFlat
<1>5. Curscr(e)
  BY <1>2, <1>4 DEF Curscr
<1>6. PICK f, s : f = WithCursor(e, t) /\ s = clrupdate(d.attrs, Text(d))
  OBVIOUS
<1>7. Curscr(f) /\ Text(f) = Text(e)
  BY <1>5, <1>6, WithCursorIs
<1>8. s.shown = Text(d) /\ s.intact = TRUE
  BY <1>2, <1>6, ClrupdateIs
<1>9. doupdate(t, d) = [cleared |-> FALSE, tmpwin |-> t, curscr |-> f, terminal |-> s]
  BY <1>2, <1>3, <1>6 DEF doupdate
<1>10. d = ToRepaint(c)
  BY <1>1 DEF ToRepaint
<1>11. PICK u : u = doupdate(t, d)
  OBVIOUS
<1>12. Repainted(t, c, u)
  BY <1>2, <1>4, <1>7, <1>8, <1>9, <1>11 DEF Repainted
<1> QED
  BY <1>10, <1>11, <1>12

\* doupdate when tmpwin is to be painted whole.
LEMMA ClearPaints ==
  ASSUME NEW t, Flat(t), NEW c, Curscr(c), t.clear = TRUE
  PROVE  LET u == doupdate(t, c)
         IN  /\ u.cleared /\ Flat(u.tmpwin) /\ Text(u.tmpwin) = Text(t)
             /\ Curscr(u.curscr) /\ Text(u.curscr) = Text(t)
             /\ u.terminal.shown = Text(t) /\ u.terminal.intact = TRUE
<1>1. PICK d, e : d = [t EXCEPT !.clear = FALSE] /\ e = [c EXCEPT !.row = t.row]
  OBVIOUS
<1>2. Flat(d) /\ Text(d) = Text(t)
  BY <1>1, FlagFlat
<1>3. /\ Flat(c) /\ Sound(c) /\ IsWindow(c) /\ c.maxy = LINES - 1 /\ c.maxx = COLS - 1 /\ c.line = t.line
      /\ Sound(t) /\ t.maxy = LINES - 1 /\ t.maxx = COLS - 1
  BY DEF Curscr, Flat, Sound, Framed
<1>4. SameFrame(c, e) /\ e.line = c.line /\ e.minchng = c.minchng /\ e.maxchng = c.maxchng /\ e.row = t.row
  BY <1>1, <1>3 DEF SameFrame, IsWindow, Fields
<1>5. Held(e) /\ Ranged(e)
  <2>1. e.maxy = LINES - 1 /\ e.maxx = COLS - 1
    BY <1>3, <1>4 DEF SameFrame
  <2>2. Held(e)
    BY <1>3, <1>4, <2>1 DEF Sound, Held
  <2> QED
    BY <1>3, <1>4, <2>1, <2>2 DEF Sound, Ranged
<1>6. Flat(e)
  BY <1>3, <1>4, <1>5, RowsFlat
<1>7. Curscr(e)
  BY <1>4, <1>6 DEF Curscr, SameFrame
<1>8. Text(e) = Text(t)
  <2>1. \A i \in 0 .. LINES - 1, j \in 0 .. COLS - 1 : Cell(e, i, j) = Cell(t, i, j)
    BY <1>3, <1>4 DEF Cell
  <2> QED
    BY <1>6, <2>1, SameText
<1>9. PICK f, s : f = WithCursor(e, t) /\ s = clrupdate(t.attrs, Text(t))
  OBVIOUS
<1>10. Curscr(f) /\ Text(f) = Text(e)
  BY <1>7, <1>9, WithCursorIs
<1>11. s.shown = Text(t) /\ s.intact = TRUE
  BY <1>9, ClrupdateIs
<1>12. c.clear = FALSE
  BY DEF Curscr
<1>13. doupdate(t, c) = [cleared |-> TRUE, tmpwin |-> d, curscr |-> f, terminal |-> s]
  BY <1>1, <1>9, <1>12 DEF doupdate
<1> QED
  BY <1>2, <1>8, <1>10, <1>11, <1>13

\* doupdate, line by line: a cell is painted if it is recorded and differs.
LinesPainted(t, c, u) ==
    \A q \in Screen :
      IF Within(t, q[1], q[2])
      THEN /\ Text(u.curscr)[q] = Text(t)[q]
           /\ u.terminal.shown[q] = IF Text(c)[q] # Text(t)[q] THEN Text(t)[q] ELSE shown[q]
      ELSE Text(u.curscr)[q] = Text(c)[q] /\ u.terminal.shown[q] = shown[q]

LEMMA LinesPaint ==
  ASSUME NEW t, Flat(t), NEW c, Curscr(c), t.clear = FALSE, DOMAIN shown = Screen
  PROVE  LET u == doupdate(t, c)
         IN  /\ ~ u.cleared /\ Flat(u.tmpwin) /\ Text(u.tmpwin) = Text(t)
             /\ Curscr(u.curscr) /\ DOMAIN u.terminal.shown = Screen /\ u.terminal.intact = intact
             /\ LinesPainted(t, c, u)
<1> DEFINE none == [y \in 0 .. LINES - 1 |-> NoChange]
<1>0. /\ Flat(c) /\ c.clear = FALSE
      /\ Sound(t) /\ IsWindow(t) /\ t.maxy = LINES - 1 /\ t.maxx = COLS - 1
  BY DEF Curscr, Flat, Sound, Framed
<1>1. PICK d, e : d = [t EXCEPT !.minchng = none, !.maxchng = none] /\ e = Image(t, c)
  OBVIOUS
<1>2. Flat(d) /\ Text(d) = Text(t)
  <2> HIDE DEF none
  <2>1. SameFrame(t, d) /\ d.line = t.line /\ d.row = t.row /\ d.minchng = none /\ d.maxchng = none
    BY <1>0, <1>1 DEF SameFrame, IsWindow, Fields
  <2>2. d.maxy = LINES - 1 /\ d.maxx = COLS - 1
    BY <1>0, <2>1 DEF SameFrame
  <2>3. Held(d)
    BY <1>0, <2>1, <2>2 DEF Sound, Held
  <2>4. Ranged(d)
    BY <2>1, <2>2 DEF Ranged, NoChange, none
  <2>5. Flat(d)
    BY <2>1, <2>3, <2>4, RowsFlat
  <2>6. \A i, j : Cell(d, i, j) = Cell(t, i, j)
    BY <2>1 DEF Cell
  <2> QED
    BY <2>5, <2>6, SameText
<1>3. /\ Curscr(e)
      /\ \A i \in 0 .. LINES - 1, j \in 0 .. COLS - 1 :
           Cell(e, i, j) = IF Within(t, i, j) THEN Cell(t, i, j) ELSE Cell(c, i, j)
  BY <1>1, ImageIs
<1>4. PICK f, s : f = WithCursor(e, t) /\ s = Transformed(t, c)
  OBVIOUS
<1>5. Curscr(f) /\ Text(f) = Text(e)
  BY <1>3, <1>4, WithCursorIs
<1>6. doupdate(t, c) = [cleared |-> FALSE, tmpwin |-> d, curscr |-> f, terminal |-> s]
  BY <1>0, <1>1, <1>4 DEF doupdate, Unchanged, Rows
<1>7. ASSUME NEW q \in Screen
      PROVE  /\ Text(f)[q] = IF Within(t, q[1], q[2]) THEN Text(t)[q] ELSE Text(c)[q]
             /\ Within(t, q[1], q[2]) <=> t.minchng[q[1]] # NoChange /\ q[2] \in t.minchng[q[1]] .. t.maxchng[q[1]]
  <2>1. q[1] \in 0 .. LINES - 1 /\ q[2] \in 0 .. COLS - 1 /\ q[2] \in Int /\ Text(t)[q] = Cell(t, q[1], q[2])
    BY FlatText
  <2>2. Text(c)[q] = Cell(c, q[1], q[2]) /\ Text(e)[q] = Cell(e, q[1], q[2])
    BY <1>0, <1>3, FlatText DEF Curscr
  <2>3. Text(f)[q] = IF Within(t, q[1], q[2]) THEN Text(t)[q] ELSE Text(c)[q]
    BY <1>3, <1>5, <2>1, <2>2
  <2> QED
    BY <1>0, <2>1, <2>3, WithinIs
<1>8. /\ DOMAIN s.shown = Screen /\ s.intact = intact
      /\ \A q \in Screen : s.shown[q] = IF /\ t.minchng[q[1]] # NoChange
                                           /\ q[2] \in t.minchng[q[1]] .. t.maxchng[q[1]]
                                           /\ Text(c)[q] # Text(t)[q]
                                        THEN Text(t)[q] ELSE shown[q]
  BY <1>4 DEF Transformed
<1>9. /\ DOMAIN s.shown = Screen /\ s.intact = intact
      /\ \A q \in Screen :
           IF Within(t, q[1], q[2])
           THEN Text(f)[q] = Text(t)[q] /\ s.shown[q] = IF Text(c)[q] # Text(t)[q] THEN Text(t)[q] ELSE shown[q]
           ELSE Text(f)[q] = Text(c)[q] /\ s.shown[q] = shown[q]
  BY <1>7, <1>8
<1>10. PICK u : u = [cleared |-> FALSE, tmpwin |-> d, curscr |-> f, terminal |-> s]
  OBVIOUS
<1>11. LinesPainted(t, c, u)
  BY <1>9, <1>10 DEF LinesPainted
<1> QED
  BY <1>2, <1>5, <1>6, <1>9, <1>10, <1>11

\* doupdate paints what differs and leaves nothing pending.
LEMMA DoupdatePaints ==
  ASSUME NEW t, Flat(t), NEW c, Curscr(c), DOMAIN shown = Screen, intact \in BOOLEAN,
         NEW keep, Pending(t, c, keep)
  PROVE  LET u == doupdate(t, c)
         IN  /\ Flat(u.tmpwin) /\ Text(u.tmpwin) = Text(t) /\ Curscr(u.curscr)
             /\ DOMAIN u.terminal.shown = Screen /\ u.terminal.intact \in BOOLEAN
             /\ Paints(t, c, keep, u)
             /\ Pending(u.tmpwin, u.curscr, IF u.cleared THEN {} ELSE keep)
<1>1. PICK u : u = doupdate(t, c)
  OBVIOUS
<1>2. t.clear \in BOOLEAN /\ Flat(c)
  BY DEF Flat, Sound, Framed, Curscr
<1>3. ASSUME Flat(u.tmpwin), Text(u.tmpwin) = Text(t), Curscr(u.curscr), NEW e,
             \A q \in Screen : Text(u.curscr)[q] = Text(t)[q] \/ q \in e
      PROVE  Pending(u.tmpwin, u.curscr, e)
  <2>1. Flat(u.curscr)
    BY <1>3 DEF Curscr
  <2>2. \A q \in Screen : /\ Cell(u.curscr, q[1], q[2]) = Text(u.curscr)[q]
                          /\ Cell(u.tmpwin, q[1], q[2]) = Text(u.tmpwin)[q]
    BY <1>3, <2>1, FlatText
  <2>3. \A q \in Screen : Cell(u.curscr, q[1], q[2]) = Cell(u.tmpwin, q[1], q[2]) \/ q \in e
    BY <1>3, <2>2
  <2> QED
    BY <2>3 DEF Pending
<1>4. CASE t.clear = TRUE
  <2>1. /\ u.cleared /\ Flat(u.tmpwin) /\ Text(u.tmpwin) = Text(t)
        /\ Curscr(u.curscr) /\ Text(u.curscr) = Text(t)
        /\ u.terminal.shown = Text(t) /\ u.terminal.intact = TRUE
    BY <1>1, <1>4, ClearPaints
  <2>2. Paints(t, c, keep, u)
    BY <2>1 DEF Paints
  <2>3. DOMAIN u.terminal.shown = Screen
    BY <2>1, FlatText
  <2>4. Pending(u.tmpwin, u.curscr, {})
    BY <1>3, <2>1
  <2> QED
    BY <1>1, <2>1, <2>2, <2>3, <2>4
<1>5. CASE t.clear = FALSE
  <2>1. /\ ~ u.cleared /\ Flat(u.tmpwin) /\ Text(u.tmpwin) = Text(t)
        /\ Curscr(u.curscr) /\ DOMAIN u.terminal.shown = Screen /\ u.terminal.intact = intact
        /\ LinesPainted(t, c, u)
    BY <1>1, <1>5, LinesPaint
  <2>2. \A q \in Screen : Within(t, q[1], q[2]) \/ Text(c)[q] = Text(t)[q] \/ q \in keep
    <3>1. \A q \in Screen : Text(c)[q] = Cell(c, q[1], q[2]) /\ Text(t)[q] = Cell(t, q[1], q[2])
      BY <1>2, FlatText
    <3> QED
      BY <3>1 DEF Pending
  <2>3. ASSUME NEW q \in Screen
        PROVE  PaintedAt(Text(t)[q], Text(u.curscr)[q], u.terminal.shown[q], Text(c)[q], shown[q], q \in keep)
    BY <2>1, <2>2 DEF PaintedAt, LinesPainted
  <2>4. Paints(t, c, keep, u)
    BY <2>1, <2>3 DEF Paints
  <2>5. \A q \in Screen : Text(u.curscr)[q] = Text(t)[q] \/ q \in keep
    BY <2>1, <2>2 DEF LinesPainted
  <2>6. Pending(u.tmpwin, u.curscr, keep)
    BY <1>3, <2>1, <2>5
  <2> QED
    BY <1>1, <2>1, <2>4, <2>6
<1> QED
  BY <1>2, <1>4, <1>5

\* What a window sends is recorded in tmpwin.
LEMMA DesiredPends ==
  ASSUME NEW t, Flat(t), NEW o, Sound(o), OnScreen(o), NEW c, NEW e, Pending(t, c, e)
  PROVE  Flat(Desired(t, o)) /\ Pending(Desired(t, o), c, e \ Sending(o))
<1>1. PICK d, n : d = Desired(t, o) /\ n = o.maxy + 1
  OBVIOUS
<1>2. HasSent(t, o, n, d)
  BY <1>1, DesiredIs
<1>3. /\ o.maxy \in Nat /\ o.maxx \in Nat /\ o.begy \in Nat /\ o.begx \in Nat
      /\ t.maxy = LINES - 1 /\ t.maxx = COLS - 1
  BY DEF Sound, Framed, Flat
<1>4. ASSUME NEW q \in Screen, q \in Sending(o) PROVE Sends(o, n, q[1], q[2])
  <2>1. PICK p \in Dirty(o) : q = <<o.begy + p[1], o.begx + p[2]>>
    BY <1>4 DEF Sending
  <2>2. p[1] \in 0 .. o.maxy /\ p[2] \in 0 .. o.maxx
    BY <2>1 DEF Dirty, Cells, Rows, Columns
  <2>3. q[1] - o.begy = p[1] /\ q[2] - o.begx = p[2]
    BY <1>3, <2>1, <2>2
  <2>4. Within(o, p[1], p[2])
    BY <2>1, <2>2, WithinIs DEF Dirty
  <2>5. p[1] < n
    BY <1>1, <1>3, <2>2
  <2> QED
    BY <2>2, <2>3, <2>4, <2>5 DEF Sends
<1>5. ASSUME NEW q \in Screen
      PROVE  \/ Within(d, q[1], q[2]) \/ Cell(c, q[1], q[2]) = Cell(d, q[1], q[2])
             \/ q \in e \ Sending(o)
  <2>1. q[1] \in 0 .. LINES - 1 /\ q[2] \in 0 .. COLS - 1
    BY DEF Screen
  <2>2. IF Sends(o, n, q[1], q[2]) THEN Within(d, q[1], q[2]) ELSE Cell(d, q[1], q[2]) = Cell(t, q[1], q[2])
    BY <1>2, <2>1 DEF HasSent
  <2>3. Within(t, q[1], q[2]) => Within(d, q[1], q[2])
    BY <1>2, <1>3, <2>1 DEF HasSent, Draws
  <2>4. Within(t, q[1], q[2]) \/ Cell(c, q[1], q[2]) = Cell(t, q[1], q[2]) \/ q \in e
    BY DEF Pending
  <2> QED
    BY <1>4, <2>2, <2>3, <2>4
<1> QED
  BY <1>1, <1>2, <1>5 DEF Pending, HasSent

\* A key that goes to a cell of curscr appears there, and nowhere else.
LEMMA TypedIs ==
  ASSUME NEW c, Curscr(c), NEW y \in 0 .. LINES - 1, NEW x \in 0 .. COLS - 1, NEW k \in Letters,
         LettersPrint
  PROVE  LET v == waddch(wmove(c, y, x), k)
         IN  /\ Curscr(v)
             /\ \A i \in 0 .. LINES - 1, j \in 0 .. COLS - 1 :
                  IF i = y /\ j = x THEN Cell(v, i, j)[1] = k ELSE Cell(v, i, j) = Cell(c, i, j)
<1>1. Flat(c) /\ Sound(c) /\ c.maxy = LINES - 1 /\ c.maxx = COLS - 1 /\ c.regtop = 0 /\ c.regbottom = LINES - 1
      /\ c.scroll = FALSE /\ c.clear = FALSE
  BY DEF Curscr, Flat
<1>2. PICK u : u = Aimed(c, y, x)
  OBVIOUS
<1>3. /\ Flat(u) /\ SameLines(c, u) /\ u.clear = FALSE /\ u.scroll = FALSE /\ u.attrs = c.attrs
      /\ u.cury = y /\ u.curx = x
  BY <1>1, <1>2, CursorFlat
<1>4. wmove(c, y, x) = u
  <2>1. ~ (x < 0 \/ x > c.maxx \/ y < c.regtop \/ y > c.regbottom)
    BY <1>1, ScreenAssumption
  <2> QED
    BY <1>2, <2>1 DEF wmove, Aimed
<1>5. /\ Sound(u) /\ IsWindow(u) /\ u.attrs \in Attributes /\ u.maxy = LINES - 1 /\ u.maxx = COLS - 1
      /\ u.line = [i \in 0 .. LINES - 1 |-> i]
      /\ u.row \in [0 .. LINES - 1 -> [0 .. COLS - 1 -> Glyph]] /\ u.regtop = 0 /\ u.regbottom = LINES - 1
  BY <1>3 DEF Flat, Sound, Framed, Held
<1>6. PICK g : g = <<k, u.attrs>>
  OBVIOUS
<1>7. g \in Glyph /\ g[1] = k
  BY <1>5, <1>6 DEF Glyph
<1>8. PICK n : n = IF Cell(u, y, x) # g THEN Noted(u, y, x) ELSE u
  OBVIOUS
<1>9. PICK p : p = Put(n, y, At(x, g))
  OBVIOUS
<1>10. Draws(u, p) /\ SameFrame(u, p)
  BY <1>3, <1>5, <1>7, <1>8, <1>9, WrittenPut
<1>11. n = u \/ n = Widen(u, y, x, x)
  BY <1>3, <1>5, <1>8, NotedIs
<1>12. /\ IsWindow(n) /\ n.line = u.line /\ n.row = u.row /\ n.maxy = u.maxy /\ n.maxx = u.maxx
  <2>1. CASE n = u
    BY <1>5, <2>1
  <2>2. CASE n = Widen(u, y, x, x)
    <3>1. SameFrame(u, n) /\ n.line = u.line /\ n.row = u.row
      BY <1>5, <2>2, WidenIs
    <3> QED
      BY <3>1 DEF SameFrame
  <2> QED
    BY <1>11, <2>1, <2>2
<1>13. p.line = n.line /\ p.row = [n.row EXCEPT ![n.line[y]] = Overlaid(n, y, At(x, g))]
  BY <1>9, <1>12, PutIs
<1>14. n.line[y] = y
  BY <1>5, <1>12
<1>15. p.row = [u.row EXCEPT ![y] = Overlaid(n, y, At(x, g))] /\ p.line = u.line
  BY <1>12, <1>13, <1>14
<1>16. \A j \in 0 .. COLS - 1 : Overlaid(n, y, At(x, g))[j] = IF j = x THEN g ELSE u.row[y][j]
  BY <1>5, <1>12, <1>14 DEF Overlaid, At
<1>17. Flat(p)
  BY <1>3, <1>10, <1>15 DEF Flat, Draws, SameFrame
<1>18. ASSUME NEW i \in 0 .. LINES - 1, NEW j \in 0 .. COLS - 1
       PROVE  Cell(p, i, j) = IF i = y /\ j = x THEN g ELSE Cell(c, i, j)
  <2>1. Cell(p, i, j) = p.row[i][j] /\ Cell(u, i, j) = u.row[i][j]
    BY <1>3, <1>17, FlatCell
  <2>2. Cell(u, i, j) = Cell(c, i, j)
    BY <1>3 DEF SameLines, Cell
  <2>3. CASE i # y
    <3>1. p.row[i] = u.row[i]
      BY <1>5, <1>15, <2>3
    <3> QED
      BY <2>1, <2>2, <2>3, <3>1
  <2>4. CASE i = y
    <3>1. p.row[i] = Overlaid(n, y, At(x, g))
      BY <1>5, <1>15, <2>4
    <3> QED
      BY <1>16, <2>1, <2>2, <2>4, <3>1
  <2> QED
    BY <2>3, <2>4
<1>19. /\ p.cury = y /\ p.curx = x /\ p.scroll = FALSE /\ p.clear = FALSE /\ p.regbottom = LINES - 1
       /\ p.maxx = COLS - 1 /\ IsWindow(p)
  BY <1>3, <1>5, <1>10 DEF SameFrame
<1>20. PICK v : v = IF x + 1 > p.maxx THEN Newline(p, y, 0) ELSE [p EXCEPT !.curx = x + 1]
  OBVIOUS
<1>21. waddch(u, k) = v
  <2>1. k \notin {"\n", "\r", "\t", "BS"}
    BY DEF LettersPrint
  <2>2. waddch(u, k) = Written(u, k)
    BY <2>1 DEF waddch
  <2>3. Written(u, k) = IF x + 1 > u.maxx THEN Newline(p, y, 0) ELSE [p EXCEPT !.curx = x + 1]
    BY <1>3, <1>6, <1>8, <1>9 DEF Written
  <2> QED
    BY <1>5, <1>19, <1>20, <2>2, <2>3
<1>22. v = p \/ (\E i, j : v = Aimed(p, i, j)) \/ v = [p EXCEPT !.curx = x + 1]
  BY <1>19, <1>20 DEF Newline, Aimed
<1>23. SameLines(p, v) /\ v.scroll = p.scroll /\ v.clear = p.clear /\ v.regtop = p.regtop /\ v.regbottom = p.regbottom
  <2>1. CASE v = p
    BY <1>19, <2>1 DEF SameLines
  <2>2. CASE \E i, j : v = Aimed(p, i, j)
    <3>1. PICK i, j : v = Aimed(p, i, j)
      BY <2>2
    <3> QED
      BY <1>19, <3>1 DEF SameLines, IsWindow, Fields, Aimed
  <2>3. CASE v = [p EXCEPT !.curx = x + 1]
    BY <1>19, <2>3 DEF SameLines, IsWindow, Fields
  <2> QED
    BY <1>22, <2>1, <2>2, <2>3
<1>24. Sound(v)
  <2>1. Draws(u, waddch(u, k))
    BY <1>5, WaddchDraws DEF Printed
  <2> QED
    BY <1>21, <2>1 DEF Draws
<1>25. Curscr(v)
  <2>1. Flat(v)
    BY <1>17, <1>23, <1>24 DEF Flat, SameLines
  <2> QED
    BY <1>19, <1>23, <2>1 DEF Curscr
<1>26. \A i, j : Cell(v, i, j) = Cell(p, i, j)
  BY <1>23 DEF SameLines, Cell
<1>27. ASSUME NEW i \in 0 .. LINES - 1, NEW j \in 0 .. COLS - 1
       PROVE  IF i = y /\ j = x THEN Cell(v, i, j)[1] = k ELSE Cell(v, i, j) = Cell(c, i, j)
  BY <1>7, <1>18, <1>26
<1> QED
  BY <1>4, <1>21, <1>25, <1>27

(***************************************************************************)
(* The invariant, and what each action does to Display                     *)
(***************************************************************************)

\* The inductive invariant: windows are sound and lie on the screen, what curscr has
\* not got from tmpwin is recorded there or a key, and curscr is what is shown.
ScreenInv ==
    /\ program \in Programs
    /\ \A w \in DOMAIN win : Sound(win[w]) /\ OnScreen(win[w])
    /\ Flat(tmpwin) /\ Curscr(curscr)
    /\ DOMAIN shown = Screen /\ intact \in BOOLEAN /\ echoed \subseteq Screen
    /\ Pending(tmpwin, curscr, echoed)
    /\ CurscrIsShown

\* Window w is replaced by v, in which something was drawn or which was moved.
Redraws(w, v) == Draws(w, v) \/ Moves(w, v)
Replaces == \E w \in DOMAIN win : \E v : Replace(w, v) /\ Redraws(win[w], v)

LEMMA WriteReplaces ==
  ASSUME ScreenInv, Write
  PROVE  Replaces
<1>1. PICK w \in DOMAIN win :
        \/ \E c \in Letters \cup {Space} : Replace(w, waddch(win[w], c))
        \/ \E c \in {"\n", "\r", "\t", "BS"} : Replace(w, waddch(win[w], c))
        \/ \E c \in Letters \cup {"\n"} : Replace(w, winsch(win[w], c))
  BY DEF Write
<1>2. Sound(win[w])
  BY DEF ScreenInv
<1>3. PICK c \in Printed \cup Controls : Replace(w, waddch(win[w], c)) \/ Replace(w, winsch(win[w], c))
  BY <1>1 DEF Printed, Controls
<1>4. Draws(win[w], waddch(win[w], c)) /\ Draws(win[w], winsch(win[w], c))
  BY <1>2, WaddchDraws, WinschDraws
<1> QED
  BY <1>3, <1>4 DEF Replaces, Redraws

LEMMA EraseReplaces ==
  ASSUME ScreenInv, Erase
  PROVE  Replaces
<1>1. PICK w \in DOMAIN win :
        \/ Replace(w, wdelch(win[w])) \/ Replace(w, winsertln(win[w])) \/ Replace(w, wdeleteln(win[w]))
        \/ Replace(w, wclrtoeol(win[w])) \/ Replace(w, wclrtobot(win[w]))
        \/ Replace(w, werase(win[w])) \/ Replace(w, wclear(win[w])) \/ Replace(w, scroll(win[w]))
  BY DEF Erase
<1>2. Sound(win[w])
  BY DEF ScreenInv
<1>3. /\ Draws(win[w], wdelch(win[w])) /\ Draws(win[w], winsertln(win[w])) /\ Draws(win[w], wdeleteln(win[w]))
      /\ Draws(win[w], wclrtoeol(win[w])) /\ Draws(win[w], wclrtobot(win[w]))
      /\ Draws(win[w], werase(win[w])) /\ Draws(win[w], wclear(win[w])) /\ Draws(win[w], scroll(win[w]))
  BY <1>2, WdelchDraws, LinesDraw, WclrtobotDraws, EraseDraws, ScrollDraws
<1> QED
  BY <1>1, <1>3 DEF Replaces, Redraws

LEMMA ArrangeReplaces ==
  ASSUME ScreenInv, Arrange
  PROVE  Replaces
<1>1. PICK w \in DOMAIN win :
        \/ \E p \in Cells(win[w]) : Replace(w, wmove(win[w], p[1], p[2]))
        \/ \E top, bottom \in Rows(win[w]) : Replace(w, wsetscrreg(win[w], top, bottom))
        \/ \E a \in Attributes : Replace(w, [win[w] EXCEPT !.attrs = a])
        \/ Replace(w, [win[w] EXCEPT !.scroll = ~ @])
        \/ \E p, q \in Cells(win[w]), c \in Letters : Replace(w, wbox(win[w], p[1], p[2], q[1], q[2], c))
        \/ Replace(w, [win[w] EXCEPT !.clear = TRUE])
        \/ Replace(w, touchwin(win[w]))
        \/ \E p \in Screen : Replace(w, mvwin(win[w], p[1], p[2]))
        \/ \E v \in DOMAIN win : Replace(w, overlay(win[v], win[w])) \/ Replace(w, overwrite(win[v], win[w]))
  BY DEF Arrange
<1>2. PICK o : o = win[w]
  OBVIOUS
<1>3. Sound(o) /\ OnScreen(o)
  BY <1>2 DEF ScreenInv
<1>4. \A p \in Cells(o) : p[1] \in 0 .. o.maxy /\ p[2] \in 0 .. o.maxx /\ p[1] \in Int /\ p[2] \in Int
  BY DEF Cells, Rows, Columns
<1>5. ASSUME NEW v, Replace(w, v), Redraws(o, v) PROVE Replaces
  BY <1>2, <1>5 DEF Replaces
<1>6. CASE \E p \in Cells(o) : Replace(w, wmove(o, p[1], p[2]))
  BY <1>3, <1>4, <1>5, <1>6, WmoveDraws DEF Redraws
<1>7. CASE \E top, bottom \in Rows(o) : Replace(w, wsetscrreg(o, top, bottom))
  <2>1. PICK top \in 0 .. o.maxy, bottom \in 0 .. o.maxy : Replace(w, wsetscrreg(o, top, bottom))
    BY <1>7 DEF Rows
  <2>2. Draws(o, wsetscrreg(o, top, bottom))
    BY <1>3, WsetscrregDraws
  <2> QED
    BY <1>5, <2>1, <2>2 DEF Redraws
<1>8. CASE \E a \in Attributes : Replace(w, [o EXCEPT !.attrs = a])
  <2>0. PICK a \in Attributes : Replace(w, [o EXCEPT !.attrs = a])
    BY <1>8
  <2>1. PICK v : Replace(w, v) /\ v = [o EXCEPT !.attrs = a]
    BY <2>0
  <2>2. Draws(o, v)
    BY <1>3, <2>1, FlagDraws
  <2> QED
    BY <1>5, <2>1, <2>2 DEF Redraws
<1>9. CASE Replace(w, [o EXCEPT !.scroll = ~ @])
  <2>1. PICK flag, v : flag = ~ o.scroll /\ Replace(w, v) /\ v = [o EXCEPT !.scroll = flag]
    BY <1>9
  <2>2. flag \in BOOLEAN
    BY <2>1
  <2>3. Draws(o, v)
    <3>1. 0 \in Attributes /\ flag \in BOOLEAN
      BY ScreenAssumption, <2>1, <2>2
    <3>2. Draws(o, [o EXCEPT !.scroll = flag])
      BY <1>3, <3>1, FlagDraws
    <3> QED
      BY <2>1, <3>2
  <2> QED
    BY <1>5, <2>1, <2>3 DEF Redraws
<1>10. CASE \E p, q \in Cells(o), c \in Letters : Replace(w, wbox(o, p[1], p[2], q[1], q[2], c))
  <2>1. PICK p \in Cells(o), q \in Cells(o), c \in Letters : Replace(w, wbox(o, p[1], p[2], q[1], q[2], c))
    BY <1>10
  <2>2. Draws(o, wbox(o, p[1], p[2], q[1], q[2], c))
    BY <1>3, <1>4, WboxDraws
  <2> QED
    BY <1>5, <2>1, <2>2 DEF Redraws
<1>11. CASE Replace(w, [o EXCEPT !.clear = TRUE])
  <2>1. PICK flag, v : flag = TRUE /\ Replace(w, v) /\ v = [o EXCEPT !.clear = flag]
    BY <1>11
  <2>2. Draws(o, v)
    <3>1. 0 \in Attributes /\ flag \in BOOLEAN
      BY ScreenAssumption, <2>1
    <3>2. Draws(o, [o EXCEPT !.clear = flag])
      BY <1>3, <3>1, FlagDraws
    <3> QED
      BY <2>1, <3>2
  <2> QED
    BY <1>5, <2>1, <2>2 DEF Redraws
<1>12. CASE Replace(w, touchwin(o))
  BY <1>3, <1>5, <1>12, TouchwinDraws DEF Redraws
<1>13. CASE \E p \in Screen : Replace(w, mvwin(o, p[1], p[2]))
  <2>1. PICK y, x : y \in Nat /\ x \in Nat /\ Replace(w, mvwin(o, y, x))
    <3>1. \A p \in Screen : p[1] \in Nat /\ p[2] \in Nat
      BY DEF Screen
    <3> QED
      BY <1>13, <3>1
  <2>2. mvwin(o, y, x) = o \/ Moves(o, mvwin(o, y, x))
    BY <1>3, <2>1, MvwinMoves
  <2>3. Draws(o, o)
    BY <1>3, DrawsNothing
  <2> QED
    BY <1>5, <2>1, <2>2, <2>3 DEF Redraws
<1>14. CASE \E v \in DOMAIN win : Replace(w, overlay(win[v], o)) \/ Replace(w, overwrite(win[v], o))
  <2>1. PICK v \in DOMAIN win : Replace(w, overlay(win[v], o)) \/ Replace(w, overwrite(win[v], o))
    BY <1>14
  <2>2. Sound(win[v])
    BY DEF ScreenInv
  <2>3. Draws(o, overlay(win[v], o)) /\ Draws(o, overwrite(win[v], o))
    BY <1>3, <2>2, OverlayDraws
  <2> QED
    BY <1>5, <2>1, <2>3 DEF Redraws
<1> QED
  BY <1>1, <1>2, <1>6, <1>7, <1>8, <1>9, <1>10, <1>11, <1>12, <1>13, <1>14

LEMMA DirtyIs ==
  ASSUME NEW w, Sound(w)
  PROVE  /\ DOMAIN Text(w) = Cells(w) /\ Dirty(w) \subseteq Cells(w)
         /\ \A p \in Cells(w) : /\ p[1] \in 0 .. w.maxy /\ p[2] \in 0 .. w.maxx
                                /\ p \in Dirty(w) <=> Within(w, p[1], p[2])
                                /\ Text(w)[p] = Cell(w, p[1], p[2])
<1>1. \A p \in Cells(w) : p[1] \in 0 .. w.maxy /\ p[2] \in 0 .. w.maxx /\ p[2] \in Int
  BY DEF Cells, Rows, Columns
<1>2. ASSUME NEW p \in Cells(w) PROVE p \in Dirty(w) <=> Within(w, p[1], p[2])
  BY <1>1, WithinIs DEF Dirty
<1> QED
  BY <1>1, <1>2 DEF Text, Dirty

\* No change of window w is forgotten in v, nor those recorded before.
Remembers(w, v, before) ==
    /\ before \cup {cell \in DOMAIN Text(w) : Text(v)[cell] # Text(w)[cell]} \subseteq Dirty(v)
    /\ <<v.begy, v.begx>> # <<w.begy, w.begx>> => Dirty(v) = DOMAIN Text(w)

LEMMA RedrawsRemembers ==
  ASSUME NEW w, Sound(w), OnScreen(w), NEW v, Redraws(w, v)
  PROVE  Sound(v) /\ OnScreen(v) /\ Remembers(w, v, Dirty(w))
<1>1. CASE Draws(w, v)
  <2>1. Sound(v) /\ OnScreen(v) /\ Cells(v) = Cells(w) /\ <<v.begy, v.begx>> = <<w.begy, w.begx>>
    BY <1>1 DEF Draws, OnScreen, Cells, Rows, Columns
  <2>2. ASSUME NEW p \in Cells(w), p \in Dirty(w) \/ Text(v)[p] # Text(w)[p] PROVE p \in Dirty(v)
    <3>1. /\ p[1] \in 0 .. w.maxy /\ p[2] \in 0 .. w.maxx
          /\ (p \in Dirty(w) <=> Within(w, p[1], p[2])) /\ Text(w)[p] = Cell(w, p[1], p[2])
      BY DirtyIs
    <3>2. (p \in Dirty(v) <=> Within(v, p[1], p[2])) /\ Text(v)[p] = Cell(v, p[1], p[2])
      BY <2>1, DirtyIs
    <3> QED
      BY <1>1, <2>2, <3>1, <3>2 DEF Draws
  <2>3. DOMAIN Text(w) = Cells(w) /\ Dirty(w) \subseteq Cells(w)
    BY DirtyIs
  <2> QED
    BY <2>1, <2>2, <2>3 DEF Remembers
<1>2. CASE Moves(w, v)
  <2>1. Sound(v) /\ OnScreen(v) /\ Cells(v) = Cells(w)
    BY <1>2 DEF Moves, Cells, Rows, Columns
  <2>2. ASSUME NEW p \in Cells(w) PROVE p \in Dirty(v)
    <3>1. p[1] \in 0 .. w.maxy /\ p[2] \in 0 .. w.maxx
      BY DirtyIs
    <3>2. p \in Dirty(v) <=> Within(v, p[1], p[2])
      BY <2>1, DirtyIs
    <3> QED
      BY <1>2, <3>1, <3>2 DEF Moves
  <2>3. DOMAIN Text(w) = Cells(w) /\ Dirty(w) \subseteq Cells(w) /\ Dirty(v) \subseteq Cells(v)
    BY <2>1, DirtyIs
  <2>4. Dirty(v) = Cells(w)
    BY <2>1, <2>2, <2>3
  <2> QED
    BY <2>1, <2>3, <2>4 DEF Remembers
<1> QED
  BY <1>1, <1>2 DEF Redraws

\* The cells of a window that lies on the screen are cells of the screen.
LEMMA CellsOnScreen ==
  ASSUME NEW w, Sound(w), OnScreen(w), NEW p \in Cells(w)
  PROVE  <<w.begy + p[1], w.begx + p[2]>> \in Screen
<1>1. p[1] \in 0 .. w.maxy /\ p[2] \in 0 .. w.maxx
  BY DirtyIs
<1>2. /\ w.begy \in Nat /\ w.begx \in Nat /\ w.maxy \in Nat /\ w.maxx \in Nat
      /\ w.begy + w.maxy <= LINES - 1 /\ w.begx + w.maxx <= COLS - 1 /\ LINES \in Nat /\ COLS \in Nat
  BY ScreenAssumption DEF Sound, Framed, OnScreen
<1>3. w.begy + p[1] \in 0 .. LINES - 1 /\ w.begx + p[2] \in 0 .. COLS - 1
  BY <1>1, <1>2
<1> QED
  BY <1>3 DEF Screen

LEMMA ScreenTyped ==
  ASSUME ScreenInv
  PROVE  Shown!TypeOK
<1>1. DOMAIN Text(tmpwin) = Screen /\ DOMAIN Text(curscr) = Screen
  BY FlatText DEF ScreenInv, Curscr
<1>2. ASSUME NEW w \in DOMAIN win
      PROVE  /\ DOMAIN Text(win[w]) = Cells(win[w]) /\ Dirty(win[w]) \subseteq Cells(win[w])
             /\ \A p \in Cells(win[w]) : <<win[w].begy + p[1], win[w].begx + p[2]>> \in Screen
  <2>1. Sound(win[w]) /\ OnScreen(win[w])
    BY DEF ScreenInv
  <2> QED
    BY <2>1, DirtyIs, CellsOnScreen
<1>3. intact \in BOOLEAN /\ echoed \subseteq Screen /\ DOMAIN shown = Screen
  BY DEF ScreenInv
<1> QED
  BY <1>1, <1>2, <1>3 DEF Shown!TypeOK, Shown!Created, Shown!On

LEMMA ScreenTypedNext == ScreenInv' => Shown!TypeOK'
<1>1. ScreenInv => Shown!TypeOK
  BY ScreenTyped
<1> QED
  BY <1>1, PTL

\* curscr c says what terminal s shows, but for the attributes of keys that it echoes.
LikeShown(c, s) ==
    \A q \in Screen :
      IF "wgetch" \in program.calls THEN s[q][1] = Text(c)[q][1] ELSE s[q] = Text(c)[q]

LEMMA PaintsShow ==
  ASSUME ScreenInv, NEW t, NEW keep, NEW u, Paints(t, curscr, keep, u)
  PROVE  u.terminal.intact => LikeShown(u.curscr, u.terminal.shown)
<1>1. intact => LikeShown(curscr, shown)
  BY DEF ScreenInv, CurscrIsShown, LikeShown
<1>2. CASE u.cleared
  BY <1>2 DEF Paints, LikeShown
<1>3. CASE ~ u.cleared
  <2>1. /\ u.terminal.intact = intact
        /\ \A q \in Screen : \/ Text(u.curscr)[q] = u.terminal.shown[q]
                             \/ Text(u.curscr)[q] = Text(curscr)[q] /\ u.terminal.shown[q] = shown[q]
    BY <1>3 DEF Paints, PaintedAt
  <2> QED
    BY <1>1, <2>1 DEF LikeShown
<1> QED
  BY <1>2, <1>3

LEMMA PaintsPainted ==
  ASSUME NEW t, Flat(t), NEW keep, NEW but, NEW u, Paints(t, curscr, keep, u),
         \A q \in Screen \ but : Text(curscr')[q] = Text(u.curscr)[q] /\ shown'[q] = u.terminal.shown[q],
         intact' = u.terminal.intact, echoed' = (IF u.cleared THEN {} ELSE keep) \cup but
  PROVE  Shown!Painted(Text(t), keep, but)
<1>1. DOMAIN Text(t) = Screen
  BY FlatText
<1>2. CASE u.cleared
  <2>1. intact' = TRUE /\ echoed' = but
    BY <1>2 DEF Paints
  <2>2. \A q \in Screen \ but : Text(curscr')[q] = Text(t)[q] /\ shown'[q] = Text(t)[q]
    BY <1>2 DEF Paints
  <2> QED
    BY <1>1, <2>1, <2>2 DEF Shown!Painted
<1>3. CASE ~ u.cleared
  <2>1. intact' = intact /\ echoed' = keep \cup but
    BY <1>3 DEF Paints
  <2>2. ASSUME NEW q \in Screen \ but
        PROVE  \/ Text(curscr')[q] = Text(t)[q] /\ (shown'[q] = Text(t)[q] \/ (shown'[q] = shown[q] /\ Text(curscr)[q] = Text(t)[q]))
               \/ q \in keep /\ Text(curscr')[q] = Text(curscr)[q] /\ shown'[q] = shown[q]
    BY <1>3 DEF Paints, PaintedAt
  <2> QED
    BY <1>1, <2>1, <2>2 DEF Shown!Painted
<1> QED
  BY <1>2, <1>3

\* A call that only draws in a window, or moves it.
LEMMA ReplacesDraws ==
  ASSUME ScreenInv, Replaces
  PROVE  ScreenInv' /\ Shown!Next
<1>0. PICK w \in DOMAIN win : \E v : Replace(w, v) /\ Redraws(win[w], v)
  BY DEF Replaces
<1>1. PICK v : Replace(w, v) /\ Redraws(win[w], v)
  BY <1>0
<1>2. /\ win' = [win EXCEPT ![w] = v] /\ program' = program /\ tmpwin' = tmpwin /\ curscr' = curscr
      /\ shown' = shown /\ intact' = intact /\ echoed' = echoed
  BY <1>1 DEF Replace, Terminal
<1>3. DOMAIN win' = DOMAIN win /\ win'[w] = v /\ \A z \in DOMAIN win \ {w} : win'[z] = win[z]
  BY <1>2
<1>4. Sound(v) /\ OnScreen(v) /\ Remembers(win[w], v, Dirty(win[w]))
  <2>1. Sound(win[w]) /\ OnScreen(win[w])
    BY DEF ScreenInv
  <2> QED
    BY <1>1, <2>1, RedrawsRemembers
<1>5. \A z \in DOMAIN win' : Sound(win'[z]) /\ OnScreen(win'[z])
  BY <1>3, <1>4 DEF ScreenInv
<1>6. CurscrIsShown'
  BY <1>2 DEF ScreenInv, CurscrIsShown
<1>7. ScreenInv'
  BY <1>2, <1>5, <1>6 DEF ScreenInv
<1>8. Shown!Others(w)
  BY <1>3 DEF Shown!Others, Shown!Created
<1>9. Shown!Drawn(w, Dirty(win[w]))
  BY <1>3, <1>4 DEF Shown!Drawn, Remembers
<1>10. Shown!TypeOK'
  BY <1>7, ScreenTypedNext
<1>11. Shown!Draw(w)
  <2>1. w \in DOMAIN [z \in DOMAIN win |-> Text(win[z])]'
    BY <1>3
  <2>2. [z \in DOMAIN win |-> Dirty(win[z])][w] = Dirty(win[w])
    OBVIOUS
  <2>3. UNCHANGED <<Text(tmpwin), Text(curscr), shown, intact, echoed>>
    BY <1>2
  <2>4. Shown!Drawn(w, [z \in DOMAIN win |-> Dirty(win[z])][w])
    BY <1>9, <2>2 DEF Shown!Drawn
  <2> QED
    BY <1>8, <1>10, <2>1, <2>3, <2>4 DEF Shown!Draw, Shown!Drawn
<1> QED
  BY <1>7, <1>11 DEF Shown!Next, Shown!Created

LEMMA NewwinOpens ==
  ASSUME ScreenInv, newwin
  PROVE  ScreenInv' /\ Shown!Next
<1>1. PICK u \in program.windows :
        /\ "w" \notin DOMAIN win
        /\ win' = [v \in DOMAIN win \cup {"w"} |->
                     IF v = "w" THEN NewWindow(u.rows, u.cols, u.y, u.x) ELSE win[v]]
        /\ UNCHANGED <<program, tmpwin, curscr, Terminal>>
  BY DEF newwin
<1>2. PICK o : o = NewWindow(u.rows, u.cols, u.y, u.x)
  OBVIOUS
<1>3. /\ program' = program /\ tmpwin' = tmpwin /\ curscr' = curscr
      /\ shown' = shown /\ intact' = intact /\ echoed' = echoed
  BY <1>1 DEF Terminal
<1>4. DOMAIN win' = DOMAIN win \cup {"w"} /\ win'["w"] = o /\ \A z \in DOMAIN win : win'[z] = win[z]
  BY <1>1, <1>2
<1>5. /\ u.rows \in Nat \ {0} /\ u.cols \in Nat \ {0} /\ u.y \in Nat /\ u.x \in Nat
      /\ u.y + u.rows <= LINES /\ u.x + u.cols <= COLS
  BY ProgramAssumption DEF ScreenInv, WindowsFit
<1>6. /\ Sound(o) /\ o.maxy = u.rows - 1 /\ o.maxx = u.cols - 1 /\ o.begy = u.y /\ o.begx = u.x
      /\ \A i \in 0 .. u.rows - 1, j \in 0 .. u.cols - 1 : Within(o, i, j)
  <2>1. PICK rows, cols, y, x : rows = u.rows /\ cols = u.cols /\ y = u.y /\ x = u.x
    OBVIOUS
  <2>2. rows \in Nat \ {0} /\ cols \in Nat \ {0} /\ y \in Nat /\ x \in Nat
    BY <1>5, <2>1
  <2>3. o = NewWindow(rows, cols, y, x)
    BY <1>2, <2>1
  <2>4. /\ Sound(o) /\ o.maxy = rows - 1 /\ o.maxx = cols - 1 /\ o.begy = y /\ o.begx = x
        /\ \A i \in 0 .. rows - 1, j \in 0 .. cols - 1 : Within(o, i, j)
    <3>1. Opened(o, rows, cols, y, x)
      BY <2>2, <2>3, NewWindowSound
    <3> QED
      BY <3>1 DEF Opened
  <2> QED
    BY <2>1, <2>4
<1>7. OnScreen(o)
  BY <1>5, <1>6, ScreenAssumption DEF OnScreen
<1>8. Dirty(o) = DOMAIN Text(o)
  <2>1. \A p \in Cells(o) : p \in Dirty(o)
    BY <1>6, DirtyIs
  <2> QED
    BY <1>6, <2>1, DirtyIs
<1>9. \A z \in DOMAIN win' : Sound(win'[z]) /\ OnScreen(win'[z])
  BY <1>4, <1>6, <1>7 DEF ScreenInv
<1>10. CurscrIsShown'
  BY <1>3 DEF ScreenInv, CurscrIsShown
<1>11. ScreenInv'
  BY <1>3, <1>9, <1>10 DEF ScreenInv
<1>12. Shown!TypeOK'
  BY <1>11, ScreenTypedNext
<1>13. Shown!Others("w")
  BY <1>1, <1>4 DEF Shown!Others, Shown!Created
<1>14. UNCHANGED <<Text(tmpwin), Text(curscr), shown, intact, echoed>>
  BY <1>3
<1>15. "w" \in DOMAIN [z \in DOMAIN win |-> Text(win[z])]'
  BY <1>4
<1>16. [z \in DOMAIN win |-> Dirty(win[z])]'["w"] = DOMAIN [z \in DOMAIN win |-> Text(win[z])]'["w"]
  BY <1>4, <1>8
<1>17. Shown!Open("w")
  BY <1>1, <1>12, <1>13, <1>14, <1>15, <1>16 DEF Shown!Open, Shown!Created
<1> QED
  BY <1>11, <1>15, <1>17 DEF Shown!Next

LEMMA DelwinCloses ==
  ASSUME ScreenInv, delwin
  PROVE  ScreenInv' /\ Shown!Next
<1>1. /\ "w" \in DOMAIN win
      /\ win' = [v \in DOMAIN win \ {"w"} |-> win[v]]
      /\ UNCHANGED <<program, tmpwin, curscr, Terminal>>
  BY DEF delwin
<1>2. /\ program' = program /\ tmpwin' = tmpwin /\ curscr' = curscr
      /\ shown' = shown /\ intact' = intact /\ echoed' = echoed
  BY <1>1 DEF Terminal
<1>3. DOMAIN win' = DOMAIN win \ {"w"} /\ \A z \in DOMAIN win' : win'[z] = win[z]
  BY <1>1
<1>4. CurscrIsShown'
  BY <1>2 DEF ScreenInv, CurscrIsShown
<1>5. ScreenInv'
  BY <1>2, <1>3, <1>4 DEF ScreenInv
<1>6. Shown!Others("w")
  BY <1>1, <1>3 DEF Shown!Others, Shown!Created
<1>7. UNCHANGED <<Text(tmpwin), Text(curscr), shown, intact, echoed>>
  BY <1>2
<1>8. "w" \notin DOMAIN [z \in DOMAIN win |-> Text(win[z])]'
  BY <1>3
<1>9. Shown!Close("w")
  BY <1>6, <1>7, <1>8 DEF Shown!Close
<1> QED
  BY <1>1, <1>5, <1>9 DEF Shown!Next, Shown!Created

\* What wnoutrefresh makes of tmpwin is the desired screen with what changed.
LEMMA DesiredSent ==
  ASSUME ScreenInv, NEW w \in DOMAIN win
  PROVE  /\ Text(Desired(tmpwin, win[w])) = Shown!Sent(w)
         /\ Sending(win[w]) = Shown!Sending(w)
<1>1. PICK o, d, n : o = win[w] /\ d = Desired(tmpwin, o) /\ n = o.maxy + 1
  OBVIOUS
<1>2. Sound(o) /\ OnScreen(o) /\ Flat(tmpwin)
  BY <1>1 DEF ScreenInv
<1>3. HasSent(tmpwin, o, n, d) /\ Flat(d)
  BY <1>1, <1>2, DesiredIs DEF HasSent
<1>4. DOMAIN Text(d) = Screen /\ DOMAIN Text(tmpwin) = Screen
  BY <1>2, <1>3, FlatText
<1>5. /\ o.maxy \in Nat /\ o.maxx \in Nat /\ o.begy \in Nat /\ o.begx \in Nat
  BY <1>2 DEF Sound, Framed
<1>6. ASSUME NEW q \in Screen
      PROVE  Text(d)[q] = IF <<q[1] - o.begy, q[2] - o.begx>> \in Dirty(o)
                          THEN Text(o)[<<q[1] - o.begy, q[2] - o.begx>>] ELSE Text(tmpwin)[q]
  <2>1. PICK i, j : i = q[1] - o.begy /\ j = q[2] - o.begx
    OBVIOUS
  <2>2. /\ q[1] \in 0 .. LINES - 1 /\ q[2] \in 0 .. COLS - 1
        /\ Text(d)[q] = Cell(d, q[1], q[2]) /\ Text(tmpwin)[q] = Cell(tmpwin, q[1], q[2])
    BY <1>2, <1>3, FlatText
  <2>3. i \in Int /\ j \in Int
    BY <1>5, <2>1, <2>2
  <2>4. ASSUME Sends(o, n, q[1], q[2]) PROVE <<i, j>> \in Cells(o)
    <3>1. i \in 0 .. o.maxy /\ Within(o, i, j)
      BY <2>1, <2>4 DEF Sends
    <3>2. j \in o.minchng[i] .. o.maxchng[i] /\ o.minchng[i] # NoChange
      BY <1>2, <2>3, <3>1, WithinIs
    <3>3. o.minchng[i] \in Int /\ o.maxchng[i] \in Int /\ 0 <= o.minchng[i] /\ o.maxchng[i] <= o.maxx
      <4>1. o.minchng \in [0 .. o.maxy -> Int] /\ o.maxchng \in [0 .. o.maxy -> Int]
        BY <1>2 DEF Sound, Ranged
      <4>2. o.minchng[i] \in Int /\ o.maxchng[i] \in Int
        BY <3>1, <4>1
      <4> QED
        BY <1>2, <3>1, <3>2, <4>2 DEF Sound, Ranged, NoChange
    <3>4. j \in 0 .. o.maxx
      BY <1>5, <2>3, <3>2, <3>3
    <3> QED
      BY <3>1, <3>4 DEF Cells, Rows, Columns
  <2>5. Sends(o, n, q[1], q[2]) <=> <<i, j>> \in Dirty(o)
    <3>1. CASE <<i, j>> \in Cells(o)
      <4>1. i \in 0 .. o.maxy /\ (<<i, j>> \in Dirty(o) <=> Within(o, i, j))
        BY <1>2, <3>1, DirtyIs
      <4>2. i < n
        BY <1>1, <1>5, <4>1
      <4> QED
        BY <2>1, <4>1, <4>2 DEF Sends
    <3>2. CASE <<i, j>> \notin Cells(o)
      BY <2>4, <3>2 DEF Dirty
    <3> QED
      BY <3>1, <3>2
  <2>6. Sends(o, n, q[1], q[2]) => Text(o)[<<i, j>>] = Cell(o, i, j)
    BY <1>2, <2>4, DirtyIs
  <2>7. IF Sends(o, n, q[1], q[2]) THEN Cell(d, q[1], q[2]) = Cell(o, i, j)
        ELSE Cell(d, q[1], q[2]) = Cell(tmpwin, q[1], q[2])
    BY <1>3, <2>1, <2>2 DEF HasSent
  <2> QED
    BY <2>1, <2>2, <2>5, <2>6, <2>7
<1>7. Shown!Sent(w) = [q \in Screen |-> IF <<q[1] - o.begy, q[2] - o.begx>> \in Dirty(o)
                          THEN Text(o)[<<q[1] - o.begy, q[2] - o.begx>>] ELSE Text(tmpwin)[q]]
  BY <1>1, <1>4 DEF Shown!Sent
<1>8. Text(d) = [q \in Screen |-> Text(d)[q]]
  <2>1. Cells(d) = Screen
    BY <1>3, FlatText
  <2> QED
    BY <2>1 DEF Text
<1>9. Text(d) = Shown!Sent(w)
  BY <1>6, <1>7, <1>8
<1>10. Sending(o) = Shown!Sending(w)
  BY <1>1 DEF Sending, Shown!Sending, Shown!On
<1> QED
  BY <1>1, <1>9, <1>10

\* Window w is flushed, and then perhaps drawn in: nothing else of the windows changes.
LEMMA FlushedWindow ==
  ASSUME ScreenInv, NEW w \in DOMAIN win, NEW v, Draws(Flushed(win[w]), v), win' = [win EXCEPT ![w] = v]
  PROVE  /\ DOMAIN win' = DOMAIN win /\ win'[w] = v /\ \A z \in DOMAIN win \ {w} : win'[z] = win[z]
         /\ \A z \in DOMAIN win' : Sound(win'[z]) /\ OnScreen(win'[z])
         /\ UNCHANGED [z \in DOMAIN win |-> <<win[z].begy, win[z].begx>>]
         /\ Shown!Others(w) /\ w \in DOMAIN [z \in DOMAIN win |-> Text(win[z])]'
         /\ Remembers(win[w], v, {})
<1>1. PICK o, f : o = win[w] /\ f = Flushed(o)
  OBVIOUS
<1>2. Sound(o) /\ OnScreen(o)
  BY <1>1 DEF ScreenInv
<1>3. /\ Sound(f) /\ f.maxy = o.maxy /\ f.maxx = o.maxx /\ f.begy = o.begy /\ f.begx = o.begx
      /\ Text(f) = Text(o) /\ Dirty(f) = {}
  BY <1>1, <1>2, FlushedIs
<1>4. OnScreen(f) /\ Redraws(f, v)
  BY <1>1, <1>2, <1>3 DEF OnScreen, Redraws
<1>5. Sound(v) /\ OnScreen(v) /\ Remembers(f, v, {})
  BY <1>3, <1>4, RedrawsRemembers
<1>6. v.begy = o.begy /\ v.begx = o.begx
  BY <1>1, <1>3 DEF Draws
<1>7. Remembers(o, v, {})
  BY <1>3, <1>5 DEF Remembers
<1>8. DOMAIN win' = DOMAIN win /\ win'[w] = v /\ \A z \in DOMAIN win \ {w} : win'[z] = win[z]
  OBVIOUS
<1>9. \A z \in DOMAIN win' : Sound(win'[z]) /\ OnScreen(win'[z])
  BY <1>5, <1>8 DEF ScreenInv
<1>10. \A z \in DOMAIN win : win'[z].begy = win[z].begy /\ win'[z].begx = win[z].begx
  BY <1>1, <1>6, <1>8
<1>11. UNCHANGED [z \in DOMAIN win |-> <<win[z].begy, win[z].begx>>]
  BY <1>8, <1>10
<1>12. Shown!Others(w)
  BY <1>8 DEF Shown!Others, Shown!Created
<1>13. w \in DOMAIN [z \in DOMAIN win |-> Text(win[z])]'
  BY <1>8
<1> QED
  BY <1>1, <1>7, <1>8, <1>9, <1>11, <1>12, <1>13

\* Window w is flushed only.
LEMMA FlushedOnly ==
  ASSUME ScreenInv, NEW w \in DOMAIN win, win' = [win EXCEPT ![w] = Flushed(@)]
  PROVE  /\ \A z \in DOMAIN win' : Sound(win'[z]) /\ OnScreen(win'[z])
         /\ UNCHANGED <<[z \in DOMAIN win |-> Text(win[z])], [z \in DOMAIN win |-> <<win[z].begy, win[z].begx>>]>>
         /\ [z \in DOMAIN win |-> Dirty(win[z])]' = [[z \in DOMAIN win |-> Dirty(win[z])] EXCEPT ![w] = {}]
<1>1. PICK f : f = Flushed(win[w])
  OBVIOUS
<1>2. win' = [win EXCEPT ![w] = f]
  BY <1>1
<1>3. Sound(win[w])
  BY DEF ScreenInv
<1>4. Sound(f) /\ Text(f) = Text(win[w]) /\ Dirty(f) = {}
  BY <1>1, <1>3, FlushedIs
<1>5. Draws(Flushed(win[w]), f)
  BY <1>1, <1>4, DrawsNothing
<1>6. /\ DOMAIN win' = DOMAIN win /\ win'[w] = f /\ \A z \in DOMAIN win \ {w} : win'[z] = win[z]
      /\ \A z \in DOMAIN win' : Sound(win'[z]) /\ OnScreen(win'[z])
      /\ UNCHANGED [z \in DOMAIN win |-> <<win[z].begy, win[z].begx>>]
  BY <1>2, <1>5, FlushedWindow
<1>7. UNCHANGED [z \in DOMAIN win |-> Text(win[z])]
  <2>1. \A z \in DOMAIN win : Text(win'[z]) = Text(win[z])
    BY <1>4, <1>6
  <2> QED
    BY <1>6, <2>1
<1>8. [z \in DOMAIN win |-> Dirty(win[z])]' = [[z \in DOMAIN win |-> Dirty(win[z])] EXCEPT ![w] = {}]
  <2>1. \A z \in DOMAIN win : Dirty(win'[z]) = IF z = w THEN {} ELSE Dirty(win[z])
    BY <1>4, <1>6
  <2> QED
    BY <1>6, <2>1
<1> QED
  BY <1>6, <1>7, <1>8

LEMMA WnoutrefreshSends ==
  ASSUME ScreenInv, wnoutrefresh
  PROVE  ScreenInv' /\ Shown!Next
<1>1. PICK w \in DOMAIN win :
        /\ tmpwin' = Desired(tmpwin, win[w])
        /\ win' = [win EXCEPT ![w] = Flushed(@)]
        /\ echoed' = echoed \ Sending(win[w])
        /\ UNCHANGED <<program, curscr, lastattr, shown, intact>>
  BY DEF wnoutrefresh
<1>2. Sound(win[w]) /\ OnScreen(win[w]) /\ Flat(tmpwin) /\ Pending(tmpwin, curscr, echoed)
  BY DEF ScreenInv
<1>3. Flat(tmpwin') /\ Pending(tmpwin', curscr, echoed')
  BY <1>1, <1>2, DesiredPends
<1>4. /\ \A z \in DOMAIN win' : Sound(win'[z]) /\ OnScreen(win'[z])
      /\ UNCHANGED <<[z \in DOMAIN win |-> Text(win[z])], [z \in DOMAIN win |-> <<win[z].begy, win[z].begx>>]>>
      /\ [z \in DOMAIN win |-> Dirty(win[z])]' = [[z \in DOMAIN win |-> Dirty(win[z])] EXCEPT ![w] = {}]
  BY <1>1, FlushedOnly
<1>5. CurscrIsShown'
  BY <1>1 DEF ScreenInv, CurscrIsShown
<1>6. ScreenInv'
  BY <1>1, <1>3, <1>4, <1>5 DEF ScreenInv
<1>7. Text(tmpwin)' = Shown!Sent(w) /\ echoed' = echoed \ Shown!Sending(w)
  BY <1>1, DesiredSent
<1>8. UNCHANGED <<Text(curscr), shown, intact>>
  BY <1>1
<1>9. Shown!Send(w)
  BY <1>4, <1>7, <1>8 DEF Shown!Send
<1> QED
  BY <1>6, <1>9 DEF Shown!Next, Shown!Created

\* After doupdate of tmpwin t.
LEMMA UpdatedInv ==
  ASSUME ScreenInv, NEW t, Flat(t), NEW keep, keep \subseteq Screen, Pending(t, curscr, keep),
         Updated(doupdate(t, curscr), keep), program' = program,
         \A z \in DOMAIN win' : Sound(win'[z]) /\ OnScreen(win'[z])
  PROVE  ScreenInv' /\ Text(tmpwin') = Text(t) /\ Shown!Painted(Text(t), keep, {})
<1>1. PICK u : u = doupdate(t, curscr)
  OBVIOUS
<1>2. Curscr(curscr) /\ DOMAIN shown = Screen /\ intact \in BOOLEAN
  BY DEF ScreenInv
<1>3. /\ Flat(u.tmpwin) /\ Text(u.tmpwin) = Text(t) /\ Curscr(u.curscr)
      /\ DOMAIN u.terminal.shown = Screen /\ u.terminal.intact \in BOOLEAN
      /\ Paints(t, curscr, keep, u)
      /\ Pending(u.tmpwin, u.curscr, IF u.cleared THEN {} ELSE keep)
  BY <1>1, <1>2, DoupdatePaints
<1>4. /\ echoed' = IF u.cleared THEN {} ELSE keep
      /\ tmpwin' = u.tmpwin /\ curscr' = u.curscr
      /\ shown' = u.terminal.shown /\ intact' = u.terminal.intact
  BY <1>1 DEF Updated
<1>5. u.terminal.intact => LikeShown(u.curscr, u.terminal.shown)
  BY <1>3, PaintsShow
<1>6. CurscrIsShown'
  BY <1>4, <1>5 DEF CurscrIsShown, LikeShown
<1>7. ScreenInv'
  BY <1>3, <1>4, <1>6 DEF ScreenInv
<1>8. Shown!Painted(Text(t), keep, {})
  BY <1>3, <1>4, PaintsPainted
<1> QED
  BY <1>3, <1>4, <1>7, <1>8

LEMMA UpdateUpdates ==
  ASSUME ScreenInv, update
  PROVE  ScreenInv' /\ Shown!Next
<1>1. Updated(doupdate(tmpwin, curscr), echoed) /\ program' = program /\ win' = win
  BY DEF update
<1>2. /\ Flat(tmpwin) /\ echoed \subseteq Screen /\ Pending(tmpwin, curscr, echoed)
      /\ \A z \in DOMAIN win' : Sound(win'[z]) /\ OnScreen(win'[z])
  BY <1>1 DEF ScreenInv
<1>3. ScreenInv' /\ Text(tmpwin') = Text(tmpwin) /\ Shown!Painted(Text(tmpwin), echoed, {})
  BY <1>1, <1>2, UpdatedInv
<1>4. UNCHANGED <<[z \in DOMAIN win |-> Text(win[z])], [z \in DOMAIN win |-> <<win[z].begy, win[z].begx>>],
                  [z \in DOMAIN win |-> Dirty(win[z])], Text(tmpwin)>>
  BY <1>1, <1>3
<1>5. Shown!Update
  BY <1>3, <1>4 DEF Shown!Update
<1> QED
  BY <1>3, <1>5 DEF Shown!Next

LEMMA WrefreshRefreshes ==
  ASSUME ScreenInv, wrefresh
  PROVE  ScreenInv' /\ Shown!Next
<1>1. PICK w \in DOMAIN win :
        /\ Updated(doupdate(Desired(tmpwin, win[w]), curscr), echoed \ Sending(win[w]))
        /\ win' = [win EXCEPT ![w] = Flushed(@)] /\ program' = program
  BY DEF wrefresh
<1>2. PICK t, keep : t = Desired(tmpwin, win[w]) /\ keep = echoed \ Sending(win[w])
  OBVIOUS
<1>3. Sound(win[w]) /\ OnScreen(win[w]) /\ Flat(tmpwin) /\ Pending(tmpwin, curscr, echoed) /\ echoed \subseteq Screen
  BY DEF ScreenInv
<1>4. Flat(t) /\ Pending(t, curscr, keep) /\ keep \subseteq Screen
  BY <1>2, <1>3, DesiredPends
<1>5. /\ \A z \in DOMAIN win' : Sound(win'[z]) /\ OnScreen(win'[z])
      /\ UNCHANGED <<[z \in DOMAIN win |-> Text(win[z])], [z \in DOMAIN win |-> <<win[z].begy, win[z].begx>>]>>
      /\ [z \in DOMAIN win |-> Dirty(win[z])]' = [[z \in DOMAIN win |-> Dirty(win[z])] EXCEPT ![w] = {}]
  BY <1>1, FlushedOnly
<1>6. ScreenInv' /\ Text(tmpwin') = Text(t) /\ Shown!Painted(Text(t), keep, {})
  BY <1>1, <1>2, <1>4, <1>5, UpdatedInv
<1>7. Text(t) = Shown!Sent(w) /\ keep = echoed \ Shown!Sending(w)
  BY <1>2, DesiredSent
<1>8. Shown!Painted(Text(tmpwin)', echoed \ Shown!Sending(w), {})
  BY <1>6, <1>7 DEF Shown!Painted
<1>9. Shown!Refresh(w)
  BY <1>5, <1>6, <1>7, <1>8 DEF Shown!Refresh
<1> QED
  BY <1>6, <1>9 DEF Shown!Next, Shown!Created

LEMMA RedrawRedraws ==
  ASSUME ScreenInv, redraw
  PROVE  ScreenInv' /\ (Shown!Next \/ UNCHANGED Shown!displayVars)
<1>1. /\ \A w \in DOMAIN win : Sound(win[w]) /\ OnScreen(win[w])
      /\ Flat(tmpwin) /\ Curscr(curscr) /\ DOMAIN shown = Screen
      /\ Pending(tmpwin, curscr, echoed) /\ echoed \subseteq Screen
  BY DEF ScreenInv
<1>2. CASE /\ Updated(doupdate(tmpwin, [curscr EXCEPT !.clear = TRUE]), echoed)
           /\ program' = program /\ win' = win
  <2>1. PICK u : u = doupdate(tmpwin, ToRepaint(curscr))
    OBVIOUS
  <2>2. /\ ~ u.cleared /\ u.tmpwin = tmpwin
        /\ Curscr(u.curscr) /\ Text(u.curscr) = Text(curscr)
        /\ u.terminal.shown = Text(curscr) /\ u.terminal.intact = TRUE
    <3>1. Repainted(tmpwin, curscr, u)
      BY <1>1, <2>1, RedrawPaints
    <3> QED
      BY <3>1 DEF Repainted
  <2>3. /\ echoed' = echoed /\ tmpwin' = tmpwin /\ curscr' = u.curscr
        /\ shown' = Text(curscr) /\ intact' = TRUE /\ win' = win /\ program' = program
    BY <1>2, <2>1, <2>2 DEF Updated, ToRepaint
  <2>4. DOMAIN shown' = Screen
    BY <1>1, <2>3, FlatText DEF Curscr
  <2>5. CurscrIsShown'
    BY <2>2, <2>3 DEF CurscrIsShown
  <2>6. \A q \in Screen : Cell(curscr', q[1], q[2]) = Cell(curscr, q[1], q[2])
    <3>1. Flat(curscr) /\ Flat(curscr')
      BY <1>1, <2>2, <2>3 DEF Curscr
    <3>2. \A q \in Screen : Text(curscr)[q] = Cell(curscr, q[1], q[2]) /\ Text(curscr')[q] = Cell(curscr', q[1], q[2])
      BY <3>1, FlatText
    <3> QED
      BY <2>2, <2>3, <3>2
  <2>7. Pending(tmpwin', curscr', echoed')
    BY <1>1, <2>3, <2>6 DEF Pending
  <2>8. ScreenInv'
    BY <1>1, <2>2, <2>3, <2>4, <2>5, <2>7 DEF ScreenInv
  <2>9. /\ shown' = Text(curscr) /\ intact'
        /\ UNCHANGED <<[z \in DOMAIN win |-> Text(win[z])], [z \in DOMAIN win |-> <<win[z].begy, win[z].begx>>],
                       [z \in DOMAIN win |-> Dirty(win[z])], Text(tmpwin), Text(curscr), echoed>>
    BY <2>2, <2>3
  <2>10. Shown!Redraw
    BY <2>9 DEF Shown!Redraw
  <2> QED
    BY <2>8, <2>10 DEF Shown!Next
<1>3. CASE /\ tmpwin' = [tmpwin EXCEPT !.clear = TRUE]
           /\ UNCHANGED <<program, win, curscr, Terminal>>
  <2>1. /\ program' = program /\ win' = win /\ curscr' = curscr
        /\ shown' = shown /\ intact' = intact /\ echoed' = echoed
    BY <1>3 DEF Terminal
  <2>2. Flat(tmpwin') /\ SameLines(tmpwin, tmpwin') /\ Text(tmpwin') = Text(tmpwin)
    BY <1>1, <1>3, FlagFlat
  <2>3. \A i, j : Cell(tmpwin', i, j) = Cell(tmpwin, i, j) /\ (Within(tmpwin', i, j) <=> Within(tmpwin, i, j))
    BY <2>2 DEF SameLines, Cell, Within
  <2>4. Pending(tmpwin', curscr', echoed')
    BY <1>1, <2>1, <2>3 DEF Pending
  <2>5. CurscrIsShown'
    BY <2>1 DEF ScreenInv, CurscrIsShown
  <2>6. ScreenInv'
    BY <2>1, <2>2, <2>4, <2>5 DEF ScreenInv
  <2>7. UNCHANGED Shown!displayVars
    BY <2>1, <2>2 DEF Shown!displayVars
  <2> QED
    BY <2>6, <2>7
<1> QED
  BY <1>2, <1>3 DEF redraw

LEMMA GarbleGarbles ==
  ASSUME ScreenInv, garble
  PROVE  ScreenInv' /\ Shown!Next
<1>1. /\ shown' = [q \in Screen |-> <<"?", 0>>] /\ intact' = FALSE
      /\ UNCHANGED <<program, win, tmpwin, curscr, lastattr, echoed>>
  BY DEF garble
<1>2. DOMAIN shown' = Screen /\ DOMAIN shown = Screen
  BY <1>1 DEF ScreenInv
<1>3. ScreenInv'
  BY <1>1, <1>2 DEF ScreenInv, CurscrIsShown
<1>4. UNCHANGED <<[z \in DOMAIN win |-> Text(win[z])], [z \in DOMAIN win |-> <<win[z].begy, win[z].begx>>],
                  [z \in DOMAIN win |-> Dirty(win[z])], Text(tmpwin), Text(curscr), echoed>>
  BY <1>1
<1>5. Shown!Garble
  BY <1>1, <1>2, <1>4 DEF Shown!Garble
<1> QED
  BY <1>3, <1>5 DEF Shown!Next

LEMMA WgetchTypes ==
  ASSUME ScreenInv, wgetch
  PROVE  ScreenInv' /\ Shown!Next
<1>a. PICK w \in DOMAIN win, k \in Letters :
         LET u == doupdate(Desired(tmpwin, win[w]), curscr)
             y == win[w].begy + win[w].cury  x == win[w].begx + win[w].curx
         IN  /\ "wgetch" \in program.calls
             /\ tmpwin' = u.tmpwin /\ intact' = u.terminal.intact
             /\ echoed' = (IF u.cleared THEN {} ELSE echoed \ Sending(win[w])) \cup {<<y, x>>}
             /\ shown' = [u.terminal.shown EXCEPT ![<<y, x>>] = <<k, lastattr'>>]
             /\ curscr' = waddch(wmove(u.curscr, y, x), k)
             /\ win' = [win EXCEPT ![w] = waddch(Flushed(@), k)]
             /\ program' = program
  BY DEF wgetch, Call
<1>b. PICK t, keep, y, x : /\ t = Desired(tmpwin, win[w]) /\ keep = echoed \ Sending(win[w])
                            /\ y = win[w].begy + win[w].cury /\ x = win[w].begx + win[w].curx
  OBVIOUS
<1>c. PICK u : u = doupdate(t, curscr)
  OBVIOUS
<1>1. /\ t = Desired(tmpwin, win[w]) /\ keep = echoed \ Sending(win[w])
      /\ u = doupdate(t, curscr)
      /\ y = win[w].begy + win[w].cury /\ x = win[w].begx + win[w].curx
      /\ "wgetch" \in program.calls
      /\ tmpwin' = u.tmpwin /\ intact' = u.terminal.intact
      /\ echoed' = (IF u.cleared THEN {} ELSE keep) \cup {<<y, x>>}
      /\ shown' = [u.terminal.shown EXCEPT ![<<y, x>>] = <<k, lastattr'>>]
      /\ curscr' = waddch(wmove(u.curscr, y, x), k)
      /\ win' = [win EXCEPT ![w] = waddch(Flushed(@), k)]
      /\ program' = program
  BY <1>a, <1>b, <1>c
<1>2. PICK o, f, v : o = win[w] /\ f = Flushed(o) /\ v = waddch(f, k)
  OBVIOUS
<1>3. Sound(o) /\ OnScreen(o) /\ Flat(tmpwin) /\ Pending(tmpwin, curscr, echoed) /\ echoed \subseteq Screen
      /\ Curscr(curscr) /\ DOMAIN shown = Screen /\ intact \in BOOLEAN
  BY <1>2 DEF ScreenInv
<1>4. Flat(t) /\ Pending(t, curscr, keep)
  BY <1>1, <1>2, <1>3, DesiredPends
<1>5. /\ Flat(u.tmpwin) /\ Text(u.tmpwin) = Text(t) /\ Curscr(u.curscr)
      /\ DOMAIN u.terminal.shown = Screen /\ u.terminal.intact \in BOOLEAN
      /\ Paints(t, curscr, keep, u)
      /\ Pending(u.tmpwin, u.curscr, IF u.cleared THEN {} ELSE keep)
  BY <1>1, <1>3, <1>4, DoupdatePaints
<1>6. y \in 0 .. LINES - 1 /\ x \in 0 .. COLS - 1
  <2>1. /\ o.begy \in Nat /\ o.begx \in Nat /\ o.cury \in Nat /\ o.cury <= o.maxy /\ o.curx \in 0 .. o.maxx
        /\ o.maxy \in Nat /\ o.maxx \in Nat /\ LINES \in Nat /\ COLS \in Nat
        /\ o.begy + o.maxy <= LINES - 1 /\ o.begx + o.maxx <= COLS - 1
    BY <1>3, ScreenAssumption DEF Sound, Framed, Pointed, OnScreen
  <2>2. o.begy + o.cury \in 0 .. LINES - 1
    BY <2>1
  <2>3. o.begx + o.curx \in 0 .. COLS - 1
    BY <2>1
  <2> QED
    BY <1>1, <1>2, <2>2, <2>3
<1>7. PICK p, c : p = <<y, x>> /\ c = u.curscr
  OBVIOUS
<1>8. p \in Screen
  BY <1>6, <1>7 DEF Screen
<1>9. /\ Curscr(curscr')
      /\ \A i \in 0 .. LINES - 1, j \in 0 .. COLS - 1 :
           IF i = y /\ j = x THEN Cell(curscr', i, j)[1] = k ELSE Cell(curscr', i, j) = Cell(c, i, j)
  <2>1. curscr' = waddch(wmove(c, y, x), k) /\ Curscr(c)
    BY <1>1, <1>5, <1>7
  <2> QED
    BY <1>6, <2>1, TypedIs, ProgramAssumption
<1>10. ASSUME NEW q \in Screen
       PROVE  /\ IF q = p THEN Text(curscr')[q][1] = k ELSE Text(curscr')[q] = Text(c)[q]
              /\ q # p => Cell(curscr', q[1], q[2]) = Cell(c, q[1], q[2])
              /\ IF q = p THEN shown'[q][1] = k ELSE shown'[q] = u.terminal.shown[q]
  <2>1. /\ q[1] \in 0 .. LINES - 1 /\ q[2] \in 0 .. COLS - 1
        /\ Text(c)[q] = Cell(c, q[1], q[2])
    BY <1>5, <1>7, FlatText DEF Curscr
  <2>2. Text(curscr')[q] = Cell(curscr', q[1], q[2])
    BY <1>9, FlatText DEF Curscr
  <2>3. q = p <=> q[1] = y /\ q[2] = x
    BY <1>7 DEF Screen
  <2>4. IF q = p THEN shown'[q][1] = k ELSE shown'[q] = u.terminal.shown[q]
    BY <1>1, <1>5, <1>7
  <2> QED
    BY <1>9, <2>1, <2>2, <2>3, <2>4
<1>11. DOMAIN shown' = Screen
  BY <1>1, <1>5
<1>12. CurscrIsShown'
  <2>1. intact' => LikeShown(c, u.terminal.shown)
    BY <1>1, <1>5, <1>7, PaintsShow
  <2> QED
    BY <1>1, <1>10, <2>1 DEF CurscrIsShown, LikeShown
<1>13. Pending(tmpwin', curscr', echoed')
  BY <1>1, <1>5, <1>7, <1>10 DEF Pending
<1>14. Draws(f, v)
  <2>1. Sound(f)
    BY <1>2, <1>3, FlushedIs
  <2> QED
    BY <1>2, <2>1, WaddchDraws DEF Printed
<1>15. win' = [win EXCEPT ![w] = v]
  BY <1>1, <1>2
<1>16. /\ DOMAIN win' = DOMAIN win /\ win'[w] = v
       /\ \A z \in DOMAIN win' : Sound(win'[z]) /\ OnScreen(win'[z])
       /\ UNCHANGED [z \in DOMAIN win |-> <<win[z].begy, win[z].begx>>]
       /\ Shown!Others(w) /\ w \in DOMAIN [z \in DOMAIN win |-> Text(win[z])]'
       /\ Remembers(o, v, {})
  BY <1>2, <1>14, <1>15, FlushedWindow
<1>17. echoed' \subseteq Screen
  BY <1>1, <1>3, <1>7, <1>8
<1>18. ScreenInv'
  BY <1>1, <1>3, <1>5, <1>9, <1>11, <1>12, <1>13, <1>16, <1>17 DEF ScreenInv
<1>19. Shown!TypeOK'
  BY <1>18, ScreenTypedNext
<1>20. Shown!Drawn(w, {})
  BY <1>2, <1>16 DEF Shown!Drawn, Remembers
<1>21. Text(tmpwin)' = Text(t) /\ Text(t) = Shown!Sent(w) /\ keep = echoed \ Shown!Sending(w)
  BY <1>1, <1>5, DesiredSent
<1>22. Shown!Painted(Text(t), keep, {p})
  BY <1>1, <1>4, <1>5, <1>7, <1>10, PaintsPainted
<1>23. Shown!Painted(Text(tmpwin)', echoed \ Shown!Sending(w), {p})
  BY <1>21, <1>22 DEF Shown!Painted
<1>24. Text(curscr)'[p][1] = shown'[p][1]
  BY <1>8, <1>10
<1>25. Shown!Type(w, p)
  BY <1>16, <1>19, <1>20, <1>21, <1>23, <1>24 DEF Shown!Type
<1> QED
  BY <1>3, <1>8, <1>18, <1>25 DEF Shown!Next, Shown!Created

LEMMA FullIsFlat ==
  ASSUME NEW full, full = NewWindow(LINES, COLS, 0, 0)
  PROVE  Curscr(full) /\ OnScreen(full) /\ Dirty(full) = DOMAIN Text(full)
<1>1. LINES \in Nat \ {0} /\ COLS \in Nat \ {0} /\ 0 \in Nat
  BY ScreenAssumption
<1>2. /\ Sound(full) /\ full.maxy = LINES - 1 /\ full.maxx = COLS - 1 /\ full.begy = 0 /\ full.begx = 0
      /\ \A i \in 0 .. LINES - 1, j \in 0 .. COLS - 1 : Within(full, i, j)
  <2>1. Opened(full, LINES, COLS, 0, 0)
    BY <1>1, NewWindowSound
  <2> QED
    BY <2>1 DEF Opened
<1>3. /\ full.line = [i \in 0 .. LINES - 1 |-> i] /\ full.regtop = 0 /\ full.regbottom = LINES - 1
      /\ full.clear = FALSE /\ full.scroll = FALSE
  BY DEF NewWindow
<1>4. Curscr(full)
  BY <1>2, <1>3 DEF Curscr, Flat
<1>5. OnScreen(full)
  BY <1>1, <1>2 DEF OnScreen
<1>6. Dirty(full) = DOMAIN Text(full)
  <2>1. \A p \in Cells(full) : p \in Dirty(full)
    BY <1>2, DirtyIs
  <2> QED
    BY <1>2, <2>1, DirtyIs
<1> QED
  BY <1>4, <1>5, <1>6

LEMMA ScreenStarts ==
  ASSUME ScreenInit
  PROVE  ScreenInv /\ Shown!Init
<1>1. PICK full : full = NewWindow(LINES, COLS, 0, 0)
  OBVIOUS
<1>2. /\ program \in Programs /\ win = [w \in {"stdscr"} |-> full]
      /\ tmpwin = [full EXCEPT !.clear = TRUE] /\ curscr = full
      /\ intact = FALSE /\ echoed = {} /\ shown = [q \in Screen |-> <<"?", 0>>]
  BY <1>1 DEF ScreenInit
<1>3. Curscr(full) /\ Flat(full) /\ Sound(full) /\ OnScreen(full) /\ Dirty(full) = DOMAIN Text(full)
  BY <1>1, FullIsFlat DEF Curscr, Flat
<1>4. Flat(tmpwin) /\ SameLines(full, tmpwin)
  BY <1>2, <1>3, FlagFlat
<1>5. Pending(tmpwin, curscr, echoed)
  BY <1>2, <1>4 DEF Pending, SameLines, Cell
<1>6. ScreenInv
  BY <1>2, <1>3, <1>4, <1>5 DEF ScreenInv, CurscrIsShown
<1>7. Shown!TypeOK
  BY <1>6, ScreenTyped
<1>8. Shown!Init
  BY <1>2, <1>3, <1>7 DEF Shown!Init, Shown!Created
<1> QED
  BY <1>6, <1>8

LEMMA ScreenSteps ==
  ASSUME ScreenInv, [ScreenNext]_vars
  PROVE  ScreenInv' /\ [Shown!Next]_(Shown!displayVars)
<1>1. CASE Write
  BY <1>1, WriteReplaces, ReplacesDraws
<1>2. CASE Erase
  BY <1>2, EraseReplaces, ReplacesDraws
<1>3. CASE Arrange
  BY <1>3, ArrangeReplaces, ReplacesDraws
<1>4. CASE newwin
  BY <1>4, NewwinOpens
<1>5. CASE delwin
  BY <1>5, DelwinCloses
<1>6. CASE wnoutrefresh
  BY <1>6, WnoutrefreshSends
<1>7. CASE update
  BY <1>7, UpdateUpdates
<1>8. CASE wrefresh
  BY <1>8, WrefreshRefreshes
<1>9. CASE redraw
  BY <1>9, RedrawRedraws
<1>10. CASE wgetch
  BY <1>10, WgetchTypes
<1>11. CASE garble
  BY <1>11, GarbleGarbles
<1>12. CASE UNCHANGED vars
  <2>1. /\ program' = program /\ win' = win /\ tmpwin' = tmpwin /\ curscr' = curscr
        /\ shown' = shown /\ intact' = intact /\ echoed' = echoed
    BY <1>12 DEF vars
  <2>2. ScreenInv'
    BY <2>1 DEF ScreenInv, CurscrIsShown
  <2>3. UNCHANGED Shown!displayVars
    BY <2>1 DEF Shown!displayVars
  <2> QED
    BY <2>2, <2>3
<1> QED
  BY <1>1, <1>2, <1>3, <1>4, <1>5, <1>6, <1>7, <1>8, <1>9, <1>10, <1>11, <1>12 DEF ScreenNext

\* The invariant holds in every state: every action keeps it.
LEMMA ScreenInvariant == ScreenSpec => []ScreenInv
<1>1. ScreenInit => ScreenInv
  BY ScreenStarts
<1>2. ScreenInv /\ [ScreenNext]_vars => ScreenInv'
  BY ScreenSteps
<1> QED
  BY <1>1, <1>2, PTL DEF ScreenSpec

\* Every line of every window points to a row of its own, whatever is scrolled,
\* inserted, deleted, moved or arranged: delwin frees each row once.
THEOREM RowsOwnedOnceHolds == ScreenSpec => []RowsOwnedOnce
<1>1. ScreenInv => RowsOwnedOnce
  BY DEF ScreenInv, Sound, Lined, RowsOwnedOnce, Rows
<1> QED
  BY <1>1, ScreenInvariant, PTL

\* The terminal shows what curscr says as long as nothing else has written on it
\* since it was painted whole: what doupdate leaves unpainted is there already.
THEOREM CurscrIsShownHolds == ScreenSpec => []CurscrIsShown
<1>1. ScreenInv => CurscrIsShown
  BY DEF ScreenInv
<1> QED
  BY <1>1, ScreenInvariant, PTL

\* The library implements Display: no call loses a change of a window, what
\* wnoutrefresh sends is what changed, and doupdate paints all that differs.
THEOREM IsADisplayHolds == ScreenSpec => IsADisplay
<1>1. ScreenInit => Shown!Init
  BY ScreenStarts
<1>2. ScreenInv /\ [ScreenNext]_vars => [Shown!Next]_(Shown!displayVars)
  BY ScreenSteps
<1> QED
  BY <1>1, <1>2, ScreenInvariant, PTL DEF ScreenSpec, IsADisplay, Shown!Spec
=============================================================================
