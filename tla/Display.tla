------------------------------ MODULE Display ------------------------------
(***************************************************************************)
(* What curses promises: programs draw in windows, wnoutrefresh sends what *)
(* changed in a window to the desired screen, doupdate makes the terminal  *)
(* show the desired screen by painting the cells that differ from what it  *)
(* believes to be shown.                                                   *)
(***************************************************************************)
EXTENDS Integers

VARIABLES
    text,           \* window -> its cell -> glyph, <<character, attributes>>
    at,             \* window -> its origin on the screen
    dirty,          \* window -> cells that the next wnoutrefresh sends
    desired,        \* cell of the screen -> glyph
    image,          \* what curses believes the terminal shows
    shown,          \* what it shows
    intact,         \* nothing else has written on it since it was painted whole
    echoed          \* cells that show a key the terminal echoed, not yet sent

displayVars == <<text, at, dirty, desired, image, shown, intact, echoed>>

Created == DOMAIN text
On(w, cell) == <<at[w][1] + cell[1], at[w][2] + cell[2]>>

TypeOK ==
    /\ DOMAIN dirty = Created /\ DOMAIN at = Created
    /\ \A w \in Created :
         /\ dirty[w] \subseteq DOMAIN text[w]
         /\ \A cell \in DOMAIN text[w] : On(w, cell) \in DOMAIN desired
    /\ DOMAIN image = DOMAIN desired /\ DOMAIN shown = DOMAIN desired
    /\ intact \in BOOLEAN /\ echoed \subseteq DOMAIN desired

Init == TypeOK /\ \A w \in Created : dirty[w] = DOMAIN text[w]

-----------------------------------------------------------------------------

Others(w) ==
    /\ Created \ {w} = DOMAIN text' \ {w}
    /\ \A v \in Created \ {w} :
         text'[v] = text[v] /\ at'[v] = at[v] /\ dirty'[v] = dirty[v]

\* The program draws in w, or moves it: no change is forgotten.
Drawn(w, before) ==
    /\ before \cup {cell \in DOMAIN text[w] : text'[w][cell] # text[w][cell]}
         \subseteq dirty'[w]
    /\ at'[w] # at[w] => dirty'[w] = DOMAIN text[w]

Draw(w) ==
    /\ TypeOK' /\ w \in DOMAIN text' /\ Others(w) /\ Drawn(w, dirty[w])
    /\ UNCHANGED <<desired, image, shown, intact, echoed>>

Open(w) ==
    /\ w \notin Created
    /\ TypeOK' /\ w \in DOMAIN text' /\ Others(w) /\ dirty'[w] = DOMAIN text'[w]
    /\ UNCHANGED <<desired, image, shown, intact, echoed>>

Close(w) ==
    /\ w \notin DOMAIN text' /\ Others(w)
    /\ UNCHANGED <<desired, image, shown, intact, echoed>>

Sending(w) == {On(w, cell) : cell \in dirty[w]}

\* The desired screen with what changed in w.
Sent(w) ==
    [p \in DOMAIN desired |->
        LET cell == <<p[1] - at[w][1], p[2] - at[w][2]>>
        IN  IF cell \in dirty[w] THEN text[w][cell] ELSE desired[p]]

Send(w) ==
    /\ desired' = Sent(w)
    /\ dirty' = [dirty EXCEPT ![w] = {}]
    /\ echoed' = echoed \ Sending(w)
    /\ UNCHANGED <<text, at, image, shown, intact>>

\* The terminal and its image get to be like screen s: all of it is painted, or at
\* least the cells that are not believed to be shown.  Echoed keys, the cells keep,
\* may stay.  The cells but are left to the caller.
Painted(s, keep, but) ==
    \/ /\ intact' /\ echoed' = but
       /\ \A p \in DOMAIN s \ but : image'[p] = s[p] /\ shown'[p] = s[p]
    \/ /\ intact' = intact /\ echoed' = keep \cup but
       /\ \A p \in DOMAIN s \ but :
            \/ image'[p] = s[p] /\ (shown'[p] = s[p] \/ (shown'[p] = shown[p] /\ image[p] = s[p]))
            \/ p \in keep /\ image'[p] = image[p] /\ shown'[p] = shown[p]

\* doupdate: the terminal is made to show the desired screen.
Update ==
    /\ Painted(desired, echoed, {})
    /\ UNCHANGED <<text, at, dirty, desired>>

\* doupdate after wrefresh(curscr): what is believed to be shown is painted anew.
Redraw == shown' = image /\ intact' /\ UNCHANGED <<text, at, dirty, desired, image, echoed>>

\* wrefresh(w)
Refresh(w) ==
    /\ desired' = Sent(w) /\ dirty' = [dirty EXCEPT ![w] = {}]
    /\ Painted(desired', echoed \ Sending(w), {})
    /\ UNCHANGED <<text, at>>

\* wgetch(w) with a key that the terminal echoes at cell p: a refresh, then
\* the character appears on the terminal, in the image and in w.
Type(w, p) ==
    /\ desired' = Sent(w)
    /\ Painted(desired', echoed \ Sending(w), {p}) /\ image'[p][1] = shown'[p][1]
    /\ TypeOK' /\ w \in DOMAIN text' /\ Others(w) /\ Drawn(w, {}) /\ UNCHANGED at

\* Something else writes on the terminal.
Garble ==
    /\ ~ intact' /\ DOMAIN shown' = DOMAIN shown
    /\ UNCHANGED <<text, at, dirty, desired, image, echoed>>

Next ==
    \/ \E w \in Created :
         Draw(w) \/ Close(w) \/ Send(w) \/ Refresh(w) \/ \E p \in DOMAIN shown : Type(w, p)
    \/ \E w \in DOMAIN text' : Open(w)
    \/ Update \/ Redraw \/ Garble

Spec == Init /\ [][Next]_displayVars
=============================================================================
