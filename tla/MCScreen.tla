------------------------------ MODULE MCScreen ------------------------------
(* A terminal of 3 x 2 and windows of one or two lines upon it.  Programs    *)
(* differ in the functions they use, so that each combination is explored    *)
(* to the same depth.                                                        *)
EXTENDS Screen

Program(functions, windows) == [calls |-> functions, windows |-> windows]
Window(rows, cols, y, x) == [rows |-> rows, cols |-> cols, y |-> y, x |-> x]

MCPrograms ==
    {Program({"waddch", "control", "wmove", "scrollok", "wsetscrreg", "scroll", "wrefresh"}, {}),
     Program({"waddch", "wmove", "wattrset", "winsch", "wdelch", "wclrtoeol", "wrefresh"}, {}),
     Program({"waddch", "wmove", "wsetscrreg", "winsertln", "wdeleteln", "wclrtobot",
              "werase", "wclear", "wrefresh"}, {}),
     Program({"wbox", "control", "wclrtobot", "wrefresh"}, {}),
     Program({"waddch", "newwin", "delwin", "mvwin", "touchwin", "wnoutrefresh", "doupdate"},
             {Window(2, 2, 1, 0), Window(2, 1, 0, 1)}),
     Program({"waddch", "newwin", "overlay", "overwrite", "wattrset", "wrefresh"},
             {Window(1, 2, 0, 0)}),
     Program({"waddch", "wgetch", "newwin", "wnoutrefresh", "redraw", "wattrset", "clearok", "garble"},
             {Window(1, 1, 1, 0)})}
=============================================================================
