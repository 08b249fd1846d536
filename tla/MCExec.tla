------------------------------- MODULE MCExec -------------------------------
(* FUZIX binaries "sh", "rls" ("ls" under FUZIXROOT) and "big", whose BSS ends *)
(* where the arguments are, and "vi", which is one for the host.  The emulator *)
(* starts with and without options.                                          *)
EXTENDS Exec

At(a, s) == [addr |-> a, sym |-> s]

\* Out of order; two symbols at one address and one at 0; one at the end.
ShMap == <<At(3, "main"), At(1, "start")>>
TiesMap == <<At(0, "start"), At(2, "a"), At(2, "b"), At(4, "end")>>
LastMap == <<At(5, "main"), At(2, "start"), At(6, "end")>>

MCMapFiles == {ShMap, TiesMap, LastMap, <<>>}

MCBytes == [s \in {"sh", "ls", "rls", "big", "vi", "x", "empty", "none", Emuname}
                    \cup {"-mlast", "-mgone", "-mnil"} |->
              CASE s \in {"sh", "ls", "vi"} -> 3 [] s \in {"rls", "none"} -> 4
                [] s = "empty" -> 1 [] OTHER -> 2]
MCRooted == [s \in DOMAIN MCBytes |-> IF s = "ls" THEN "rls" ELSE s]

MCImages == [s \in {"sh", "rls", "big"} |->
               CASE s = "sh" -> [bssend |-> 5, map |-> <<ShMap>>]
                 [] s = "rls" -> [bssend |-> 9, map |-> <<TiesMap>>]
                 [] OTHER -> [bssend |-> 54, map |-> <<>>]]

MCOptions == [o \in {"-mlast", "-mgone", "-mnil"} |->
                CASE o = "-mlast" -> <<LastMap>> [] o = "-mnil" -> <<<<>>>> [] OTHER -> <<>>]

MCCommandLines ==
    {<<Emuname, "sh">>, <<Emuname, "rls", "x">>, <<Emuname, "none">>,
     <<Emuname, "-mlast", "sh", "x">>, <<Emuname, "-mgone", "sh">>,
     <<Emuname, "-mgone", "-mnil", "rls">>}

MCCalls ==
    {[path |-> "ls", argv |-> <<"ls", "x", "empty">>],
     [path |-> "sh", argv |-> <<"sh">>],
     [path |-> "big", argv |-> <<"x", "vi">>],
     [path |-> "vi", argv |-> <<"vi", "x">>],
     [path |-> "none", argv |-> <<"none">>]}

MCRequests == {1, 7, 32, 33, 63}
MCEnvp == <<"none">>
=============================================================================
