----------------------------- MODULE MCConsole -----------------------------
(***************************************************************************)
(* Messages for Console, and a buffer that is too short for some of them.  *)
(* The main loop prints numbers of every width, the highest bit alone, all *)
(* bits below it, and what those are as negative numbers.                  *)
(***************************************************************************)
EXTENDS Console

Values == {{}} \cup {{k} : k \in 0 .. 31} \cup {0 .. k : k \in 0 .. 31}

MCMainMessages ==
    {<<Num(conversion, 0, v)>> : conversion \in {"d", "X"}, v \in Values} \cup
    {<<Char, Num("X", 8, {3}), Char, Num("X", 2, {}), Char>>, <<Char, Char>>}

MCUsbMessages == {<<Char, Num("d", 0, {4}), Char, Num("d", 0, {})>>, <<Char>>,
                  <<Num("X", 8, {0}), Char, Num("X", 8, {0})>>}

=============================================================================
