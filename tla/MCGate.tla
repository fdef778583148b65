------------------------------- MODULE MCGate -------------------------------
(***************************************************************************)
(* A small instance of Gate: two sticks of one make and size, which share  *)
(* all but their serial numbers, and one of another make that has none.    *)
(***************************************************************************)
EXTENDS Gate, TLC

CONSTANTS a, b, c, ida, idb, idc, blank, blankc, make, other, m1

MCSticks   == {a, b, c}
MCIds      == {ida, idb, idc, blank, blankc}
MCIdOf     == a :> ida @@ b :> idb @@ c :> idc
MCBlankOf  == a :> blank @@ b :> blank @@ c :> blankc
MCTokens   == {"product", "serial"}
MCValues   == {make, other, a, b}
MCTokensOf == a :> [product |-> make, serial |-> a] @@ b :> [product |-> make, serial |-> b]
              @@ c :> [product |-> other, serial |-> None]
MCMachines == {m1}
MCPolicies == {[expires |-> None, limit |-> None, once |-> TRUE],
               [expires |-> 2, limit |-> 2, once |-> FALSE]}
=============================================================================
