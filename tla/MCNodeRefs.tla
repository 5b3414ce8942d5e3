----------------------------- MODULE MCNodeRefs -----------------------------
(* Small instances of NodeRefs for TLC.                                    *)
EXTENDS NodeRefs, TLC

CONSTANTS c1, c2

MCCallers == {c1, c2}
Sym == Permutations(MCCallers)

(* A window with a container, a menu and an item; the same after the       *)
(* menu opened and moved the numbers; and with the item renamed.           *)
Plainly == <<0>> :> "box" @@ <<0, 0>> :> "menu" @@ <<0, 1>> :> "item"
Shifted == <<0>> :> "box" @@ <<0, 0>> :> "menu" @@ <<0, 0, 0>> :> "sub"
           @@ <<0, 1>> :> "item"
Renamed == <<0>> :> "box" @@ <<0, 0>> :> "menu" @@ <<0, 1>> :> "sub"
MCScreens == {Plainly, Shifted, Renamed}

MCFaults == {[gone |-> {}, mute |-> {}]}
            \cup {[gone |-> {p}, mute |-> {}] : p \in {<<0, 0>>}}
            \cup {[gone |-> {}, mute |-> {p}] : p \in {<<0, 0>>}}
MCPlain == {"box"}
MCInert == {"box"}
MCWanted == {"item"}
MCMenuPaths == {<<"menu", "sub">>}
=============================================================================
