---------------------------- MODULE MCScenarioRun ----------------------------
(***************************************************************************)
(* Instances of ScenarioRun for TLC: documents of one or two steps between *)
(* an optional start and an optional stop, with and without cleanup.       *)
(***************************************************************************)
EXTENDS ScenarioRun, TLC
CONSTANTS r1, r2

MCIds == {"start", "f", "g"}
S(id, kind, source, strict) ==
  [id |-> id, kind |-> kind, source |-> source, strict |-> strict]

Start == S("start", "start_session", "start", FALSE)
Find == S("f", "find", "f", FALSE)
MustFind == S("f", "find", "f", TRUE)
Scroll == S("f", "scroll_into_view", "f", TRUE)
Act == S("g", "action", "f", FALSE)
Wait == S("g", "wait", "g", TRUE)
Type == S("g", "input", "g", FALSE)
Check == S("g", "assert", "f", FALSE)
Pause == S("g", "sleep", "g", FALSE)
Stop == S("g", "stop_session", "g", FALSE)

Bodies == {<<Find, Act>>, <<MustFind, Act>>, <<Scroll, Act>>, <<Find, Check>>,
           <<Wait>>, <<Type, Pause>>, <<Act>>, <<Find, Act, Stop>>}
Documents == {[steps |-> head \o body, cleanup |-> cleanup] :
                head \in {<<>>, <<Start>>}, body \in Bodies,
                cleanup \in {<<>>, <<Check, Stop>>, <<Act, Stop>>}}
MCScenarios == {d \in Documents : Valid(d)}
MCSymmetry == Permutations(Runs) \cup Permutations(Sessions)
=============================================================================
