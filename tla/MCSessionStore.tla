--------------------------- MODULE MCSessionStore ---------------------------
(***************************************************************************)
(* Instances of SessionStore for TLC.  A run chooses how many commands of  *)
(* which kind there are by the model values it gives to Starts, Resizes... *)
(***************************************************************************)
EXTENDS SessionStore

CONSTANTS Starts, Resizes, Stops, Resolves, Prunes

MCProcs == Starts \cup Resizes \cup Stops \cup Resolves \cup Prunes
MCCommand == [p \in MCProcs |-> CASE p \in Starts   -> "start"
                                  [] p \in Resizes  -> "resize"
                                  [] p \in Stops    -> "stop"
                                  [] p \in Resolves -> "resolve"
                                  [] p \in Prunes   -> "prune"]

\* With one command of each kind, three at a time: the ones that write what the
\* third reads.
MCTogether == IF \A kind \in {Starts, Resizes, Stops, Resolves, Prunes} : kind # {}
                THEN {Starts \cup Stops \cup Resolves,
                      Starts \cup Stops \cup Prunes,
                      Resizes \cup Stops \cup Prunes}
                ELSE {MCProcs}
=============================================================================
