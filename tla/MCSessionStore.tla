--------------------------- MODULE MCSessionStore ---------------------------
(* Two engines that share a session of two turns, or of none.                *)
EXTENDS SessionStore, TLC

CONSTANTS e1, e2, t1, t2

TwoTurnsOrNone == {[turns |-> {t1, t2}, pins |-> {}, flags |-> {}],
                   [turns |-> {}, pins |-> {}, flags |-> {}]}

(* No engine and no turn is told from the other.                            *)
AnyEngineAnyTurn == Permutations(Engines) \cup Permutations(Turns)

=============================================================================
