---------------------------- MODULE MCDedupCache ----------------------------
(* Instances of DedupCache for TLC.                                         *)
EXTENDS DedupCache, TLC

CONSTANTS f1, f2

NoDeps == [x \in Content |-> {}]
F1ImportsF2 == [x \in Content |-> IF x = f1 THEN {f2} \cap Content ELSE {}]
EachImportsTheOther == [x \in Content |-> Content \ {x}]
NoneNear == {}
F1NearF2 == {<<f1, f2>>, <<f2, f1>>}

(* Deps and Near treat both contents alike.                                 *)
AnyContent == Permutations(Content)

=============================================================================
