---------------------------- MODULE Compression -----------------------------
(***************************************************************************)
(* The content scripts with the passes that they compress texts with:      *)
(* Extension, where only the length of a text counts, and Squeeze.         *)
(*                                                                         *)
(* What the passes do to a text does not depend on the state; the          *)
(* properties about it are asked of the initial state, once.               *)
(***************************************************************************)
EXTENDS Extension, Squeeze

CONSTANT Document  \* Document[x]: what Squeeze looks at in the text x

ASSUME DocumentAssumption ==
    /\ Document \in [Texts -> Documents]
    /\ Length = [x \in Texts |-> LengthOf(Document[x].units)]
    /\ Js = [x \in Texts |-> SqueezedLength(Document[x])]

(* Of a log, every line that is not empty is still accounted for when       *)
(* repetitions have been counted, empty lines taken out and paths made      *)
(* shorter.                                                                *)
LogsAreCounted ==
    Init => \A x \in Documents :
                Classify(x) = "log" => Accounts(Passes(x), Len(x.units), x.units)

(* The sentences of any other text keep their order.  One that goes is near *)
(* an earlier one that stays, or pruning could drop it, which it does with  *)
(* at most 15 % of prose; and of the sentences of code lines go only with a *)
(* comment, that of the text itself unless sentences were joined.           *)
AllLossesAreExpendable ==
    Init => \A x \in Documents :
                LET once == Once(x)
                    left == Passes(x)
                IN  Classify(x) \in {"code", "markdown", "prose"} =>
                        /\ InOrder(left)
                        /\ \A i \in DOMAIN x.units \ Ids(once) : NearKept(x, i)
                        /\ IF Classify(x) = "code"
                           THEN \A k \in DOMAIN once : \A j \in DOMAIN once[k].lines :
                                   Lost(left, once[k].id, j) => CommentMayGo(x, k, j)
                           ELSE /\ \A i \in Ids(once) \ Ids(left) : MayBePruned(x, i)
                                /\ 100 * Cardinality(Ids(once) \ Ids(left))
                                      <= 15 * Cardinality(Ids(once))

(* Squeezing makes no text longer, JSON that is returned without being      *)
(* compared with the input included.                                       *)
NothingIsLengthened ==
    Init => \A x \in Documents : SqueezedLength(x) <= LengthOf(x.units)

=============================================================================
