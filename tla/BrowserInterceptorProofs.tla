---------------------- MODULE BrowserInterceptorProofs ----------------------
(***************************************************************************)
(* Proofs about BrowserInterceptor, for every set of texts, every answer   *)
(* of the background and of the JavaScript passes, every threshold and any *)
(* number of pastes in compression.  Liveness is left to TLC.              *)
(***************************************************************************)
EXTENDS BrowserInterceptor, TLAPS

-----------------------------------------------------------------------------
(* Types of the helpers.                                                    *)

(* A text has a number of tokens.                                           *)
LEMMA TokensType == ASSUME NEW t \in Texts PROVE TokensOf(t) \in Nat
<1>1. Length[t] \in Nat
  BY TextsAssumption
<1>. QED  BY <1>1 DEF TokensOf

(* The compression of a text is a text: never null.                         *)
LEMMA OutcomesType == ASSUME NEW t \in Texts PROVE Outcomes(t) \subseteq Texts
BY TextsAssumption DEF Outcomes

(* What a look at a text leaves in the variables that Check changes.        *)
LEMMA CheckType ==
    ASSUME TypeOK, NEW t \in Texts, NEW last \in TextOrNone, Check(last, t)
    PROVE  /\ job' \in TextOrNone
           /\ lastCompressedText' \in TextOrNone
           /\ lastStableTokens' \in Nat
           /\ stableCount' \in 0..3
           /\ tries' \in Nat
<1>1. Recount(t) \in 0..3
  BY DEF TypeOK, Recount
<1>. QED  BY <1>1, TokensType DEF TypeOK, Check, TextOrNone

(* So does a look that shows or hides the banner.                           *)
LEMMA ShownType ==
    ASSUME TypeOK, NEW t, NEW last, Shown(last, t)
    PROVE  pendingCompressed' \in TextOrNone /\ banner' \in TextOrNone
BY DEF TypeOK, Shown, TextOrNone

(* The variables that Write and Becomes change, pending and banner apart.   *)
EditorTypes ==
    /\ text \in Texts
    /\ job \in TextOrNone
    /\ lastCompressedText \in TextOrNone
    /\ lastStableTokens \in Nat
    /\ stableCount \in 0..3
    /\ written \in BOOLEAN
    /\ tries \in Nat

(* setText leaves the editor well typed, whether or not it throws.          *)
LEMMA WriteType ==
    ASSUME TypeOK, NEW c \in Texts, Write(c)
    PROVE  EditorTypes'
<1>1. CASE \E u \in Texts : text' = u /\ written' = (Trim[u] = Trim[c]) /\ Check(c, u)
  BY <1>1, CheckType DEF EditorTypes, TextOrNone
<1>2. CASE lastCompressedText' = c /\ written' = FALSE
           /\ UNCHANGED <<text, job, lastStableTokens, stableCount, tries>>
  BY <1>2 DEF TypeOK, EditorTypes, TextOrNone
<1>. QED  BY <1>1, <1>2 DEF Write

(* So does an edit, with the banner and the pending text.                   *)
LEMMA BecomesType ==
    ASSUME TypeOK, NEW u \in Texts, Becomes(u)
    PROVE  EditorTypes' /\ pendingCompressed' \in TextOrNone /\ banner' \in TextOrNone
<1>1. lastCompressedText \in TextOrNone
  BY DEF TypeOK
<1>. QED  BY <1>1, CheckType, ShownType DEF Becomes, EditorTypes

-----------------------------------------------------------------------------
(* The interceptor starts well typed.                                      *)
LEMMA TypeInit == Init => TypeOK
<1>. SUFFICES ASSUME Init PROVE TypeOK
  OBVIOUS
<1>1. valid \in BOOLEAN /\ written \in BOOLEAN
  BY DEF Init
<1>2. /\ text \in Texts /\ job \in TextOrNone /\ pasteJob \in [Pastes -> TextOrNone]
      /\ pendingCompressed \in TextOrNone /\ lastCompressedText \in TextOrNone
      /\ banner \in TextOrNone
  BY TextsAssumption DEF Init, TextOrNone
<1>3. lastStableTokens \in Nat /\ stableCount \in 0..3 /\ tries \in Nat
  BY DEF Init
<1>. QED  BY <1>1, <1>2, <1>3 DEF TypeOK

(* Every handler keeps the types, one step of the proof per action.         *)
LEMMA TypeStep == TypeOK /\ [Next]_vars => TypeOK'
<1>. SUFFICES ASSUME TypeOK, [Next]_vars PROVE TypeOK'
  OBVIOUS
<1>. USE DEF TextOrNone
<1>1. CASE Edit
  BY <1>1, BecomesType DEF Edit, TypeOK, EditorTypes
<1>2. ASSUME NEW i \in Pastes, Paste(i) PROVE TypeOK'
  <2>1. pasteJob' \in [Pastes -> TextOrNone]
    BY <1>2 DEF Paste, TypeOK
  <2>2. CASE \E u \in Texts : Becomes(u)
    BY <1>2, <2>1, <2>2, BecomesType DEF Paste, TypeOK, EditorTypes
  <2>3. CASE UNCHANGED <<text, job, pendingCompressed, lastCompressedText,
                         lastStableTokens, stableCount, banner, written, tries>>
    BY <1>2, <2>1, <2>3 DEF Paste, TypeOK
  <2>. QED  BY <1>2, <2>2, <2>3 DEF Paste
<1>3. CASE Recheck
  <2>1. text \in Texts /\ lastCompressedText \in TextOrNone
    BY DEF TypeOK
  <2>. QED  BY <1>3, <2>1, CheckType, ShownType DEF Recheck, TypeOK
<1>4. CASE InputCompressed
  <2>1. job \in Texts
    BY <1>4 DEF InputCompressed, TypeOK
  <2>2. pendingCompressed' \in TextOrNone /\ banner' \in TextOrNone
    BY <1>4, <2>1, OutcomesType DEF InputCompressed, Offer, TypeOK
  <2>. QED  BY <1>4, <2>2 DEF InputCompressed, TypeOK
<1>5. ASSUME NEW i \in Pastes, PasteCompressed(i) PROVE TypeOK'
  <2>1. pasteJob[i] \in Texts
    BY <1>5 DEF PasteCompressed, TypeOK
  <2>2. pendingCompressed' \in TextOrNone /\ banner' \in TextOrNone
    BY <1>5, <2>1, OutcomesType DEF PasteCompressed, Offer, TypeOK
  <2>. QED  BY <1>5, <2>2 DEF PasteCompressed, TypeOK
<1>6. CASE Accept
  <2>1. banner \in Texts
    BY <1>6 DEF Accept, TypeOK
  <2>. QED  BY <1>6, <2>1, WriteType DEF Accept, TypeOK, EditorTypes
<1>7. CASE Dismiss
  BY <1>7 DEF Dismiss, TypeOK
<1>8. CASE Submit
  <2>1. pendingCompressed \in Texts
    BY <1>8 DEF Submit, Truthy, TypeOK
  <2>. QED  BY <1>8, <2>1, WriteType DEF Submit, TypeOK, EditorTypes
<1>9. CASE Invalidate
  BY <1>9 DEF Invalidate, TypeOK
<1>10. CASE UNCHANGED vars
  BY <1>10 DEF vars, TypeOK
<1>. QED  BY <1>1, <1>2, <1>3, <1>4, <1>5, <1>6, <1>7, <1>8, <1>9, <1>10 DEF Next

(* The state of the interceptor stays well typed: what is pending or        *)
(* offered is a text or nothing, whatever sqzCompress returned.             *)
THEOREM TypeCorrect == Spec => []TypeOK
<1>1. Init => TypeOK
  BY TypeInit
<1>2. TypeOK /\ [Next]_vars => TypeOK'
  BY TypeStep
<1>. QED  BY <1>1, <1>2, PTL DEF Spec

-----------------------------------------------------------------------------
(* A look at the text that the editor then holds keeps the count of its     *)
(* compressions below the counter of the stable state.                      *)
LEMMA CheckKeepsCount ==
    ASSUME TypeOK, IInv, NEW t \in Texts, NEW last, text' = t, Check(last, t)
    PROVE  StableTextIsLeftAlone' /\ TriesCounted'
<1>. DEFINE base == IF t = text THEN tries ELSE 0
<1>. USE DEF TypeOK, IInv, TriesCounted, StableTextIsLeftAlone
<1>1. TokensOf(t) \in Nat /\ Threshold \in Nat
  BY TokensType, TextsAssumption
<1>2. base \in Nat /\ base <= 2
  OBVIOUS
<1>3. base > 0 => /\ lastStableTokens = TokensOf(t)
                  /\ TokensOf(t) > Threshold
                  /\ base <= stableCount
  OBVIOUS
<1>4. Recount(t) \in 1..3 /\ (base > 0 => base < Recount(t) \/ Recount(t) = 3)
  <2>1. stableCount \in 0..3
    OBVIOUS
  <2>. QED  BY <1>2, <1>3, <2>1 DEF Recount
<1>. HIDE DEF base
<1>5. CASE Verdict(last, t) = "skip"
  <2>1. tries' = base /\ lastStableTokens' = lastStableTokens /\ stableCount' = stableCount
    BY <1>5, <1>2 DEF Check, base
  <2>. QED  BY <2>1, <1>2, <1>3 DEF TokensOf
<1>6. CASE Verdict(last, t) = "short"
  <2>1. tries' = base
    BY <1>6, <1>2 DEF Check, base
  <2>2. TokensOf(t) <= Threshold
    BY <1>6 DEF Verdict
  <2>3. base = 0
    BY <2>2, <1>1, <1>2, <1>3
  <2>. QED  BY <2>1, <2>3
<1>7. CASE Verdict(last, t) = "stable"
  <2>1. tries' = base /\ lastStableTokens' = TokensOf(t) /\ stableCount' = Recount(t)
    BY <1>7, <1>2 DEF Check, base
  <2>2. Recount(t) = 3
    BY <1>7 DEF Verdict
  <2>. QED  BY <2>1, <2>2, <1>2, <1>3 DEF TokensOf
<1>8. CASE Verdict(last, t) = "compress"
  <2>1. tries' = base + 1 /\ lastStableTokens' = TokensOf(t) /\ stableCount' = Recount(t)
    BY <1>8, <1>2 DEF Check, base
  <2>2. Recount(t) # 3 /\ ~(TokensOf(t) <= Threshold)
    BY <1>8 DEF Verdict
  <2>3. base + 1 <= Recount(t)
    BY <2>2, <1>2, <1>4
  <2>4. TokensOf(t)' = TokensOf(t) /\ TokensOf(t) > Threshold
    BY <2>2, <1>1 DEF TokensOf
  <2>. QED  BY <2>1, <2>2, <2>3, <2>4, <1>2, <1>4 DEF TokensOf
<1>. QED  BY <1>5, <1>6, <1>7, <1>8 DEF Verdict

(* A look at sqz's own text starts no compression and keeps it marked.      *)
LEMMA CheckOwn ==
    ASSUME NEW t, NEW last, text' = t, Check(last, t),
           IsOwn(last, t) \/ TokensOf(t) <= Threshold
    PROVE  job' = job /\ OwnIsMarked'
<1>1. Verdict(last, t) \in {"skip", "short"}
  BY DEF Verdict
<1>2. job' = job
  BY <1>1 DEF Check
<1>3. CASE IsOwn(last, t)
  <2>1. Verdict(last, t) = "skip"
    BY <1>3 DEF Verdict
  <2>2. lastCompressedText' = last
    BY <2>1 DEF Check
  <2>. QED  BY <1>2, <1>3, <2>2 DEF OwnIsMarked, IsOwn
<1>4. CASE TokensOf(t) <= Threshold
  BY <1>2, <1>4 DEF OwnIsMarked, TokensOf
<1>. QED  BY <1>3, <1>4

(* A look at a text that is not sqz's own leaves nothing to be marked.      *)
LEMMA NotWritten == ASSUME written' = FALSE PROVE OwnIsMarked'
BY DEF OwnIsMarked

(* setText keeps the count and the mark, and starts no compression of what  *)
(* sqz wrote: the input event it dispatches finds the marker, or a text     *)
(* that is too short.                                                      *)
LEMMA WriteKeeps ==
    ASSUME TypeOK, IInv, NEW c \in Texts, Write(c)
    PROVE  StableTextIsLeftAlone' /\ TriesCounted' /\ OwnIsMarked' /\ (written' => job' = job)
<1>1. ASSUME NEW u \in Texts, written' = (Trim[u] = Trim[c]), text' = u, Check(c, u)
      PROVE  StableTextIsLeftAlone' /\ TriesCounted' /\ OwnIsMarked' /\ (written' => job' = job)
  <2>1. StableTextIsLeftAlone' /\ TriesCounted'
    BY <1>1, CheckKeepsCount
  <2>2. CASE Trim[u] = Trim[c]
    <3>1. IsOwn(c, u) \/ TokensOf(u) <= Threshold
      BY <2>2, TextsAssumption, BlankAssumption DEF IsOwn, Truthy
    <3>. QED  BY <1>1, <2>1, <3>1, CheckOwn
  <2>3. CASE Trim[u] # Trim[c]
    <3>1. written' = FALSE
      BY <1>1, <2>3
    <3>. QED  BY <2>1, <3>1, NotWritten
  <2>. QED  BY <2>2, <2>3
<1>2. CASE lastCompressedText' = c /\ written' = FALSE
           /\ UNCHANGED <<text, job, lastStableTokens, stableCount, tries>>
  BY <1>2 DEF IInv, StableTextIsLeftAlone, TriesCounted, OwnIsMarked, TokensOf
<1>3. PICK u \in Texts : \/ text' = u /\ written' = (Trim[u] = Trim[c]) /\ Check(c, u)
                        \/ /\ lastCompressedText' = c /\ written' = FALSE
                           /\ UNCHANGED <<text, job, lastStableTokens, stableCount, tries>>
  BY DEF Write
<1>. QED  BY <1>1, <1>2, <1>3

(* An edit starts a new count; nothing of sqz's is in the editor after it.  *)
LEMMA BecomesKeeps ==
    ASSUME TypeOK, IInv, NEW u \in Texts, Becomes(u)
    PROVE  IInv'
<1>1. StableTextIsLeftAlone' /\ TriesCounted'
  BY CheckKeepsCount DEF Becomes
<1>2. BannerIsPending'
  BY DEF Becomes, Shown, IInv, BannerIsPending
<1>. QED  BY <1>1, <1>2 DEF Becomes, IInv, OwnIsMarked

-----------------------------------------------------------------------------
(* Nothing is pending, offered or written at the start.                     *)
LEMMA InvInit == Init => IInv
BY DEF Init, IInv, BannerIsPending, StableTextIsLeftAlone, TriesCounted, OwnIsMarked

(* The handlers that leave the editor, the lock's text and the counters     *)
(* alone keep everything but, perhaps, the banner's agreement.              *)
LEMMA EditorAlone ==
    ASSUME IInv, BannerIsPending',
           UNCHANGED <<text, lastCompressedText, lastStableTokens, stableCount, written, tries>>
    PROVE  IInv'
BY DEF IInv, StableTextIsLeftAlone, TriesCounted, OwnIsMarked, IsOwn, TokensOf

(* Every handler keeps the invariant, one step of the proof per action.     *)
LEMMA InvStep == TypeOK /\ IInv /\ [Next]_vars => IInv'
<1>. SUFFICES ASSUME TypeOK, IInv, [Next]_vars PROVE IInv'
  OBVIOUS
<1>1. CASE Edit
  BY <1>1, BecomesKeeps DEF Edit
<1>2. ASSUME NEW i \in Pastes, Paste(i) PROVE IInv'
  <2>1. CASE \E u \in Texts : Becomes(u)
    BY <2>1, BecomesKeeps
  <2>2. CASE UNCHANGED <<text, job, pendingCompressed, lastCompressedText,
                         lastStableTokens, stableCount, banner, written, tries>>
    BY <2>2, EditorAlone DEF IInv, BannerIsPending
  <2>. QED  BY <1>2, <2>1, <2>2 DEF Paste
<1>3. CASE Recheck
  <2>1. StableTextIsLeftAlone' /\ TriesCounted'
    BY <1>3, CheckKeepsCount DEF Recheck, TypeOK
  <2>2. BannerIsPending'
    BY <1>3 DEF Recheck, Shown, IInv, BannerIsPending
  <2>3. OwnIsMarked'
    BY <1>3, CheckOwn DEF Recheck, IInv, OwnIsMarked
  <2>. QED  BY <2>1, <2>2, <2>3 DEF IInv
<1>4. CASE InputCompressed
  <2>1. BannerIsPending'
    BY <1>4 DEF InputCompressed, Offer, BannerIsPending
  <2>. QED  BY <1>4, <2>1, EditorAlone DEF InputCompressed
<1>5. ASSUME NEW i \in Pastes, PasteCompressed(i) PROVE IInv'
  <2>1. BannerIsPending'
    BY <1>5 DEF PasteCompressed, Offer, IInv, BannerIsPending
  <2>. QED  BY <1>5, <2>1, EditorAlone DEF PasteCompressed
<1>6. CASE Accept
  <2>1. banner \in Texts
    BY <1>6 DEF Accept, TypeOK, TextOrNone
  <2>. QED  BY <1>6, <2>1, WriteKeeps DEF Accept, IInv, BannerIsPending
<1>7. CASE Dismiss
  BY <1>7, EditorAlone DEF Dismiss, BannerIsPending
<1>8. CASE Submit
  <2>1. pendingCompressed \in Texts
    BY <1>8 DEF Submit, Truthy, TypeOK, TextOrNone
  <2>. QED  BY <1>8, <2>1, WriteKeeps DEF Submit, IInv, BannerIsPending
<1>9. CASE Invalidate
  BY <1>9, EditorAlone DEF Invalidate, IInv, BannerIsPending
<1>10. CASE UNCHANGED vars
  BY <1>10, EditorAlone DEF vars, IInv, BannerIsPending
<1>. QED  BY <1>1, <1>2, <1>3, <1>4, <1>5, <1>6, <1>7, <1>8, <1>9, <1>10 DEF Next

(* The inductive invariant of the interceptor: banner and pending text      *)
(* agree, compressions are counted, and sqz's own text is marked.           *)
THEOREM InvCorrect == Spec => []IInv
<1>1. Init => IInv
  BY InvInit
<1>2. TypeOK /\ IInv /\ [Next]_vars => IInv'
  BY InvStep
<1>. QED  BY <1>1, <1>2, TypeCorrect, PTL DEF Spec

(* The banner always offers what Enter would write.                         *)
THEOREM BannerCorrect == Spec => []BannerIsPending
<1>1. IInv => BannerIsPending
  BY DEF IInv
<1>. QED  BY <1>1, InvCorrect, PTL

(* An unchanged text is compressed at most twice, however often the timers  *)
(* of handleInput fire.                                                     *)
THEOREM StableCorrect == Spec => []StableTextIsLeftAlone
<1>1. IInv => StableTextIsLeftAlone
  BY DEF IInv
<1>. QED  BY <1>1, InvCorrect, PTL

-----------------------------------------------------------------------------
(* A step that takes the lock leaves the editor with a text that is not     *)
(* sqz's.                                                                   *)
LEMMA OwnStep ==
    ASSUME TypeOK, IInv, [Next]_vars, job = None, job' # None
    PROVE  ~written'
<1>1. CASE Edit
  BY <1>1 DEF Edit, Becomes
<1>2. ASSUME NEW i \in Pastes, Paste(i) PROVE ~written'
  BY <1>2 DEF Paste, Becomes
<1>3. CASE Recheck
  <2>1. written => job' = job
    BY <1>3, CheckOwn DEF Recheck, IInv, OwnIsMarked
  <2>. QED  BY <1>3, <2>1 DEF Recheck
<1>4. CASE InputCompressed \/ Dismiss \/ Invalidate \/ UNCHANGED vars
  BY <1>4 DEF InputCompressed, Dismiss, Invalidate, vars
<1>5. ASSUME NEW i \in Pastes, PasteCompressed(i) PROVE ~written'
  BY <1>5 DEF PasteCompressed
<1>6. CASE Accept
  <2>1. banner \in Texts
    BY <1>6 DEF Accept, TypeOK, TextOrNone
  <2>. QED  BY <1>6, <2>1, WriteKeeps DEF Accept
<1>7. CASE Submit
  <2>1. pendingCompressed \in Texts
    BY <1>7 DEF Submit, Truthy, TypeOK, TextOrNone
  <2>. QED  BY <1>7, <2>1, WriteKeeps DEF Submit
<1>. QED  BY <1>1, <1>2, <1>3, <1>4, <1>5, <1>6, <1>7 DEF Next

(* handleInput never starts to compress what sqz wrote into the editor and  *)
(* reads back from it, up to blanks.                                       *)
THEOREM OwnTextCorrect == Spec => OwnTextIsLeftAlone
<1>1. TypeOK /\ IInv /\ [Next]_vars => [job = None /\ job' # None => ~written']_vars
  BY OwnStep
<1>. QED  BY <1>1, TypeCorrect, InvCorrect, PTL DEF Spec, OwnTextIsLeftAlone

=============================================================================
