------------------------- MODULE BrowserInterceptor -------------------------
(***************************************************************************)
(* The browser extension's interceptor: sqzAttachInterceptor in            *)
(* extension/content/common.js (extension-firefox has the same file).      *)
(*                                                                         *)
(* handleInput runs on every input event, 300 ms after the editor's DOM    *)
(* changed, and 200 ms after a short paste; it takes a lock, looks at the  *)
(* text and awaits its compression.  handlePastedText awaits the           *)
(* compression of a long clipboard text without the lock.  Both offer      *)
(* their result in a banner and remember it in pendingCompressed, which    *)
(* handleSubmit writes into the editor when the user presses Enter.        *)
(*                                                                         *)
(* JavaScript runs to its next await, so a handler up to an await is one   *)
(* step; setText dispatches an input event, so its step holds a nested     *)
(* handleInput.  The page changes its DOM when it likes, so the two timers *)
(* are one action that is always possible.  pendingOriginal, which only    *)
(* the statistics read, is left out, and so are the statistics.            *)
(*                                                                         *)
(* written and tries are not in the code: see Write and Check.             *)
(***************************************************************************)
EXTENDS Naturals

CONSTANTS
    Texts,      \* what an editor can hold
    Empty,      \* the empty text
    Length,     \* Length[t]: characters of t
    Trim,       \* Trim[t]: t without surrounding blanks
    Wasm,       \* Wasm[t]: the background's answer for t, None without one
    Js,         \* Js[t]: sqzCompressJS(t), shorter than t or t itself
    Pastes,     \* long pastes that can be in compression at the same time
    Threshold,  \* TOKEN_THRESHOLD
    None        \* null

(* sqzEstimateTokens. *)
TokensOf(t) == (Length[t] + 3) \div 4

ASSUME TextsAssumption ==
    /\ None \notin Texts /\ Empty \in Texts /\ Threshold \in Nat
    /\ Length \in [Texts -> Nat] /\ Trim \in [Texts -> Texts]
    /\ Wasm \in [Texts -> Texts \cup {None}] /\ Js \in [Texts -> Texts]

(* A text of blanks only is not long enough to be compressed. *)
ASSUME BlankAssumption ==
    \A t \in Texts : Trim[t] = Trim[Empty] => TokensOf(t) <= Threshold

VARIABLES
    text,                \* what getText reads from the editor
    job,                 \* the text handleInput awaits; None: isProcessing is false
    pasteJob,            \* the clipboard text each handlePastedText awaits
    pendingCompressed,
    lastCompressedText,
    lastStableTokens,
    stableCount,         \* up to 3, the most that is compared with
    banner,              \* what the preview banner's button writes; None: no banner
    valid,               \* sqzContextValid()
    written,             \* text is, up to blanks, what sqz last wrote into the editor
    tries                \* compressions of the text since it last changed

vars == <<text, job, pasteJob, pendingCompressed, lastCompressedText,
          lastStableTokens, stableCount, banner, valid, written, tries>>

TextOrNone == Texts \cup {None}

TypeOK ==
    /\ text \in Texts
    /\ job \in TextOrNone
    /\ pasteJob \in [Pastes -> TextOrNone]
    /\ pendingCompressed \in TextOrNone
    /\ lastCompressedText \in TextOrNone
    /\ lastStableTokens \in Nat
    /\ stableCount \in 0..3
    /\ banner \in TextOrNone
    /\ valid \in BOOLEAN
    /\ written \in BOOLEAN
    /\ tries \in Nat

Init ==
    /\ text = Empty
    /\ job = None
    /\ pasteJob = [i \in Pastes |-> None]
    /\ pendingCompressed = None
    /\ lastCompressedText = None
    /\ lastStableTokens = 0
    /\ stableCount = 0
    /\ banner = None
    /\ valid = TRUE
    /\ written = FALSE
    /\ tries = 0

-----------------------------------------------------------------------------
(* null and "" are both false in JavaScript. *)
Truthy(t) == t \notin {None, Empty}

(* What sqzCompress(t) can return: a shorter answer of the background, or   *)
(* the result of the JavaScript passes.                                     *)
Outcomes(t) ==
    {Js[t]} \cup {w \in {Wasm[t]} \ {None, Empty} : Length[w] < Length[t]}

-----------------------------------------------------------------------------
(***************************************************************************)
(* handleInput up to its await, for the text t and the marker last.        *)
(***************************************************************************)
IsOwn(last, t) == Truthy(last) /\ Trim[t] = Trim[last]

(* Mutant of Recount: a look never counts up.                               *)
RecountNever(t) == 1

(* Mutant of Recount: the counter goes past the value it is compared with.  *)
RecountPast(t) ==
    IF TokensOf(t) # lastStableTokens THEN 1 ELSE stableCount + 1

(* The counter after one more look at t. *)
Recount(t) ==
    IF TokensOf(t) # lastStableTokens THEN 1
    ELSE IF stableCount < 3 THEN stableCount + 1 ELSE 3

(* What handleInput does with t: nothing, because of the lock or of sqz's   *)
(* own marker; forget a short text; leave a stable one; or compress it.     *)
Verdict(last, t) ==
    IF ~valid \/ job # None \/ IsOwn(last, t) THEN "skip"
    ELSE IF TokensOf(t) <= Threshold THEN "short"
    ELSE IF Recount(t) = 3 THEN "stable"
    ELSE "compress"

(* The lock, the marker and the counters after that.                        *)
Check(last, t) ==
    LET verdict == Verdict(last, t)
    IN  /\ job' = IF verdict = "compress" THEN t ELSE job
        /\ lastCompressedText' = IF verdict = "skip" THEN last ELSE None
        /\ lastStableTokens' = CASE verdict = "skip" -> lastStableTokens
                                 [] verdict = "short" -> 0
                                 [] OTHER -> TokensOf(t)
        /\ stableCount' = CASE verdict = "skip" -> stableCount
                            [] verdict = "short" -> 0
                            [] OTHER -> Recount(t)
        /\ tries' = (IF t = text THEN tries ELSE 0)
                    + (IF verdict = "compress" THEN 1 ELSE 0)

(* Mutant of Shown: a short text leaves the banner up.                      *)
ShownKeepingBanner(last, t) ==
    /\ pendingCompressed' =
           IF Verdict(last, t) = "short" THEN None ELSE pendingCompressed
    /\ banner' = IF Verdict(last, t) = "stable" THEN None ELSE banner

(* Its early returns: a short text forgets what is pending, a stable one    *)
(* only takes the banner down.                                              *)
Shown(last, t) ==
    /\ pendingCompressed' =
           IF Verdict(last, t) = "short" THEN None ELSE pendingCompressed
    /\ banner' = IF Verdict(last, t) \in {"short", "stable"} THEN None ELSE banner

(* Mutant of Offer: Enter does not know of the offer.                       *)
OfferByButton(r) == banner' = r /\ UNCHANGED pendingCompressed

(* sqzShowPreview: a compressed text becomes pending and is offered. *)
Offer(r) == pendingCompressed' = r /\ banner' = r

(* Mutant of Write: the marker stays as it was.                             *)
WriteUnmarked(c) ==
    \E u \in Texts :
        /\ text' = u
        /\ written' = (Trim[u] = Trim[c])
        /\ Check(lastCompressedText, u)

(***************************************************************************)
(* setText(el, c) with the marker set before it.  What getText reads after *)
(* it, and so in the input event that setText dispatches, is any text: a   *)
(* textarea holds c, a contenteditable editor may set its lines apart, or   *)
(* refuse the insertion and keep what it had.  A text that is not c up to   *)
(* blanks clears the marker and may be compressed at once.  An editor that *)
(* is written twice, as ChatGPT's may be, makes a Write and an Edit of it.  *)
(* The site's setText may also throw.                                      *)
(***************************************************************************)
Write(c) ==
    \/ \E u \in Texts :
           /\ text' = u
           /\ written' = (Trim[u] = Trim[c])
           /\ Check(c, u)
    \/ /\ lastCompressedText' = c
       /\ written' = FALSE
       /\ UNCHANGED <<text, job, lastStableTokens, stableCount, tries>>

(* The editor's text becomes u and an input event is dispatched. *)
Becomes(u) ==
    /\ text' = u
    /\ written' = FALSE
    /\ Check(lastCompressedText, u)
    /\ Shown(lastCompressedText, u)

-----------------------------------------------------------------------------
(* The user edits, or the site empties the editor after sending. *)
Edit ==
    /\ \E u \in Texts \ {text} : Becomes(u)
    /\ UNCHANGED <<pasteJob, valid>>

(* A long paste: its text goes into compression, and the site inserts it    *)
(* into the editor or makes an attachment of it.                            *)
Paste(i) ==
    /\ valid
    /\ pasteJob[i] = None
    /\ \E c \in Texts : TokensOf(c) > Threshold /\ pasteJob' = [pasteJob EXCEPT ![i] = c]
    /\ \/ \E u \in Texts \ {text} : Becomes(u)
       \/ UNCHANGED <<text, job, pendingCompressed, lastCompressedText,
                      lastStableTokens, stableCount, banner, written, tries>>
    /\ UNCHANGED valid

(* The timers of the MutationObserver and of a short paste. *)
Recheck ==
    /\ Check(lastCompressedText, text)
    /\ Shown(lastCompressedText, text)
    /\ UNCHANGED <<text, pasteJob, valid, written>>

(* Mutant of InputCompressed: the early return of a fully compressed text   *)
(* leaves the lock taken.                                                   *)
InputCompressedHoldingLock ==
    /\ job # None
    /\ \E r \in Outcomes(job) :
           \/ r = job /\ banner' = None /\ UNCHANGED <<job, pendingCompressed>>
           \/ r # job /\ job' = None /\ Offer(r)
    /\ UNCHANGED <<text, pasteJob, lastCompressedText, lastStableTokens,
                   stableCount, valid, written, tries>>

(* handleInput after its await. *)
InputCompressed ==
    /\ job # None
    /\ job' = None
    /\ \E r \in Outcomes(job) :
           \/ r = job /\ banner' = None /\ UNCHANGED pendingCompressed
           \/ r # job /\ Offer(r)
    /\ UNCHANGED <<text, pasteJob, lastCompressedText, lastStableTokens,
                   stableCount, valid, written, tries>>

(* handlePastedText after its await. *)
PasteCompressed(i) ==
    /\ pasteJob[i] # None
    /\ pasteJob' = [pasteJob EXCEPT ![i] = None]
    /\ \E r \in Outcomes(pasteJob[i]) :
           \/ r = pasteJob[i] /\ UNCHANGED <<pendingCompressed, banner>>
           \/ r # pasteJob[i] /\ Offer(r)
    /\ UNCHANGED <<text, job, lastCompressedText, lastStableTokens,
                   stableCount, valid, written, tries>>

(* The banner's button: what the banner was shown with is written. *)
Accept ==
    /\ banner # None
    /\ Write(banner)
    /\ pendingCompressed' = None
    /\ banner' = None
    /\ UNCHANGED <<pasteJob, valid>>

(* The banner's other button. *)
Dismiss ==
    /\ banner # None
    /\ pendingCompressed' = None
    /\ banner' = None
    /\ UNCHANGED <<text, job, pasteJob, lastCompressedText, lastStableTokens,
                   stableCount, valid, written, tries>>

(* handleSubmit: Enter, or a click on the send button.  It does nothing if  *)
(* nothing is pending or the editor is gone.                                *)
Submit ==
    /\ Truthy(pendingCompressed)
    /\ Write(pendingCompressed)
    /\ pendingCompressed' = None
    /\ banner' = None
    /\ UNCHANGED <<pasteJob, valid>>

(* The extension is reloaded: the page's script loses its runtime. *)
Invalidate ==
    /\ valid
    /\ valid' = FALSE
    /\ UNCHANGED <<text, job, pasteJob, pendingCompressed, lastCompressedText,
                   lastStableTokens, stableCount, banner, written, tries>>

Next ==
    \/ Edit \/ Recheck \/ InputCompressed
    \/ Accept \/ Dismiss \/ Submit \/ Invalidate
    \/ \E i \in Pastes : Paste(i) \/ PasteCompressed(i)

(* sqzCompressViaBackground always resolves while there is a runtime: with  *)
(* its answer, with null on lastError, or with null when sendMessage fails. *)
Spec == Init /\ [][Next]_vars /\ WF_vars(valid /\ InputCompressed)

-----------------------------------------------------------------------------
(* What the banner offers is what Enter would write, whichever of the two   *)
(* compressions, in whatever order, produced it: the banner and             *)
(* pendingCompressed are set and forgotten in different handlers.           *)
BannerIsPending == banner # None => banner = pendingCompressed

(* A text that does not change is compressed at most twice, however often   *)
(* the timers fire, and even after its banner was dismissed: the counter of *)
(* the stable state cannot be reset under it.                               *)
StableTextIsLeftAlone == tries <= 2

(* The two that are needed to prove these by induction.  The compressions   *)
(* of an unchanged text were counted under its own number of tokens, and    *)
(* what sqz wrote, and reads back up to blanks, still has its marker or is  *)
(* too short to be compressed.                                             *)
TriesCounted ==
    tries > 0 => /\ lastStableTokens = TokensOf(text)
                 /\ TokensOf(text) > Threshold
                 /\ tries <= stableCount

OwnIsMarked ==
    written => IsOwn(lastCompressedText, text) \/ TokensOf(text) <= Threshold

IInv == BannerIsPending /\ StableTextIsLeftAlone /\ TriesCounted /\ OwnIsMarked

(* handleInput never compresses what sqz itself wrote into the editor, as   *)
(* long as the editor gives it back, up to blanks: the marker outlives      *)
(* every handler that runs before the next edit.  An editor that gives      *)
(* something else back has it compressed again, by StableTextIsLeftAlone    *)
(* twice at most.                                                          *)
OwnTextIsLeftAlone == [][job = None /\ job' # None => ~written']_vars

(* The lock taken by handleInput is released, so that later edits are       *)
(* looked at, as long as the extension is there.                            *)
LockIsReleased == job # None ~> (job = None \/ ~valid)

(* Where handleInput has taken the banner down, because there is "no        *)
(* further compression possible" and "nothing more to do", sqz writes        *)
(* nothing into the editor, also when the message is sent.                 *)
NoBannerNoRewrite == [][written' /\ text' # text => banner # None]_vars

=============================================================================
