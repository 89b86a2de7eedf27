------------------------------ MODULE Squeeze -------------------------------
(***************************************************************************)
(* sqzCompressJS, the passes that compress a text in the content script    *)
(* when the background's engine does not (extension/content/common.js;     *)
(* extension-firefox has the same file).                                   *)
(*                                                                         *)
(* A text is a record: signs, the patterns of sqzClassify that match it;   *)
(* prefix, the characters its paths have in common; json, what it is worth *)
(* as JSON; and units, of a log its lines that are not empty, of any other *)
(* text the sentences that passes 5 and 6 split it into.  Newlines at the  *)
(* end of a log, or after the mark that ends the last sentence, make an    *)
(* empty unit.                                                             *)
(*                                                                         *)
(* A unit is a record of what the passes look at: its place (id); the      *)
(* newlines before it, none if it follows the unit before it after a blank *)
(* (gap); the characters it has (size) and those of them that are blanks   *)
(* too many, a base64 blob, markdown, a transition it begins with (opener) *)
(* or what the other passes from 7 on take out of prose (filler); its line *)
(* without the time stamp (key), and how many lines it stands for (times); *)
(* the hashes of its words; what pruning asks; and its lines, as pass 15   *)
(* finds them: the characters that pass 16 leaves of a line, whether it    *)
(* begins like a comment, with "//" or "#", and whether it has a URL.      *)
(***************************************************************************)
EXTENDS Integers, SequencesExt

CONSTANTS
    Keys,      \* lines without their time stamps
    Documents  \* the texts that are squeezed

ASSUME KeysAssumption == "" \in Keys

Line == [size : Nat, comment : BOOLEAN, url : BOOLEAN]

Unit ==
    [id : Nat, gap : Nat, size : Int, blanks : Nat, blob : Nat, marks : Nat, opener : Nat,
     filler : Nat, path : BOOLEAN, key : Keys, times : Nat, hashes : Seq(SUBSET Nat),
     words : Nat, density : Int, figures : BOOLEAN, lines : Seq(Line), left : SUBSET Nat]

Weights == [import |-> 3, declaration |-> 3, brace |-> 2, flow |-> 2, comment |-> 1]

CodeHits(signs) == MapThenSumSet(LAMBDA s : Weights[s], signs \cap DOMAIN Weights)

(* sqzClassify; "stamps" is that more than 3 lines of 10 begin with a time  *)
(* or a level.                                                             *)
Classify(x) ==
    CASE "json" \in x.signs -> "json"
      [] "json" \notin x.signs /\ CodeHits(x.signs) >= 4 -> "code"
      [] OTHER -> IF "stamps" \in x.signs THEN "log"
                  ELSE IF "headings" \in x.signs THEN "markdown"
                  ELSE "prose"

(* Splitting a text gives at least one unit, and of a log whole lines.      *)
Text ==
    {x \in [signs : SUBSET STRING, prefix : Nat, units : Seq(Unit),
            json : [items : Nat, sampled : Nat, compact : Nat]] :
        /\ x.units # <<>>
        /\ \A i \in DOMAIN x.units :
              LET u == x.units[i]
              IN  /\ u.id = i /\ u.times = 1 /\ u.left = DOMAIN u.lines
                  /\ Classify(x) = "log" /\ i > 1 => u.gap > 0
                  /\ i < Len(x.units) => u.lines # <<>>}

ASSUME DocumentsAssumption == \A x \in Documents : x \in Text

-----------------------------------------------------------------------------
Digits(n) == IF n < 10 THEN 1 ELSE IF n < 100 THEN 2 ELSE IF n < 1000 THEN 3 ELSE 4

(* What Step makes of base along the units: a fold, as a function of how    *)
(* many units have been taken.                                             *)
Through(Step(_, _), base, units) ==
    LET after[n \in 0..Len(units)] == IF n = 0 THEN base ELSE Step(after[n - 1], units[n])
    IN  after[Len(units)]

(* A unit with the newlines, or the blank, before it; before the first one  *)
(* there is no blank.                                                       *)
Width(u) == u.size + (IF u.gap = 0 THEN 1 ELSE u.gap)

LengthOf(units) ==
    Through(LAMBDA n, u : n + Width(u), 0, units)
        - (IF units # <<>> /\ units[1].gap = 0 THEN 1 ELSE 0)

Each(Op(_), units) == [i \in DOMAIN units |-> Op(units[i])]

-----------------------------------------------------------------------------
(* sqzFingerprint: the bits that more of the words' hashes have than not.   *)
Fingerprint(u) ==
    {b \in UNION ToSet(u.hashes) :
        2 * Cardinality({i \in DOMAIN u.hashes : b \in u.hashes[i]}) > Len(u.hashes)}

BitDiff(a, b) == Cardinality(SymDiff(a, b))

-----------------------------------------------------------------------------
(* Passes 1 to 4.                                                           *)

(* Of the newlines between two units two are left.  Pass 1 does that where  *)
(* there are no blanks between them, and where there are, the second time   *)
(* (of a log, after sqzSqueezeLogs; else pass 16); JSON has none of those.  *)
Normalize(units) ==
    Each(LAMBDA u : [u EXCEPT !.size = @ - u.blanks, !.gap = IF @ > 2 THEN 2 ELSE @], units)

(* "[blob:" n "ch]" in the place of n characters.                           *)
StripBlobs(units) ==
    Each(LAMBDA u : IF u.blob < 100 THEN u ELSE [u EXCEPT !.size = @ - u.blob + 9 + Digits(u.blob)],
         units)

(* "~/" in the place of the prefix that all paths have.                     *)
ShortenPaths(prefix, units) ==
    IF Cardinality({i \in DOMAIN units : units[i].path}) < 2 \/ prefix <= 11
    THEN units
    ELSE Each(LAMBDA u : IF u.path THEN [u EXCEPT !.size = @ - prefix + 2] ELSE u, units)

StripMarkdown(units) == Each(LAMBDA u : [u EXCEPT !.size = @ - u.marks], units)

(* Mutant of SqueezeJSON: the compact form is not compared.                  *)
SqueezeJSONCompacted(x, units) ==
    IF x.json.items > 5 /\ x.json.sampled < LengthOf(units) THEN x.json.sampled
    ELSE x.json.compact

SqueezeJSON(x, units) ==
    LET n == LengthOf(units)
    IN  IF x.json.items > 5 /\ x.json.sampled < n THEN x.json.sampled
        ELSE IF x.json.compact < n THEN x.json.compact ELSE n

Counted(u, n) == [u EXCEPT !.times = n, !.size = @ + 4 + Digits(n)]

(* Count a run of n + 1 equal lines at its first line.                      *)
Flush(out, n) == IF n = 0 THEN out ELSE [out EXCEPT ![Len(out)] = Counted(@, n + 1)]

(* Mutant of LogLine: the counter goes on from run to run.                  *)
LogLineCountingOn(acc, u) ==
    IF u.key = acc.prevKey /\ u.key # "" /\ u.gap = 1
    THEN [acc EXCEPT !.count = @ + 1]
    ELSE [acc EXCEPT !.out = Append(Flush(acc.out, acc.count), u), !.prevKey = u.key]

(* An empty line, too, ends a run.                                          *)
LogLine(acc, u) ==
    IF u.key = acc.prevKey /\ u.key # "" /\ u.gap = 1
    THEN [acc EXCEPT !.count = @ + 1]
    ELSE [out |-> Append(Flush(acc.out, acc.count), u), prevKey |-> u.key, count |-> 0]

SqueezeLogs(units) ==
    LET end == Through(LogLine, [out |-> <<>>, prevKey |-> "", count |-> 0], units)
    IN  Flush(end.out, end.count)

-----------------------------------------------------------------------------
(* Pass 5.  Of sentences that are near each other the first is kept.        *)

Near(u, prints) == \E p \in prints : BitDiff(Fingerprint(u), p) <= 3

(* Mutant of Sentence: a sentence that is dropped is compared with, too.    *)
SentenceDrifting(acc, u) ==
    IF u.size < 15 THEN [acc EXCEPT !.kept = Append(@, u)]
    ELSE [kept |-> IF Near(u, acc.prints) THEN acc.kept ELSE Append(acc.kept, u),
          prints |-> acc.prints \cup {Fingerprint(u)}]

Sentence(acc, u) ==
    IF u.size < 15 THEN [acc EXCEPT !.kept = Append(@, u)]
    ELSE IF Near(u, acc.prints) THEN acc
    ELSE [kept |-> Append(acc.kept, u), prints |-> acc.prints \cup {Fingerprint(u)}]

(* The units that are kept are joined with blanks.                          *)
Joined(units) == [k \in DOMAIN units |-> IF k = 1 THEN units[k] ELSE [units[k] EXCEPT !.gap = 0]]

Dedupe(units) ==
    LET kept == Through(Sentence, [kept |-> <<>>, prints |-> {}], units).kept
    IN  IF Len(units) <= 2 \/ Len(kept) = Len(units) THEN units ELSE Joined(kept)

(* The units at some places.                                                *)
Select(units, places) ==
    LET out[n \in 0..Len(units)] ==
            IF n = 0 THEN <<>>
            ELSE IF n \in places THEN Append(out[n - 1], units[n])
            ELSE out[n - 1]
    IN  out[Len(units)]

(* Pass 6.  The least dense sentences go, up to 15 %, but not the first or  *)
(* the last, a short one, or one with digits, citations or brackets.       *)
Prunable(units) ==
    {i \in 2..(Len(units) - 1) : units[i].words > 5 /\ ~units[i].figures}

Before(units, i, j) ==
    \/ units[i].density < units[j].density
    \/ units[i].density = units[j].density /\ i < j

DropSet(units) ==
    LET able == Prunable(units)
    IN  {i \in able : Cardinality({j \in able : Before(units, j, i)}) < (15 * Len(units)) \div 100}

Prune(units) ==
    IF Len(units) <= 8 \/ DropSet(units) = {} THEN units
    ELSE Joined(Select(units, DOMAIN units \ DropSet(units)))

(* Passes 7 to 14 and 16; 12 looks for transitions where a line begins.     *)
TrimWords(units) ==
    [k \in DOMAIN units |->
        LET u == units[k]
            opener == IF k = 1 \/ u.gap > 0 THEN u.opener ELSE 0
        IN  [u EXCEPT !.size = @ - opener - u.filler]]

(* Pass 15.  A place is a line j of a unit k.  A unit begins on a line of   *)
(* its own or goes on with the last line of the unit before it.             *)
Begin(units) ==
    [n \in DOMAIN units |-> IF n = 1 \/ units[n].gap > 0 THEN <<n, 1>>
                            ELSE <<n - 1, Len(units[n - 1].lines)>>]

(* The place where the line of the text begins that a place is on: further  *)
(* back as long as the line that a unit goes on with is the unit's only one.*)
HeadOf(units, k, j) ==
    LET begin == Begin(units)
    IN  IF j > 1 THEN <<k, j>> ELSE begin[Max({n \in 1..k : begin[n] # <<n - 1, 1>>})]

(* The line of the text that a place is on is a comment: it begins like one *)
(* and has no URL.                                                         *)
Commented(units, k, j) ==
    LET head == HeadOf(units, k, j)
        lines == [n \in DOMAIN units |-> units[n].lines]
    IN  /\ lines[head[1]][head[2]].comment
        /\ \A m \in DOMAIN units : \A i \in DOMAIN lines[m] :
              HeadOf(units, m, i) = head => ~lines[m][i].url

(* The characters that are left of a unit, with newlines between its lines. *)
Remaining(u, left) ==
    LET sum[n \in 0..Len(u.lines)] ==
            IF n = 0 THEN -1
            ELSE IF n \in left THEN sum[n - 1] + u.lines[n].size + 1
            ELSE sum[n - 1]
    IN  sum[Len(u.lines)]

(* A line that goes leaves its newline, and of several newlines one is left.*)
Uncommented(units, k) ==
    LET u == units[k]
        left == {j \in DOMAIN u.lines : ~Commented(units, k, j)}
    IN  [u EXCEPT !.left = left, !.size = Remaining(u, left),
                  !.gap = IF 1 \in left /\ @ = 0 THEN 0 ELSE 1]

DropComments(units) ==
    LET out == [k \in DOMAIN units |-> Uncommented(units, k)]
    IN  Select(out, {k \in DOMAIN out : out[k].left # {}})

(* trimEnd.                                                                 *)
TrimEnd(units) ==
    IF units # <<>> /\ units[Len(units)].size = 0 THEN Front(units) ELSE units

-----------------------------------------------------------------------------
Clean(x) == StripBlobs(Normalize(x.units))

(* What the passes up to 5 leave of a text that is neither JSON nor a log.  *)
Once(x) ==
    LET plain == IF Classify(x) = "markdown" THEN StripMarkdown(Clean(x)) ELSE Clean(x)
    IN  Dedupe(ShortenPaths(x.prefix, plain))

(* What all passes leave of a text that is not JSON.                        *)
Passes(x) ==
    CASE Classify(x) = "log" -> ShortenPaths(x.prefix, SqueezeLogs(Clean(x)))
      [] Classify(x) = "code" -> DropComments(Once(x))
      [] OTHER -> TrimWords(Prune(Once(x)))

(* sqzCompressJS: a short text is left alone, and so is one that the passes *)
(* do not make shorter; JSON is returned without that comparison.          *)
SqueezedLength(x) ==
    LET n == LengthOf(x.units)
        r == LengthOf(TrimEnd(Passes(x)))
    IN  IF n < 100 THEN n
        ELSE IF Classify(x) = "json" THEN SqueezeJSON(x, Clean(x))
        ELSE IF r < n THEN r ELSE n

-----------------------------------------------------------------------------
Ids(units) == {units[k].id : k \in DOMAIN units}

(* The units stand for runs of the first n lines that are not empty, one    *)
(* run after the other and without a gap; all lines of a run have its key,  *)
(* and there is no empty line in it.                                        *)
Accounts(units, n, lines) ==
    LET last == Len(units)
    IN  /\ last > 0
        /\ units[1].id = 1 /\ units[last].id + units[last].times = n + 1
        /\ \A k \in 1..(last - 1) : units[k + 1].id = units[k].id + units[k].times
        /\ \A k \in 1..last : \A i \in units[k].id..(units[k].id + units[k].times - 1) :
              i \in 1..n /\ lines[i].key = units[k].key /\ (i > units[k].id => lines[i].gap = 1)

InOrder(units) == \A j, k \in DOMAIN units : j < k => units[j].id < units[k].id

(* Pass 5 may drop a sentence that is near an earlier one that it kept.     *)
NearKept(x, i) ==
    LET u == x.units
    IN  u[i].size >= 15 /\ \E j \in Ids(Once(x)) : j < i /\ Near(u[i], {Fingerprint(u[j])})

(* Pass 6 may drop a sentence that is neither the first nor short nor has   *)
(* figures in it.                                                          *)
MayBePruned(x, i) == i > 1 /\ x.units[i].words > 5 /\ ~x.units[i].figures

(* Pass 15 may drop a line that is on a comment in what pass 5 has left.    *)
(* If pass 5 has joined sentences, code that followed a comment may be a    *)
(* part of it now; if not, the line is on a comment of the text itself.     *)
CommentMayGo(x, k, j) ==
    LET once == Once(x)
    IN  /\ Commented(once, k, j)
        /\ Ids(once) = DOMAIN x.units => Commented(x.units, k, j)

(* A line of a unit is not among what is left.                              *)
Lost(units, id, j) == \A k \in DOMAIN units : units[k].id = id => j \notin units[k].left

=============================================================================
