---------------------------- MODULE SqueezeProofs ---------------------------
(***************************************************************************)
(* Proofs about what the passes of Squeeze do to texts of any length.      *)
(*                                                                         *)
(* The passes are recursive functions of how many units have been taken.   *)
(* That such a function has a value everywhere (Folds), and whatever is    *)
(* shown of it, rests on an induction over sets of natural numbers, which  *)
(* comes from their being well-founded.  For each pass there is a lemma    *)
(* that unfolds the function and one that carries an invariant along it.   *)
(***************************************************************************)
EXTENDS Compression, FiniteSetTheorems, WellFoundedInduction, TLAPS

(* The order of the natural numbers, as a relation. *)
Less == {r \in Nat \X Nat : r[1] < r[2]}

LEMMA LessWellFounded == IsWellFoundedOn(Less, Nat)
<1>1. OpToRel(<, Nat) = Less
  BY DEF OpToRel, Less
<1> QED
  BY <1>1, NatLessThanWellFounded

(* Induction over the natural numbers, for a set of them.                   *)
LEMMA Induction ==
    ASSUME NEW S, 0 \in S, \A n \in Nat : n \in S => n + 1 \in S
    PROVE  Nat \subseteq S
<1>1. SUFFICES ASSUME Nat \ S # {} PROVE FALSE
  OBVIOUS
<1>2. PICK m \in Nat \ S : \A k \in Nat \ S : <<k, m>> \notin Less
  BY <1>1, LessWellFounded, WFMin
<1>3. m # 0 /\ m - 1 \in Nat /\ m - 1 < m
  BY <1>2
<1>4. m - 1 \in S
  BY <1>2, <1>3 DEF Less
<1> QED
  BY <1>2, <1>3, <1>4

(* The same, up to a bound.                                                 *)
LEMMA InductionTo ==
    ASSUME NEW N \in Nat, NEW S, 0 \in S, \A n \in 1..N : n - 1 \in S => n \in S
    PROVE  0..N \subseteq S
<1> DEFINE T == {n \in Nat : n <= N => n \in S}
<1>1. 0 \in T
  OBVIOUS
<1>2. \A n \in Nat : n \in T => n + 1 \in T
  <2> SUFFICES ASSUME NEW n \in Nat, n \in T, n + 1 <= N PROVE n + 1 \in S
    OBVIOUS
  <2>1. n \in S /\ n + 1 \in 1..N /\ (n + 1) - 1 = n
    OBVIOUS
  <2> QED
    BY <2>1
<1>3. Nat \subseteq T
  <2> HIDE DEF T
  <2> QED
    BY <1>1, <1>2, Induction
<1> QED
  BY <1>3

(* A fold has a value at every unit: the function that Through defines by   *)
(* recursion exists.                                                        *)
IsFold(f, N, base, step) == f[0] = base /\ \A n \in 1..N : f[n] = step[n][f[n - 1]]

LEMMA Folds ==
    ASSUME NEW N \in Nat, NEW S, NEW base \in S, NEW step \in [1..N -> [S -> S]]
    PROVE  \E f \in [0..N -> S] : IsFold(f, N, base, step)
<1> DEFINE P(m) == \E f \in [0..m -> S] : f[0] = base /\ \A n \in 1..m : f[n] = step[n][f[n - 1]]
           T == {m \in 0..N : P(m)}
<1>1. 0 \in T
  <2> DEFINE f == [n \in 0..0 |-> base]
  <2>1. f \in [0..0 -> S] /\ f[0] = base /\ 1..0 = {}
    OBVIOUS
  <2> HIDE DEF f
  <2> QED
    BY <2>1
<1>2. \A m \in 1..N : m - 1 \in T => m \in T
  <2> SUFFICES ASSUME NEW m \in 1..N, P(m - 1) PROVE m \in 0..N /\ P(m)
    <3> HIDE DEF P
    <3> QED
      OBVIOUS
  <2>1. PICK f \in [0..(m - 1) -> S] : f[0] = base /\ \A n \in 1..(m - 1) : f[n] = step[n][f[n - 1]]
    OBVIOUS
  <2> DEFINE g == [n \in 0..m |-> IF n = m THEN step[m][f[m - 1]] ELSE f[n]]
  <2>2. f[m - 1] \in S /\ step[m][f[m - 1]] \in S
    OBVIOUS
  <2>3. g \in [0..m -> S]
    BY <2>2
  <2>4. g[0] = base
    BY <2>1
  <2>5. ASSUME NEW n \in 1..m PROVE g[n] = step[n][g[n - 1]]
    <3>1. CASE n = m
      BY <3>1
    <3>2. CASE n # m
      <4>1. n \in 1..(m - 1) /\ n - 1 \in 0..m /\ n - 1 # m
        BY <3>2
      <4> QED
        BY <4>1, <2>1, <3>2
    <3> QED
      BY <3>1, <3>2
  <2> HIDE DEF g
  <2> QED
    BY <2>3, <2>4, <2>5
<1>3. N \in T
  <2> HIDE DEF T
  <2>1. 0..N \subseteq T
    BY <1>1, <1>2, InductionTo
  <2> QED
    BY <2>1
<1> QED
  BY <1>3 DEF IsFold

(* The function that LengthOf defines.                                      *)
LengthTo(units) ==
    CHOOSE f : f = [n \in 0..Len(units) |-> IF n = 0 THEN 0 ELSE f[n - 1] + Width(units[n])]

LEMMA WidthType ==
    ASSUME NEW u \in Unit PROVE Width(u) \in Int /\ Width(u) >= u.size + 1
<1>1. u.size \in Int /\ u.gap \in Nat
  BY DEF Unit
<1> QED
  BY <1>1 DEF Width

LEMMA LengthUnfolds ==
    ASSUME NEW units \in Seq(Unit)
    PROVE  /\ LengthOf(units) = LengthTo(units)[Len(units)]
                                   - (IF units # <<>> /\ units[1].gap = 0 THEN 1 ELSE 0)
           /\ LengthTo(units) \in [0..Len(units) -> Int]
           /\ LengthTo(units)[0] = 0
           /\ \A n \in 1..Len(units) :
                 LengthTo(units)[n] = LengthTo(units)[n - 1] + Width(units[n])
<1> DEFINE N == Len(units)
           base == 0
           step == [n \in 1..N |-> [i \in Int |-> i + Width(units[n])]]
<1>1. LengthOf(units) = LengthTo(units)[N]
                          - (IF units # <<>> /\ units[1].gap = 0 THEN 1 ELSE 0)
  BY DEF LengthOf, Through, LengthTo
<1>2. \A n \in 1..N : Width(units[n]) \in Int
  <2>1. \A n \in 1..N : units[n] \in Unit
    OBVIOUS
  <2> QED
    BY <2>1, WidthType
<1>3. step \in [1..N -> [Int -> Int]]
  BY <1>2
<1>4. PICK f \in [0..N -> Int] : IsFold(f, N, base, step)
  <2>1. N \in Nat /\ base \in Int
    OBVIOUS
  <2> HIDE DEF step, base, N
  <2> QED
    BY <1>3, <2>1, Folds
<1>5. f = [n \in 0..N |-> IF n = 0 THEN 0 ELSE f[n - 1] + Width(units[n])]
  <2>1. ASSUME NEW n \in 1..N PROVE f[n] = f[n - 1] + Width(units[n])
    <3>1. n - 1 \in 0..N /\ f[n - 1] \in Int
      OBVIOUS
    <3>2. f[n] = step[n][f[n - 1]]
      BY <1>4 DEF IsFold
    <3> QED
      BY <3>1, <3>2
  <2>2. f[0] = 0
    BY <1>4 DEF IsFold
  <2>3. f = [n \in 0..N |-> f[n]]
    OBVIOUS
  <2>4. \A n \in 0..N : f[n] = IF n = 0 THEN 0 ELSE f[n - 1] + Width(units[n])
    BY <2>1, <2>2
  <2> QED
    BY <2>3, <2>4
<1>6. LengthTo(units) =
        [n \in 0..N |-> IF n = 0 THEN 0 ELSE LengthTo(units)[n - 1] + Width(units[n])]
  BY <1>5 DEF LengthTo
<1>7. \A n \in 1..N : LengthTo(units)[n] = LengthTo(units)[n - 1] + Width(units[n])
  BY <1>6
<1>8. LengthTo(units)[0] = 0
  BY <1>6
<1>9. \A n \in 0..N : LengthTo(units)[n] \in Int
  <2> DEFINE T == {n \in 0..N : LengthTo(units)[n] \in Int}
  <2>1. 0 \in T
    BY <1>8
  <2>2. \A n \in 1..N : n - 1 \in T => n \in T
    BY <1>7, <1>2
  <2>3. 0..N \subseteq T
    <3>1. N \in Nat
      OBVIOUS
    <3> HIDE DEF T, N
    <3> QED
      BY <2>1, <2>2, <3>1, InductionTo
  <2> QED
    BY <2>3
<1> QED
  BY <1>1, <1>6, <1>7, <1>8, <1>9

(* Pass 1 leaves two of several newlines.                                   *)
GapOf(u, v) == u.gap = v.gap \/ (u.gap = 2 /\ v.gap > 2)

(* Nor is a unit wider that is no longer and has no more newlines before.   *)
LEMMA WidthGrows ==
    ASSUME NEW u \in Unit, NEW v \in Unit, u.size <= v.size, GapOf(u, v)
    PROVE  Width(u) \in Int /\ Width(v) \in Int /\ Width(u) <= Width(v)
<1>1. u.size \in Int /\ v.size \in Int /\ u.gap \in Nat /\ v.gap \in Nat
  BY DEF Unit
<1>2. CASE u.gap = v.gap
  BY <1>1, <1>2 DEF Width
<1>3. CASE u.gap = 2 /\ v.gap > 2
  BY <1>1, <1>3 DEF Width
<1> QED
  BY <1>2, <1>3 DEF GapOf

(* A text is not longer than another one with the same number of units of   *)
(* which none is longer.                                                    *)
LEMMA LengthIsMonotonic ==
    ASSUME NEW units \in Seq(Unit), NEW others \in Seq(Unit), Len(units) = Len(others),
           \A k \in 1..Len(others) : units[k].size <= others[k].size /\ GapOf(units[k], others[k])
    PROVE  /\ LengthOf(units) \in Int /\ LengthOf(others) \in Int
           /\ LengthOf(units) <= LengthOf(others)
<1> DEFINE N == Len(others)
           f == LengthTo(units)
           g == LengthTo(others)
           Less1(s) == IF s # <<>> /\ s[1].gap = 0 THEN 1 ELSE 0
           T == {n \in 0..N : f[n] <= g[n]}
<1>1. /\ LengthOf(units) = f[N] - Less1(units) /\ LengthOf(others) = g[N] - Less1(others)
      /\ f \in [0..N -> Int] /\ g \in [0..N -> Int]
      /\ f[0] = 0 /\ g[0] = 0
      /\ \A n \in 1..N : f[n] = f[n - 1] + Width(units[n])
      /\ \A n \in 1..N : g[n] = g[n - 1] + Width(others[n])
  BY LengthUnfolds
<1>2. ASSUME NEW n \in 1..N
      PROVE  /\ Width(units[n]) \in Int /\ Width(others[n]) \in Int
             /\ Width(units[n]) <= Width(others[n])
  <2>1. units[n] \in Unit /\ others[n] \in Unit
    OBVIOUS
  <2>2. units[n].size <= others[n].size /\ GapOf(units[n], others[n])
    OBVIOUS
  <2> QED
    BY <2>1, <2>2, WidthGrows
<1>3. N \in Nat
  OBVIOUS
<1>4. Less1(units) = Less1(others)
  <2>1. CASE N = 0
    BY <2>1
  <2>2. CASE N # 0
    <3>1. units # <<>> /\ others # <<>> /\ 1 \in 1..N
      BY <2>2
    <3>2. GapOf(units[1], others[1])
      BY <3>1
    <3> QED
      BY <3>1, <3>2 DEF GapOf
  <2> QED
    BY <2>1, <2>2
<1>5. Less1(units) \in Int
  OBVIOUS
<1> HIDE DEF f, g, N, Less1
<1>6. 0 \in T
  BY <1>1, <1>3
<1>7. \A n \in 1..N : n - 1 \in T => n \in T
  <2> SUFFICES ASSUME NEW n \in 1..N, f[n - 1] <= g[n - 1] PROVE f[n] <= g[n]
    BY <1>3
  <2>1. f[n - 1] \in Int /\ g[n - 1] \in Int
    BY SMTT(30), <1>1, <1>3
  <2> QED
    BY <1>1, <1>2, <2>1
<1>8. 0..N \subseteq T
  <2> HIDE DEF T
  <2> QED
    BY <1>3, <1>6, <1>7, InductionTo
<1>9. f[N] <= g[N] /\ f[N] \in Int /\ g[N] \in Int
  BY <1>1, <1>3, <1>8
<1> QED
  BY <1>1, <1>4, <1>5, <1>9

-----------------------------------------------------------------------------
(* Passes that change nothing but sizes and newlines.                       *)

Resized(u, v) ==
    /\ u \in Unit /\ u.size <= v.size /\ GapOf(u, v)
    /\ u.id = v.id /\ u.times = v.times /\ u.key = v.key /\ u.hashes = v.hashes
    /\ u.words = v.words /\ u.figures = v.figures /\ u.lines = v.lines

Shrunk(units, others) ==
    /\ units \in Seq(Unit) /\ Len(units) = Len(others)
    /\ \A k \in 1..Len(others) : Resized(units[k], others[k])

LEMMA ResizedUnit ==
    ASSUME NEW u \in Unit, NEW n \in Int, n <= u.size
    PROVE  Resized([u EXCEPT !.size = n], u)
BY DEF Resized, Unit, GapOf

LEMMA RegappedUnit ==
    ASSUME NEW u \in Unit, NEW n \in Int, NEW m \in Nat, n <= u.size,
           m = u.gap \/ (m = 2 /\ u.gap > 2)
    PROVE  Resized([u EXCEPT !.size = n, !.gap = m], u)
<1> DEFINE v == [u EXCEPT !.size = n, !.gap = m]
<1>1. v \in Unit
  BY DEF Unit
<1>2. v.size = n /\ v.gap = m
  BY DEF Unit
<1>3. /\ v.id = u.id /\ v.times = u.times /\ v.key = u.key /\ v.hashes = u.hashes
      /\ v.words = u.words /\ v.figures = u.figures /\ v.lines = u.lines
  OBVIOUS
<1> HIDE DEF v
<1>4. Resized(v, u)
  BY <1>1, <1>2, <1>3 DEF Resized, GapOf
<1> QED
  BY <1>4 DEF v

LEMMA Same == ASSUME NEW u \in Unit PROVE Resized(u, u)
BY DEF Resized, Unit, GapOf

LEMMA Shrinks ==
    ASSUME NEW units \in Seq(Unit), NEW out \in [DOMAIN units -> Unit],
           \A k \in DOMAIN units : Resized(out[k], units[k])
    PROVE  Shrunk(out, units)
<1>1. DOMAIN units = 1..Len(units) /\ Len(units) \in Nat
  OBVIOUS
<1>2. out \in Seq(Unit) /\ Len(out) = Len(units)
  BY <1>1
<1> QED
  BY <1>1, <1>2 DEF Shrunk

LEMMA ShrunkTransitive ==
    ASSUME NEW a, NEW b, NEW c \in Seq(Unit), Shrunk(a, b), Shrunk(b, c)
    PROVE  Shrunk(a, c)
<1>1. \A k \in 1..Len(c) : Resized(a[k], b[k]) /\ Resized(b[k], c[k]) /\ c[k] \in Unit
  BY DEF Shrunk
<1>2. \A k \in 1..Len(c) : a[k].size \in Int /\ b[k].size \in Int /\ c[k].size \in Int
  BY <1>1 DEF Resized, Unit
<1>3. \A k \in 1..Len(c) : Resized(a[k], c[k])
  BY <1>1, <1>2 DEF Resized, GapOf
<1> QED
  BY <1>3 DEF Shrunk

LEMMA NormalizeShrinks ==
    ASSUME NEW units \in Seq(Unit) PROVE Shrunk(Normalize(units), units)
<1> DEFINE out == Normalize(units)
<1>1. out = [k \in DOMAIN units |->
               [units[k] EXCEPT !.size = @ - units[k].blanks, !.gap = IF @ > 2 THEN 2 ELSE @]]
  BY DEF Normalize, Each
<1>2. ASSUME NEW k \in DOMAIN units PROVE Resized(out[k], units[k])
  <2>1. units[k] \in Unit
    OBVIOUS
  <2>2. units[k].size \in Int /\ units[k].blanks \in Nat /\ units[k].gap \in Nat
    BY <2>1 DEF Unit
  <2> DEFINE n == units[k].size - units[k].blanks
             m == IF units[k].gap > 2 THEN 2 ELSE units[k].gap
  <2>3. /\ n \in Int /\ n <= units[k].size
        /\ m \in Nat /\ (m = units[k].gap \/ (m = 2 /\ units[k].gap > 2))
    BY <2>2
  <2>4. out[k] = [units[k] EXCEPT !.size = n, !.gap = m]
    BY <1>1
  <2> HIDE DEF n, m, out
  <2>5. Resized([units[k] EXCEPT !.size = n, !.gap = m], units[k])
    BY <2>1, <2>3, RegappedUnit
  <2> QED
    BY <2>4, <2>5
<1>3. out \in [DOMAIN units -> Unit]
  <2>1. \A k \in DOMAIN units : out[k] \in Unit
    BY <1>2 DEF Resized
  <2> QED
    BY <1>1, <2>1
<1> QED
  BY <1>2, <1>3, Shrinks

LEMMA StripBlobsShrinks ==
    ASSUME NEW units \in Seq(Unit) PROVE Shrunk(StripBlobs(units), units)
<1> DEFINE out == StripBlobs(units)
<1>1. out = [k \in DOMAIN units |-> 
                          IF units[k].blob < 100 THEN units[k]
                          ELSE [units[k] EXCEPT
                                  !.size = @ - units[k].blob + 9 + Digits(units[k].blob)]]
  BY DEF StripBlobs, Each
<1>2. ASSUME NEW k \in DOMAIN units PROVE Resized(out[k], units[k])
  <2>1. units[k] \in Unit /\ units[k].size \in Int /\ units[k].blob \in Nat
    <3>1. units[k] \in Unit
      OBVIOUS
    <3> QED
      BY <3>1 DEF Unit
  <2> DEFINE n == units[k].size - units[k].blob + 9 + Digits(units[k].blob)
  <2>2. units[k].blob >= 100 => n \in Int /\ n <= units[k].size
    BY SMTT(30), <2>1 DEF Digits
  <2>3. out[k] = IF units[k].blob < 100 THEN units[k] ELSE [units[k] EXCEPT !.size = n]
    BY <1>1
  <2> HIDE DEF n, out
  <2> QED
    BY <2>1, <2>2, <2>3, ResizedUnit, Same
<1>3. out \in [DOMAIN units -> Unit]
  <2>1. \A k \in DOMAIN units : out[k] \in Unit
    BY <1>2 DEF Resized
  <2> QED
    BY <1>1, <2>1
<1> QED
  BY <1>2, <1>3, Shrinks

LEMMA StripMarkdownShrinks ==
    ASSUME NEW units \in Seq(Unit) PROVE Shrunk(StripMarkdown(units), units)
<1> DEFINE out == StripMarkdown(units)
<1>1. out = [k \in DOMAIN units |-> [units[k] EXCEPT !.size = @ - units[k].marks]]
  BY DEF StripMarkdown, Each
<1>2. ASSUME NEW k \in DOMAIN units PROVE Resized(out[k], units[k])
  <2>1. units[k] \in Unit /\ units[k].size \in Int /\ units[k].marks \in Nat
    <3>1. units[k] \in Unit
      OBVIOUS
    <3> QED
      BY <3>1 DEF Unit
  <2> DEFINE n == units[k].size - units[k].marks
  <2>2. n \in Int /\ n <= units[k].size /\ out[k] = [units[k] EXCEPT !.size = n]
    BY <1>1, <2>1
  <2> HIDE DEF n, out
  <2> QED
    BY <2>1, <2>2, ResizedUnit
<1>3. out \in [DOMAIN units -> Unit]
  <2>1. \A k \in DOMAIN units : out[k] \in Unit
    BY <1>2 DEF Resized
  <2> QED
    BY <1>1, <2>1
<1> QED
  BY <1>2, <1>3, Shrinks

LEMMA TrimWordsShrinks ==
    ASSUME NEW units \in Seq(Unit) PROVE Shrunk(TrimWords(units), units)
<1> DEFINE out == TrimWords(units)
<1> DEFINE Opener(k) == IF k = 1 \/ units[k].gap > 0 THEN units[k].opener ELSE 0
<1>1. out = [k \in DOMAIN units |->
               [units[k] EXCEPT !.size = units[k].size - Opener(k) - units[k].filler]]
  BY DEF TrimWords
<1>2. ASSUME NEW k \in DOMAIN units PROVE Resized(out[k], units[k])
  <2>1. units[k] \in Unit
    OBVIOUS
  <2>2. units[k].size \in Int /\ Opener(k) \in Nat /\ units[k].filler \in Nat
    BY <2>1 DEF Unit
  <2> DEFINE n == units[k].size - Opener(k) - units[k].filler
  <2>3. n \in Int /\ n <= units[k].size /\ out[k] = [units[k] EXCEPT !.size = n]
    BY <1>1, <2>2
  <2> HIDE DEF n, out
  <2> QED
    BY <2>1, <2>3, ResizedUnit
<1>3. out \in [DOMAIN units -> Unit]
  <2>1. \A k \in DOMAIN units : out[k] \in Unit
    BY <1>2 DEF Resized
  <2> QED
    BY <1>1, <2>1
<1> QED
  BY <1>2, <1>3, Shrinks

LEMMA ShortenPathsShrinks ==
    ASSUME NEW prefix \in Nat, NEW units \in Seq(Unit)
    PROVE  Shrunk(ShortenPaths(prefix, units), units)
<1> DEFINE out == ShortenPaths(prefix, units)
           Cut(u) == [u EXCEPT !.size = u.size - prefix + 2]
<1>1. \/ out = units
      \/ /\ prefix > 11
         /\ out = [k \in DOMAIN units |-> IF units[k].path THEN Cut(units[k]) ELSE units[k]]
  BY DEF ShortenPaths, Each
<1>2. \A k \in DOMAIN units : out[k] = units[k] \/ (prefix > 11 /\ out[k] = Cut(units[k]))
  BY <1>1
<1>3. ASSUME NEW k \in DOMAIN units PROVE Resized(out[k], units[k])
  <2>1. units[k] \in Unit /\ units[k].size \in Int
    <3>1. units[k] \in Unit
      OBVIOUS
    <3> QED
      BY <3>1 DEF Unit
  <2> DEFINE n == units[k].size - prefix + 2
  <2>2. prefix > 11 => n \in Int /\ n <= units[k].size
    BY <2>1
  <2>3. out[k] = units[k] \/ (prefix > 11 /\ out[k] = [units[k] EXCEPT !.size = n])
    BY <1>2
  <2> HIDE DEF n, out
  <2> QED
    BY <2>1, <2>2, <2>3, ResizedUnit, Same
<1>4. out \in [DOMAIN units -> Unit]
  <2>1. \A k \in DOMAIN units : out[k] \in Unit
    BY <1>3 DEF Resized
  <2> QED
    BY <1>1, <2>1
<1> QED
  BY <1>3, <1>4, Shrinks

LEMMA CleanShrinks ==
    ASSUME NEW x \in Text PROVE Shrunk(Clean(x), x.units)
<1>1. x.units \in Seq(Unit)
  BY DEF Text
<1>2. Shrunk(Normalize(x.units), x.units)
  BY <1>1, NormalizeShrinks
<1>3. Shrunk(Clean(x), Normalize(x.units))
  BY <1>2, StripBlobsShrinks DEF Clean, Shrunk
<1> QED
  BY <1>1, <1>2, <1>3, ShrunkTransitive

-----------------------------------------------------------------------------
(* Logs.                                                                    *)

LogState == [out : Seq(Unit), prevKey : Keys, count : Nat]

(* Line i can be one of those that the unit u stands for.                   *)
Fits(u, lines, i) == lines[i].key = u.key /\ (i > u.id => lines[i].gap = 1)

(* What SqueezeLogs has made of the first n lines before it writes the last *)
(* counter: the run that is open goes up to line n.                         *)
Pending(a, n, lines) ==
    LET last == Len(a.out)
    IN  /\ a.out # <<>> /\ a.out[1].id = 1
        /\ a.out[last].times = 1 /\ a.out[last].id + a.count = n
        /\ a.prevKey = a.out[last].key
        /\ \A k \in 1..(last - 1) : a.out[k + 1].id = a.out[k].id + a.out[k].times
        /\ \A k \in 1..(last - 1) : \A i \in a.out[k].id..(a.out[k].id + a.out[k].times - 1) :
              i \in 1..n /\ Fits(a.out[k], lines, i)
        /\ \A i \in a.out[last].id..n : i \in 1..n /\ Fits(a.out[last], lines, i)

LEMMA CountedUnit ==
    ASSUME NEW u \in Unit, NEW n \in Nat
    PROVE  /\ Counted(u, n) \in Unit
           /\ Counted(u, n).id = u.id /\ Counted(u, n).key = u.key /\ Counted(u, n).times = n
<1> DEFINE m == u.size + 4 + Digits(n)
<1>1. u.size \in Int
  BY DEF Unit
<1>2. Digits(n) \in Int
  BY DEF Digits
<1>3. m \in Int
  BY <1>1, <1>2
<1>4. Counted(u, n) = [u EXCEPT !.times = n, !.size = m]
  BY DEF Counted
<1> HIDE DEF m
<1> QED
  BY ZenonT(60), <1>3, <1>4 DEF Unit

(* Writing a counter leaves every unit but the last one.                    *)
LEMMA Flushed ==
    ASSUME NEW out \in Seq(Unit), NEW n \in Nat
    PROVE  /\ Flush(out, n) \in Seq(Unit) /\ Len(Flush(out, n)) = Len(out)
           /\ \A k \in 1..Len(out) :
                 /\ Flush(out, n)[k].id = out[k].id /\ Flush(out, n)[k].key = out[k].key
                 /\ k # Len(out) \/ n = 0 => Flush(out, n)[k].times = out[k].times
                 /\ k = Len(out) /\ n # 0 => Flush(out, n)[k].times = n + 1
<1>1. CASE n = 0
  BY <1>1 DEF Flush
<1>2. CASE n # 0
  <2> DEFINE last == Len(out)
             new(u) == Counted(u, n + 1)
  <2>1. Flush(out, n) = [out EXCEPT ![last] = new(out[last])]
    BY <1>2 DEF Flush
  <2>2. ASSUME NEW k \in 1..last
        PROVE  /\ out[k] \in Unit /\ new(out[k]) \in Unit
               /\ new(out[k]).id = out[k].id /\ new(out[k]).key = out[k].key
               /\ new(out[k]).times = n + 1
    <3>1. out[k] \in Unit /\ n + 1 \in Nat
      OBVIOUS
    <3> QED
      BY <3>1, CountedUnit
  <2> HIDE DEF new
  <2>3. last \in Nat /\ DOMAIN out = 1..last
    OBVIOUS
  <2>4. \A k \in 1..last : Flush(out, n)[k] = IF k = last THEN new(out[k]) ELSE out[k]
    BY <2>1, <2>3
  <2>5. Flush(out, n) \in [1..last -> Unit]
    BY <2>1, <2>2, <2>3
  <2>6. Flush(out, n) \in Seq(Unit) /\ Len(Flush(out, n)) = last
    BY <2>3, <2>5
  <2> QED
    BY <1>2, <2>2, <2>4, <2>6
<1> QED
  BY <1>1, <1>2

LEMMA FlushAccounts ==
    ASSUME NEW a \in LogState, NEW n \in Nat, NEW lines, Pending(a, n, lines)
    PROVE  Flush(a.out, a.count) \in Seq(Unit) /\ Accounts(Flush(a.out, a.count), n, lines)
<1> DEFINE out == a.out
           f == Flush(out, a.count)
           last == Len(out)
<1>1. out \in Seq(Unit) /\ a.count \in Nat
  BY DEF LogState
<1>2. /\ f \in Seq(Unit) /\ Len(f) = last
      /\ \A k \in 1..last :
            /\ f[k].id = out[k].id /\ f[k].key = out[k].key
            /\ k # last \/ a.count = 0 => f[k].times = out[k].times
            /\ k = last /\ a.count # 0 => f[k].times = a.count + 1
  BY <1>1, Flushed
<1>3. /\ last \in Nat /\ last # 0
      /\ out[1].id = 1 /\ out[last].times = 1 /\ out[last].id + a.count = n
      /\ \A k \in 1..(last - 1) : out[k + 1].id = out[k].id + out[k].times
      /\ \A k \in 1..(last - 1) : \A i \in out[k].id..(out[k].id + out[k].times - 1) :
            i \in 1..n /\ Fits(out[k], lines, i)
      /\ \A i \in out[last].id..n : i \in 1..n /\ Fits(out[last], lines, i)
  BY <1>1 DEF Pending
<1>4. \A k \in 1..last : out[k].id \in Nat /\ out[k].times \in Nat
  <2>1. \A k \in 1..last : out[k] \in Unit
    BY <1>1
  <2> QED
    BY <2>1 DEF Unit
<1>5. a.count \in Nat
  BY <1>1
<1>6. Len(f) = last /\ last > 0
  BY <1>2, <1>3
<1> HIDE DEF f, out, last
<1>7. f[last].times = a.count + 1
  BY <1>2, <1>3, <1>5
<1>8. f[last].id + f[last].times = n + 1
  <2>1. f[last].id = out[last].id /\ out[last].id \in Nat
    BY <1>2, <1>3, <1>4
  <2> QED
    BY <1>3, <1>5, <1>7, <2>1
<1>9. \A k \in 1..(last - 1) :
        f[k].times = out[k].times /\ f[k].id = out[k].id /\ f[k].key = out[k].key
  BY <1>2, <1>3
<1>10. \A k \in 1..(last - 1) : f[k + 1].id = f[k].id + f[k].times
  <2> SUFFICES ASSUME NEW k \in 1..(last - 1) PROVE f[k + 1].id = f[k].id + f[k].times
    OBVIOUS
  <2>1. k + 1 \in 1..last
    BY <1>3
  <2>2. f[k + 1].id = out[k + 1].id
    BY <1>2, <2>1
  <2> QED
    BY <1>3, <1>9, <2>2
<1>11. \A k \in 1..last : \A i \in f[k].id..(f[k].id + f[k].times - 1) :
          i \in 1..n /\ Fits(f[k], lines, i)
  <2> SUFFICES ASSUME NEW k \in 1..last, NEW i \in f[k].id..(f[k].id + f[k].times - 1)
               PROVE  i \in 1..n /\ Fits(f[k], lines, i)
    OBVIOUS
  <2>1. CASE k = last
    <3>1. f[last].id = out[last].id /\ f[last].key = out[last].key /\ out[last].id \in Nat
      BY <1>2, <1>3, <1>4
    <3>2. i \in out[last].id..n
      <4>1. f[k].id + f[k].times - 1 = n /\ f[k].id = out[last].id
        BY <1>3, <1>5, <1>7, <2>1, <3>1
      <4> QED
        BY <4>1
    <3> QED
      BY <1>3, <2>1, <3>1, <3>2, <1>4 DEF Fits
  <2>2. CASE k # last
    <3>1. k \in 1..(last - 1)
      BY <1>3, <2>2
    <3> QED
      BY <1>3, <1>9, <3>1 DEF Fits
  <2> QED
    BY <2>1, <2>2
<1>12. f[1].id = 1
  BY <1>2, <1>3
<1>13. Accounts(f, n, lines)
  BY <1>2, <1>6, <1>8, <1>10, <1>11, <1>12 DEF Accounts, Fits
<1> QED
  BY <1>2, <1>13 DEF f, out

(* A line that opens a run.                                                 *)
LEMMA AppendOpens ==
    ASSUME NEW out \in Seq(Unit), NEW n \in Nat \ {0}, NEW lines \in Seq(Unit), n <= Len(lines),
           lines[n].id = n, lines[n].times = 1,
           (n = 1 /\ out = <<>>) \/ Accounts(out, n - 1, lines)
    PROVE  Pending([out |-> Append(out, lines[n]), prevKey |-> lines[n].key, count |-> 0], n, lines)
<1> DEFINE new == Append(out, lines[n])
           last == Len(new)
<1>1. lines[n] \in Unit
  OBVIOUS
<1>2. /\ new \in Seq(Unit) /\ last = Len(out) + 1 /\ new[last] = lines[n]
      /\ Len(out) \in Nat
      /\ \A k \in 1..Len(out) : new[k] = out[k]
      /\ new # <<>>
  BY <1>1
<1> HIDE DEF new
<1>3. CASE n = 1 /\ out = <<>>
  <2>1. last = 1 /\ \A i \in 1..1 : i = n
    BY <1>2, <1>3
  <2> QED
    BY <1>2, <1>3, <2>1 DEF Pending, new, Fits
<1>4. CASE Accounts(out, n - 1, lines)
  <2>1. 1 \in 1..Len(out)
    BY <1>2, <1>4 DEF Accounts
  <2>2. new[1].id = 1
    BY <1>2, <1>4, <2>1 DEF Accounts
  <2>3. \A k \in 1..(last - 1) : new[k + 1].id = new[k].id + new[k].times
    <3> SUFFICES ASSUME NEW k \in 1..(last - 1) PROVE new[k + 1].id = new[k].id + new[k].times
      OBVIOUS
    <3>1. CASE k = Len(out)
      BY <1>2, <1>4, <3>1 DEF Accounts
    <3>2. CASE k # Len(out)
      BY SMTT(30), <1>2, <1>4, <3>2 DEF Accounts
    <3> QED
      BY <3>1, <3>2
  <2>4. \A k \in 1..(last - 1) : \A i \in new[k].id..(new[k].id + new[k].times - 1) :
           i \in 1..(n - 1) /\ Fits(new[k], lines, i)
    BY <1>2, <1>4, <2>1 DEF Accounts, Fits
  <2>6. \A k \in 1..(last - 1) : \A i \in new[k].id..(new[k].id + new[k].times - 1) : i \in 1..n
    <3> SUFFICES ASSUME NEW k \in 1..(last - 1), NEW i \in new[k].id..(new[k].id + new[k].times - 1)
                 PROVE  i \in 1..n
      OBVIOUS
    <3>1. i \in 1..(n - 1)
      BY <2>4
    <3> QED
      BY <3>1
  <2>5. \A i \in n..n : i = n
    OBVIOUS
  <2>7. \A i \in new[last].id..n : i \in 1..n /\ Fits(new[last], lines, i)
    BY <1>2, <2>5 DEF Fits
  <2> QED
    BY <1>2, <2>2, <2>3, <2>4, <2>6, <2>7 DEF Pending, new
<1> QED
  BY <1>3, <1>4

(* Where it starts.                                                         *)
LogInit == [out |-> <<>>, prevKey |-> "", count |-> 0]

LEMMA LogInitType ==
    /\ LogInit \in LogState
    /\ LogInit.out = <<>> /\ LogInit.prevKey = "" /\ LogInit.count = 0
<1> DEFINE out == <<>>
           key == ""
<1>1. out \in Seq(Unit)
  OBVIOUS
<1>2. key \in Keys
  BY KeysAssumption
<1> HIDE DEF out, key
<1>3. [out |-> out, prevKey |-> key, count |-> 0] \in LogState
  BY <1>1, <1>2 DEF LogState
<1>4. LogInit \in LogState
  BY <1>3 DEF LogInit, out, key
<1> QED
  BY <1>4 DEF LogInit

LEMMA LogLineType ==
    ASSUME NEW a \in LogState, NEW u \in Unit PROVE LogLine(a, u) \in LogState
<1>1. a.out \in Seq(Unit) /\ a.prevKey \in Keys /\ a.count \in Nat /\ u.key \in Keys
  BY DEF LogState, Unit
<1>2. Append(Flush(a.out, a.count), u) \in Seq(Unit)
  BY <1>1, Flushed
<1>3. CASE u.key = a.prevKey /\ u.key # "" /\ u.gap = 1
  <2>1. LogLine(a, u) = [a EXCEPT !.count = a.count + 1]
    BY <1>3 DEF LogLine
  <2> QED
    BY <1>1, <2>1 DEF LogState
<1>4. CASE ~(u.key = a.prevKey /\ u.key # "" /\ u.gap = 1)
  <2>1. LogLine(a, u) = [out |-> Append(Flush(a.out, a.count), u), prevKey |-> u.key, count |-> 0]
    BY <1>4 DEF LogLine
  <2> QED
    BY <1>1, <1>2, <2>1 DEF LogState
<1> QED
  BY <1>3, <1>4

(* The next line goes on with the run that is open or opens another.        *)
LEMMA LogLinePends ==
    ASSUME NEW a \in LogState, NEW n \in Nat \ {0}, NEW lines \in Seq(Unit), n <= Len(lines),
           lines[n].id = n, lines[n].times = 1,
           (n = 1 /\ a = LogInit) \/ Pending(a, n - 1, lines)
    PROVE  Pending(LogLine(a, lines[n]), n, lines)
<1>1. a.out \in Seq(Unit) /\ a.count \in Nat /\ n - 1 \in Nat
  BY DEF LogState
<1>2. CASE lines[n].key = a.prevKey /\ lines[n].key # "" /\ lines[n].gap = 1
  <2> DEFINE b == [a EXCEPT !.count = @ + 1]
             last == Len(a.out)
  <2>1. LogLine(a, lines[n]) = b
    BY <1>2 DEF LogLine
  <2>2. Pending(a, n - 1, lines)
    BY <1>2, LogInitType
  <2>3. b.out = a.out /\ b.prevKey = a.prevKey /\ b.count = a.count + 1
    BY DEF LogState
  <2>4. a.out[last].id \in Nat /\ last \in Nat
    <3>1. last \in 1..Len(a.out)
      BY <1>1, <2>2 DEF Pending
    <3>2. a.out[last] \in Unit
      BY <1>1, <3>1
    <3>3. a.out[last].id \in Nat
      BY <3>2 DEF Unit
    <3> QED
      BY <1>1, <3>3
  <2>5. a.out[last].id + b.count = n
    <3>1. a.out[last].id + a.count = n - 1
      BY <2>2 DEF Pending
    <3> HIDE DEF last, b
    <3> QED
      BY SMTT(30), <1>1, <2>3, <2>4, <3>1
  <2>6. \A i \in a.out[last].id..n : i \in 1..n /\ Fits(a.out[last], lines, i)
    <3> SUFFICES ASSUME NEW i \in a.out[last].id..n
                 PROVE  i \in 1..n /\ Fits(a.out[last], lines, i)
      OBVIOUS
    <3>1. CASE i = n
      <4>1. a.prevKey = a.out[last].key
        BY <2>2 DEF Pending
      <4>2. n \in 1..n
        OBVIOUS
      <4>3. Fits(a.out[last], lines, n)
        BY <1>2, <4>1 DEF Fits
      <4> QED
        BY <3>1, <4>2, <4>3
    <3>2. CASE i # n
      <4>1. i \in a.out[last].id..(n - 1)
        BY <2>4, <3>2
      <4>2. i \in 1..(n - 1) /\ Fits(a.out[last], lines, i)
        BY <2>2, <4>1 DEF Pending
      <4> QED
        BY <4>2
    <3> QED
      BY <3>1, <3>2
  <2>7. \A k \in 1..(last - 1) :
           \A i \in a.out[k].id..(a.out[k].id + a.out[k].times - 1) : i \in 1..n
    <3>1. \A k \in 1..(last - 1) : a.out[k].id \in Nat /\ a.out[k].times \in Nat
      <4>1. \A k \in 1..(last - 1) : a.out[k] \in Unit
        BY <1>1
      <4> QED
        BY <4>1 DEF Unit
    <3>2. \A k \in 1..(last - 1) :
             \A i \in a.out[k].id..(a.out[k].id + a.out[k].times - 1) : i \in 1..(n - 1)
      BY <2>2 DEF Pending
    <3> QED
      BY <3>1, <3>2
  <2> HIDE DEF b
  <2>8. Pending(b, n, lines)
    BY <2>2, <2>3, <2>5, <2>6, <2>7 DEF Pending
  <2> QED
    BY <2>1, <2>8
<1>3. CASE ~(lines[n].key = a.prevKey /\ lines[n].key # "" /\ lines[n].gap = 1)
  <2> DEFINE out == Flush(a.out, a.count)
  <2>1. LogLine(a, lines[n]) =
           [out |-> Append(out, lines[n]), prevKey |-> lines[n].key, count |-> 0]
    BY <1>3 DEF LogLine
  <2>2. out \in Seq(Unit)
    BY <1>1, Flushed
  <2>3. (n = 1 /\ out = <<>>) \/ Accounts(out, n - 1, lines)
    <3>1. CASE n = 1 /\ a = LogInit
      BY <3>1, LogInitType DEF Flush
    <3>2. CASE Pending(a, n - 1, lines)
      BY <1>1, <3>2, FlushAccounts
    <3> QED
      BY <3>1, <3>2
  <2> HIDE DEF out
  <2> QED
    BY <2>1, <2>2, <2>3, AppendOpens
<1> QED
  BY <1>2, <1>3

(* The function that SqueezeLogs defines.                                   *)
LogTo(units) ==
    CHOOSE f : f = [n \in 0..Len(units) |-> IF n = 0 THEN LogInit ELSE LogLine(f[n - 1], units[n])]

LEMMA LogUnfolds ==
    ASSUME NEW units \in Seq(Unit)
    PROVE  LET f == LogTo(units)
               N == Len(units)
           IN  /\ SqueezeLogs(units) = Flush(f[N].out, f[N].count)
               /\ f[0] = LogInit
               /\ \A n \in 1..N : f[n] = LogLine(f[n - 1], units[n])
<1> DEFINE N == Len(units)
           step == [n \in 1..N |-> [a \in LogState |-> LogLine(a, units[n])]]
<1>1. SqueezeLogs(units) = Flush(LogTo(units)[N].out, LogTo(units)[N].count)
  BY DEF SqueezeLogs, Through, LogTo, LogInit
<1>2. N \in Nat /\ \A n \in 1..N : units[n] \in Unit
  OBVIOUS
<1>3. step \in [1..N -> [LogState -> LogState]]
  BY <1>2, LogLineType
<1>4. LogInit \in LogState
  BY LogInitType
<1>5. PICK f \in [0..N -> LogState] : IsFold(f, N, LogInit, step)
  <2> HIDE DEF step, N
  <2> QED
    BY <1>2, <1>3, <1>4, Folds
<1>6. f = [n \in 0..N |-> IF n = 0 THEN LogInit ELSE LogLine(f[n - 1], units[n])]
  <2>1. ASSUME NEW n \in 1..N PROVE f[n] = LogLine(f[n - 1], units[n])
    <3>1. n - 1 \in 0..N /\ f[n - 1] \in LogState
      OBVIOUS
    <3>2. f[n] = step[n][f[n - 1]]
      BY <1>5 DEF IsFold
    <3> QED
      BY <3>1, <3>2
  <2>2. f[0] = LogInit
    BY <1>5 DEF IsFold
  <2>3. f = [n \in 0..N |-> f[n]]
    OBVIOUS
  <2>4. \A n \in 0..N : f[n] = IF n = 0 THEN LogInit ELSE LogLine(f[n - 1], units[n])
    BY <2>1, <2>2
  <2> QED
    BY <2>3, <2>4
<1>7. LogTo(units) =
        [n \in 0..N |-> IF n = 0 THEN LogInit ELSE LogLine(LogTo(units)[n - 1], units[n])]
  BY <1>6 DEF LogTo
<1>8. /\ LogTo(units)[0] = LogInit
      /\ \A n \in 1..N : LogTo(units)[n] = LogLine(LogTo(units)[n - 1], units[n])
  BY <1>7
<1> QED
  BY <1>1, <1>8

(* What SqueezeLogs makes of lines accounts for all of them.                *)
LEMMA SqueezeLogsAccounts ==
    ASSUME NEW lines \in Seq(Unit), lines # <<>>,
           \A n \in 1..Len(lines) : lines[n].id = n /\ lines[n].times = 1
    PROVE  SqueezeLogs(lines) \in Seq(Unit) /\ Accounts(SqueezeLogs(lines), Len(lines), lines)
<1> DEFINE N == Len(lines)
           f == LogTo(lines)
           T == {n \in 0..N : f[n] \in LogState /\ (n = 0 \/ Pending(f[n], n, lines))}
<1>1. /\ SqueezeLogs(lines) = Flush(f[N].out, f[N].count)
      /\ f[0] = LogInit
      /\ \A n \in 1..N : f[n] = LogLine(f[n - 1], lines[n])
  BY LogUnfolds
<1>2. N \in Nat /\ N # 0 /\ \A n \in 1..N : lines[n] \in Unit
  OBVIOUS
<1> HIDE DEF f
<1>3. 0 \in T
  <2>1. 0 \in 0..N
    BY <1>2
  <2>2. f[0] \in LogState
    BY <1>1, LogInitType
  <2> QED
    BY <2>1, <2>2
<1>4. ASSUME NEW n \in 1..N, n - 1 \in T PROVE n \in T
  <2>1. f[n - 1] \in LogState /\ ((n = 1 /\ f[n - 1] = LogInit) \/ Pending(f[n - 1], n - 1, lines))
    BY <1>1, <1>2, <1>4
  <2>2. f[n] \in LogState
    BY <1>1, <1>2, <2>1, LogLineType
  <2>3. Pending(LogLine(f[n - 1], lines[n]), n, lines)
    <3>1. n \in Nat \ {0} /\ n <= Len(lines)
      BY <1>2
    <3> QED
      BY <2>1, <3>1, LogLinePends
  <2>4. f[n] = LogLine(f[n - 1], lines[n])
    BY <1>1
  <2> QED
    BY <2>2, <2>3, <2>4
<1>5. 0..N \subseteq T
  <2> HIDE DEF T, N
  <2> QED
    BY <1>2, <1>3, <1>4, InductionTo
<1>6. f[N] \in LogState /\ Pending(f[N], N, lines)
  BY <1>2, <1>5
<1> QED
  BY <1>1, <1>2, <1>6, FlushAccounts

LEMMA ShrunkAccounts ==
    ASSUME NEW units \in Seq(Unit), NEW out, Shrunk(out, units), NEW n, NEW lines,
           Accounts(units, n, lines)
    PROVE  Accounts(out, n, lines)
<1> DEFINE last == Len(units)
<1>1. last \in Nat /\ last > 0 /\ Len(out) = last
  BY DEF Accounts, Shrunk
<1>2. \A k \in 1..last :
        out[k].id = units[k].id /\ out[k].times = units[k].times /\ out[k].key = units[k].key
  BY DEF Shrunk, Resized
<1>3. out[1].id = 1 /\ out[last].id + out[last].times = n + 1
  BY <1>1, <1>2 DEF Accounts
<1>4. ASSUME NEW k \in 1..(last - 1) PROVE out[k + 1].id = out[k].id + out[k].times
  <2>1. k \in 1..last /\ k + 1 \in 1..last
    BY <1>1
  <2> QED
    BY <1>2, <2>1 DEF Accounts
<1>5. \A k \in 1..last : \A i \in out[k].id..(out[k].id + out[k].times - 1) :
         i \in 1..n /\ lines[i].key = out[k].key /\ (i > out[k].id => lines[i].gap = 1)
  BY <1>2 DEF Accounts
<1> QED
  BY <1>1, <1>3, <1>4, <1>5 DEF Accounts

LEMMA TextType ==
    ASSUME NEW x \in Text
    PROVE  /\ x.units \in Seq(Unit) /\ x.units # <<>> /\ x.prefix \in Nat
           /\ Len(x.units) \in Nat /\ DOMAIN x.units = 1..Len(x.units)
           /\ \A i \in 1..Len(x.units) :
                 x.units[i] \in Unit /\ x.units[i].id = i /\ x.units[i].times = 1
<1>1. x.units \in Seq(Unit) /\ x.units # <<>> /\ x.prefix \in Nat
  BY DEF Text
<1>2. \A i \in DOMAIN x.units : x.units[i].id = i /\ x.units[i].times = 1
  BY DEF Text
<1> QED
  BY <1>1, <1>2

(* The squeezed lines of any log account for all of its lines.              *)
LEMMA LogIsCounted ==
    ASSUME NEW x \in Text, Classify(x) = "log"
    PROVE  Accounts(Passes(x), Len(x.units), x.units)
<1> DEFINE n == Len(x.units)
           lines == Clean(x)
           out == SqueezeLogs(lines)
<1>1. Passes(x) = ShortenPaths(x.prefix, out)
  BY DEF Passes
<1>2. Shrunk(lines, x.units)
  BY CleanShrinks
<1>3. lines \in Seq(Unit) /\ Len(lines) = n /\ lines # <<>>
  BY <1>2, TextType DEF Shrunk
<1>4. \A i \in 1..n : /\ lines[i].id = i /\ lines[i].times = 1
                      /\ lines[i].key = x.units[i].key
                      /\ lines[i].gap = 1 => x.units[i].gap = 1
  BY <1>2, TextType DEF Shrunk, Resized, GapOf
<1> HIDE DEF lines
<1>5. out \in Seq(Unit) /\ Accounts(out, n, lines)
  BY <1>3, <1>4, SqueezeLogsAccounts
<1> HIDE DEF out
<1>6. Accounts(out, n, x.units)
  BY <1>4, <1>5 DEF Accounts
<1>7. Shrunk(ShortenPaths(x.prefix, out), out)
  BY <1>5, TextType, ShortenPathsShrinks
<1> QED
  BY <1>1, <1>5, <1>6, <1>7, ShrunkAccounts

-----------------------------------------------------------------------------
(* Sentences.                                                               *)

LEMMA Appended ==
    ASSUME NEW out \in Seq(Unit), NEW u \in Unit
    PROVE  LET new == Append(out, u)
           IN  /\ new \in Seq(Unit) /\ Len(new) = Len(out) + 1 /\ new[Len(out) + 1] = u
               /\ \A k \in 1..Len(out) : new[k] = out[k]
               /\ Ids(new) = Ids(out) \cup {u.id}
               /\ InOrder(out) /\ (\A k \in 1..Len(out) : out[k].id < u.id) => InOrder(new)
<1> DEFINE new == Append(out, u)
           last == Len(out)
<1>1. /\ new \in Seq(Unit) /\ Len(new) = last + 1 /\ new[last + 1] = u
      /\ \A k \in 1..last : new[k] = out[k]
      /\ DOMAIN out = 1..last /\ DOMAIN new = 1..(last + 1) /\ last \in Nat
  OBVIOUS
<1> HIDE DEF new, last
<1>2. Ids(new) = Ids(out) \cup {u.id}
  <2>1. Ids(out) = {out[k].id : k \in 1..last} /\ Ids(new) = {new[k].id : k \in 1..(last + 1)}
    BY <1>1 DEF Ids
  <2>2. \A k \in 1..(last + 1) : k \in 1..last \/ k = last + 1
    BY <1>1
  <2>3. \A k \in 1..last : k \in 1..(last + 1)
    BY <1>1
  <2>4. last + 1 \in 1..(last + 1)
    BY <1>1
  <2> QED
    BY <1>1, <2>1, <2>2, <2>3, <2>4
<1>3. ASSUME InOrder(out), \A k \in 1..last : out[k].id < u.id PROVE InOrder(new)
  <2> SUFFICES ASSUME NEW j \in 1..(last + 1), NEW k \in 1..(last + 1), j < k
               PROVE  new[j].id < new[k].id
    BY <1>1 DEF InOrder
  <2>1. j \in 1..last /\ new[j] = out[j]
    BY <1>1
  <2>2. CASE k = last + 1
    BY <1>1, <1>3, <2>1, <2>2
  <2>3. CASE k # last + 1
    <3>1. k \in 1..last /\ new[k] = out[k]
      BY <1>1, <2>3
    <3> QED
      BY <1>1, <1>3, <2>1, <3>1 DEF InOrder
  <2> QED
    BY <2>2, <2>3
<1> QED
  BY <1>1, <1>2, <1>3 DEF new, last

(* Units in order have as many names as there are units.                    *)
LEMMA IdsCount ==
    ASSUME NEW units \in Seq(Unit), InOrder(units)
    PROVE  IsFiniteSet(Ids(units)) /\ Cardinality(Ids(units)) = Len(units)
<1> DEFINE N == Len(units)
           f == [k \in 1..N |-> units[k].id]
<1>1. N \in Nat /\ DOMAIN units = 1..N
  OBVIOUS
<1>2. IsFiniteSet(1..N) /\ Cardinality(1..N) = N
  BY SMTT(30), <1>1, FS_Interval
<1>3. f \in Bijection(1..N, Ids(units))
  <2>1. \A k \in 1..N : units[k].id \in Int
    <3>1. \A k \in 1..N : units[k] \in Unit
      OBVIOUS
    <3>2. \A u \in Unit : u.id \in Int
      BY DEF Unit
    <3> QED
      BY <3>1, <3>2
  <2>2. \A j, k \in 1..N : f[j] = f[k] => j = k
    <3> HIDE DEF N
    <3> SUFFICES ASSUME NEW j \in 1..N, NEW k \in 1..N, units[j].id = units[k].id, j # k
                 PROVE  FALSE
      OBVIOUS
    <3>1. j < k \/ k < j
      BY <1>1
    <3>2. units[j].id < units[k].id \/ units[k].id < units[j].id
      BY <1>1, <3>1 DEF InOrder
    <3> QED
      BY <2>1, <3>2
  <2>3. f \in [1..N -> Ids(units)]
    BY <1>1 DEF Ids
  <2>4. \A i \in Ids(units) : \E k \in 1..N : f[k] = i
    BY <1>1 DEF Ids
  <2> HIDE DEF f, N
  <2> QED
    BY <2>2, <2>3, <2>4 DEF Bijection, Injection, Surjection, IsInjective
<1>4. ExistsBijection(1..N, Ids(units))
  <2> HIDE DEF f
  <2> QED
    BY <1>3 DEF ExistsBijection
<1> QED
  BY <1>2, <1>4, FS_Bijection

(* Joining units changes nothing but the newlines between them.             *)
LEMMA JoinedKeeps ==
    ASSUME NEW units \in Seq(Unit)
    PROVE  LET out == Joined(units)
           IN  /\ out \in Seq(Unit) /\ Len(out) = Len(units)
               /\ \A k \in 1..Len(units) :
                     /\ out[k].id = units[k].id /\ out[k].words = units[k].words
                     /\ out[k].figures = units[k].figures
               /\ InOrder(units) => InOrder(out)
               /\ Ids(out) = Ids(units)
<1> DEFINE out == Joined(units)
           N == Len(units)
<1>1. N \in Nat /\ DOMAIN units = 1..N
  OBVIOUS
<1>2. out = [k \in 1..N |-> IF k = 1 THEN units[k] ELSE [units[k] EXCEPT !.gap = 0]]
  BY <1>1 DEF Joined
<1>3. ASSUME NEW k \in 1..N
      PROVE  /\ out[k] \in Unit
             /\ out[k].id = units[k].id /\ out[k].words = units[k].words
             /\ out[k].figures = units[k].figures
  <2>1. units[k] \in Unit
    BY <1>1
  <2>2. out[k] = units[k] \/ out[k] = [units[k] EXCEPT !.gap = 0]
    BY <1>2
  <2> DEFINE v == [units[k] EXCEPT !.gap = 0]
  <2>3. v \in Unit
    BY <2>1 DEF Unit
  <2>4. v.id = units[k].id /\ v.words = units[k].words /\ v.figures = units[k].figures
    BY <2>1 DEF Unit
  <2> HIDE DEF out, v
  <2>5. out[k] = units[k] \/ out[k] = v
    BY <2>2 DEF v
  <2> QED
    BY <2>1, <2>3, <2>4, <2>5
<1>4. out \in [1..N -> Unit]
  BY <1>2, <1>3
<1> HIDE DEF out
<1>5. out \in Seq(Unit) /\ Len(out) = N /\ DOMAIN out = 1..N
  BY <1>1, <1>4
<1>6. InOrder(units) => InOrder(out)
  BY <1>1, <1>3, <1>5 DEF InOrder
<1>7. Ids(out) = Ids(units)
  BY <1>1, <1>3, <1>5 DEF Ids
<1> QED
  BY <1>3, <1>5, <1>6, <1>7 DEF out

(* What Dedupe carries from sentence to sentence, and where it starts.      *)
SentenceState == [kept : Seq(Unit), prints : SUBSET SUBSET Nat]

SentenceInit == [kept |-> <<>>, prints |-> {}]

LEMMA SentenceInitType ==
    /\ SentenceInit \in SentenceState
    /\ SentenceInit.kept = <<>> /\ SentenceInit.prints = {}
<1> DEFINE kept == <<>>
<1>1. kept \in Seq(Unit)
  OBVIOUS
<1> HIDE DEF kept
<1>2. [kept |-> kept, prints |-> {}] \in SentenceState
  BY <1>1 DEF SentenceState
<1> QED
  BY <1>2 DEF SentenceInit, kept

LEMMA FingerprintType == ASSUME NEW u \in Unit PROVE Fingerprint(u) \in SUBSET Nat
<1>1. u.hashes \in Seq(SUBSET Nat)
  BY DEF Unit
<1>2. \A i \in DOMAIN u.hashes : u.hashes[i] \in SUBSET Nat
  BY <1>1
<1>3. UNION ToSet(u.hashes) \subseteq Nat
  BY <1>2 DEF ToSet
<1> QED
  BY <1>3 DEF Fingerprint

(* What one sentence does to those that are kept.                           *)
LEMMA SentenceCases ==
    ASSUME NEW a \in SentenceState, NEW u \in Unit
    PROVE  LET b == Sentence(a, u)
           IN  /\ b \in SentenceState
               /\ \/ u.size < 15 /\ b.kept = Append(a.kept, u) /\ b.prints = a.prints
                  \/ u.size >= 15 /\ Near(u, a.prints) /\ b = a
                  \/ b.kept = Append(a.kept, u) /\ b.prints = a.prints \cup {Fingerprint(u)}
<1>1. a.kept \in Seq(Unit) /\ a.prints \in SUBSET SUBSET Nat
  BY DEF SentenceState
<1>2. Append(a.kept, u) \in Seq(Unit)
  BY <1>1
<1>3. u.size \in Int
  BY DEF Unit
<1>4. CASE u.size < 15
  <2>1. Sentence(a, u) = [a EXCEPT !.kept = Append(a.kept, u)]
    BY <1>4 DEF Sentence
  <2> QED
    BY <1>2, <1>4, <2>1 DEF SentenceState
<1>5. CASE u.size >= 15 /\ Near(u, a.prints)
  <2>1. Sentence(a, u) = a
    BY <1>3, <1>5 DEF Sentence
  <2> QED
    BY <1>5, <2>1
<1>6. CASE u.size >= 15 /\ ~Near(u, a.prints)
  <2>1. Sentence(a, u) = [kept |-> Append(a.kept, u), prints |-> a.prints \cup {Fingerprint(u)}]
    BY <1>3, <1>6 DEF Sentence
  <2>2. a.prints \cup {Fingerprint(u)} \in SUBSET SUBSET Nat
    BY <1>1, FingerprintType
  <2> QED
    BY <1>2, <2>1, <2>2 DEF SentenceState
<1> QED
  BY <1>3, <1>4, <1>5, <1>6

(* The sentences that are kept of the first n, and why the others are not.  *)
KeptOf(a, n, units) ==
    /\ InOrder(a.kept)
    /\ \A k \in 1..Len(a.kept) : a.kept[k].id \in 1..n /\ a.kept[k] = units[a.kept[k].id]
    /\ \A p \in a.prints : \E j \in Ids(a.kept) : p = Fingerprint(units[j])
    /\ \A i \in 1..n \ Ids(a.kept) :
          /\ units[i].size >= 15
          /\ \E j \in Ids(a.kept) : j < i /\ Near(units[i], {Fingerprint(units[j])})

LEMMA SentenceKeeps ==
    ASSUME NEW a \in SentenceState, NEW n \in Nat \ {0}, NEW units \in Seq(Unit), n <= Len(units),
           units[n].id = n, KeptOf(a, n - 1, units)
    PROVE  KeptOf(Sentence(a, units[n]), n, units)
<1> DEFINE u == units[n]
           b == Sentence(a, u)
           last == Len(a.kept)
<1>1. u \in Unit /\ u.id = n
  OBVIOUS
<1>2. a.kept \in Seq(Unit) /\ last \in Nat
  BY DEF SentenceState
<1>3. /\ InOrder(a.kept)
      /\ \A k \in 1..last : a.kept[k].id \in 1..(n - 1) /\ a.kept[k] = units[a.kept[k].id]
      /\ \A p \in a.prints : \E j \in Ids(a.kept) : p = Fingerprint(units[j])
      /\ \A i \in 1..(n - 1) \ Ids(a.kept) :
            /\ units[i].size >= 15
            /\ \E j \in Ids(a.kept) : j < i /\ Near(units[i], {Fingerprint(units[j])})
  BY DEF KeptOf
<1>4. Ids(a.kept) \subseteq 1..(n - 1)
  BY <1>2, <1>3 DEF Ids
<1>5. \A i \in 1..n : i = n \/ i \in 1..(n - 1)
  OBVIOUS
<1>6. ASSUME b.kept = Append(a.kept, u), b.prints \subseteq a.prints \cup {Fingerprint(u)}
      PROVE  KeptOf(b, n, units)
  <2> DEFINE new == Append(a.kept, u)
  <2>1. /\ Len(new) = last + 1 /\ new[last + 1] = u
        /\ \A k \in 1..last : new[k] = a.kept[k]
        /\ Ids(new) = Ids(a.kept) \cup {n}
        /\ InOrder(a.kept) /\ (\A k \in 1..last : a.kept[k].id < n) => InOrder(new)
    <3> HIDE DEF u
    <3> QED
      BY <1>1, <1>2, Appended
  <2> HIDE DEF new
  <2>2. InOrder(new)
    <3>1. \A k \in 1..last : a.kept[k].id < n
      BY <1>3
    <3> QED
      BY <1>3, <2>1, <3>1
  <2>3. ASSUME NEW k \in 1..Len(new) PROVE new[k].id \in 1..n /\ new[k] = units[new[k].id]
    <3>1. CASE k = last + 1
      BY <1>1, <2>1, <3>1
    <3>2. CASE k # last + 1
      <4>1. k \in 1..last
        BY <1>2, <2>1, <3>2
      <4>2. new[k] = a.kept[k] /\ a.kept[k].id \in 1..(n - 1)
        BY <1>3, <2>1, <4>1
      <4> QED
        BY <1>3, <4>1, <4>2
    <3> QED
      BY <3>1, <3>2
  <2>4. \A p \in b.prints : \E j \in Ids(new) : p = Fingerprint(units[j])
    BY <1>3, <1>6, <2>1
  <2>5. ASSUME NEW i \in 1..n \ Ids(new)
        PROVE  /\ units[i].size >= 15
               /\ \E j \in Ids(new) : j < i /\ Near(units[i], {Fingerprint(units[j])})
    <3>1. i \in 1..(n - 1) \ Ids(a.kept)
      BY <1>5, <2>1
    <3> QED
      BY <1>3, <2>1, <3>1
  <2>6. b.kept = new
    BY <1>6 DEF new
  <2> QED
    BY <2>2, <2>3, <2>4, <2>5, <2>6 DEF KeptOf
<1>7. ASSUME u.size >= 15, Near(u, a.prints), b = a PROVE KeptOf(b, n, units)
  <2>1. \E j \in Ids(a.kept) : Near(u, {Fingerprint(units[j])})
    <3>1. PICK p \in a.prints : BitDiff(Fingerprint(u), p) <= 3
      BY <1>7 DEF Near
    <3>2. PICK j \in Ids(a.kept) : p = Fingerprint(units[j])
      BY <1>3
    <3> QED
      BY <3>1, <3>2 DEF Near
  <2>2. \A j \in Ids(a.kept) : j < n
    BY <1>4
  <2>3. ASSUME NEW i \in 1..n \ Ids(a.kept)
        PROVE  /\ units[i].size >= 15
               /\ \E j \in Ids(a.kept) : j < i /\ Near(units[i], {Fingerprint(units[j])})
    <3>1. CASE i = n
      BY <1>7, <2>1, <2>2, <3>1
    <3>2. CASE i # n
      <4>1. i \in 1..(n - 1) \ Ids(a.kept)
        BY <1>5, <3>2
      <4> QED
        BY <1>3, <4>1
    <3> QED
      BY <3>1, <3>2
  <2>4. \A k \in 1..last : a.kept[k].id \in 1..n /\ a.kept[k] = units[a.kept[k].id]
    BY <1>3
  <2> HIDE DEF b, last
  <2> QED
    BY <1>3, <1>7, <2>3, <2>4 DEF KeptOf, last
<1>8. \/ b.kept = Append(a.kept, u) /\ b.prints \subseteq a.prints \cup {Fingerprint(u)}
      \/ u.size >= 15 /\ Near(u, a.prints) /\ b = a
  <2> HIDE DEF u
  <2> QED
    BY <1>1, SentenceCases
<1> QED
  BY <1>6, <1>7, <1>8

(* The function that Dedupe defines.                                        *)
SentenceTo(units) ==
    CHOOSE f : f = [n \in 0..Len(units) |->
                      IF n = 0 THEN SentenceInit ELSE Sentence(f[n - 1], units[n])]

LEMMA SentenceUnfolds ==
    ASSUME NEW units \in Seq(Unit)
    PROVE  LET f == SentenceTo(units)
               N == Len(units)
           IN  /\ Dedupe(units) = IF N <= 2 \/ Len(f[N].kept) = N THEN units
                                  ELSE Joined(f[N].kept)
               /\ f[0] = SentenceInit
               /\ \A n \in 1..N : f[n] = Sentence(f[n - 1], units[n])
<1> DEFINE N == Len(units)
           step == [n \in 1..N |-> [a \in SentenceState |-> Sentence(a, units[n])]]
<1>1. Dedupe(units) = IF N <= 2 \/ Len(SentenceTo(units)[N].kept) = N THEN units
                      ELSE Joined(SentenceTo(units)[N].kept)
  BY DEF Dedupe, Through, SentenceTo, SentenceInit
<1>2. N \in Nat /\ \A n \in 1..N : units[n] \in Unit
  OBVIOUS
<1>3. step \in [1..N -> [SentenceState -> SentenceState]]
  BY <1>2, SentenceCases
<1>4. PICK f \in [0..N -> SentenceState] : IsFold(f, N, SentenceInit, step)
  <2> HIDE DEF step, N
  <2> QED
    BY <1>2, <1>3, SentenceInitType, Folds
<1>5. f = [n \in 0..N |-> IF n = 0 THEN SentenceInit ELSE Sentence(f[n - 1], units[n])]
  <2>1. ASSUME NEW n \in 1..N PROVE f[n] = Sentence(f[n - 1], units[n])
    <3>1. n - 1 \in 0..N /\ f[n - 1] \in SentenceState
      OBVIOUS
    <3>2. f[n] = step[n][f[n - 1]]
      BY <1>4 DEF IsFold
    <3> QED
      BY <3>1, <3>2
  <2>2. f[0] = SentenceInit
    BY <1>4 DEF IsFold
  <2>3. f = [n \in 0..N |-> f[n]]
    OBVIOUS
  <2>4. \A n \in 0..N : f[n] = IF n = 0 THEN SentenceInit ELSE Sentence(f[n - 1], units[n])
    BY <2>1, <2>2
  <2> QED
    BY <2>3, <2>4
<1>6. SentenceTo(units) = [n \in 0..N |->
                             IF n = 0 THEN SentenceInit
                             ELSE Sentence(SentenceTo(units)[n - 1], units[n])]
  BY <1>5 DEF SentenceTo
<1>7. /\ SentenceTo(units)[0] = SentenceInit
      /\ \A n \in 1..N : SentenceTo(units)[n] = Sentence(SentenceTo(units)[n - 1], units[n])
  BY <1>6
<1> QED
  BY <1>1, <1>7

(* Pass 5 keeps the order, and drops only what is near something it keeps;  *)
(* when it drops nothing it changes nothing.                                *)
LEMMA DedupeKeeps ==
    ASSUME NEW units \in Seq(Unit), \A n \in 1..Len(units) : units[n].id = n
    PROVE  LET out == Dedupe(units)
           IN  /\ out \in Seq(Unit) /\ InOrder(out)
               /\ \A k \in 1..Len(out) :
                     /\ out[k].id \in 1..Len(units)
                     /\ out[k].words = units[out[k].id].words
                     /\ out[k].figures = units[out[k].id].figures
               /\ \A i \in 1..Len(units) \ Ids(out) :
                     /\ units[i].size >= 15
                     /\ \E j \in Ids(out) : j < i /\ Near(units[i], {Fingerprint(units[j])})
               /\ Len(out) = Len(units) => out = units
<1> DEFINE N == Len(units)
           f == SentenceTo(units)
           T == {n \in 0..N : f[n] \in SentenceState /\ KeptOf(f[n], n, units)}
<1>1. /\ Dedupe(units) = IF N <= 2 \/ Len(f[N].kept) = N THEN units ELSE Joined(f[N].kept)
      /\ f[0] = SentenceInit
      /\ \A n \in 1..N : f[n] = Sentence(f[n - 1], units[n])
  BY SentenceUnfolds
<1>2. N \in Nat /\ DOMAIN units = 1..N /\ \A n \in 1..N : units[n] \in Unit
  OBVIOUS
<1>3. CASE Dedupe(units) = units
  <2>1. Ids(units) = 1..N
    BY <1>2 DEF Ids
  <2>2. InOrder(units)
    BY <1>2 DEF InOrder
  <2> QED
    BY <1>2, <1>3, <2>1, <2>2
<1>4. CASE Dedupe(units) # units
  <2> HIDE DEF f
  <2>1. 0 \in T
    <3>1. f[0] \in SentenceState /\ f[0].kept = <<>> /\ f[0].prints = {}
      BY <1>1, SentenceInitType
    <3>2. InOrder(f[0].kept) /\ Len(f[0].kept) = 0
      BY <3>1 DEF InOrder
    <3>3. KeptOf(f[0], 0, units)
      BY <3>1, <3>2 DEF KeptOf
    <3>4. 0 \in 0..N
      BY <1>2
    <3> QED
      BY <3>1, <3>3, <3>4
  <2>2. ASSUME NEW n \in 1..N, n - 1 \in T PROVE n \in T
    <3>1. f[n - 1] \in SentenceState /\ KeptOf(f[n - 1], n - 1, units)
      BY <2>2
    <3>2. f[n] = Sentence(f[n - 1], units[n])
      BY <1>1
    <3>3. f[n] \in SentenceState
      BY <1>2, <3>1, <3>2, SentenceCases
    <3>4. n \in Nat \ {0} /\ n <= Len(units) /\ units[n].id = n
      BY <1>2
    <3>5. KeptOf(Sentence(f[n - 1], units[n]), n, units)
      BY <3>1, <3>4, SentenceKeeps
    <3> QED
      BY <1>2, <3>2, <3>3, <3>5
  <2>3. 0..N \subseteq T
    <3> HIDE DEF T, N
    <3> QED
      BY <1>2, <2>1, <2>2, InductionTo
  <2>4. f[N] \in SentenceState /\ KeptOf(f[N], N, units)
    BY <1>2, <2>3
  <2> DEFINE kept == f[N].kept
  <2>5. Dedupe(units) = Joined(kept) /\ Len(kept) # N
    BY <1>1, <1>4
  <2>6. kept \in Seq(Unit)
    BY <2>4 DEF SentenceState
  <2>7. /\ InOrder(kept)
        /\ \A k \in 1..Len(kept) : kept[k].id \in 1..N /\ kept[k] = units[kept[k].id]
        /\ \A i \in 1..N \ Ids(kept) :
              /\ units[i].size >= 15
              /\ \E j \in Ids(kept) : j < i /\ Near(units[i], {Fingerprint(units[j])})
    BY <2>4 DEF KeptOf
  <2> DEFINE out == Joined(kept)
  <2> HIDE DEF kept, N
  <2>8. /\ out \in Seq(Unit) /\ Len(out) = Len(kept) /\ InOrder(out) /\ Ids(out) = Ids(kept)
        /\ \A k \in 1..Len(kept) :
              /\ out[k].id = kept[k].id /\ out[k].words = kept[k].words
              /\ out[k].figures = kept[k].figures
    BY <2>6, <2>7, JoinedKeeps
  <2> HIDE DEF out
  <2>9. \A k \in 1..Len(out) : /\ out[k].id \in 1..N
                               /\ out[k].words = units[out[k].id].words
                               /\ out[k].figures = units[out[k].id].figures
    BY <2>7, <2>8
  <2> QED
    BY <2>5, <2>7, <2>8, <2>9 DEF out, N
<1> QED
  BY <1>3, <1>4

(* What the passes up to 5 leave, and why the rest has gone.                *)
LEMMA OnceKeeps ==
    ASSUME NEW x \in Text
    PROVE  LET out == Once(x)
               u == x.units
           IN  /\ out \in Seq(Unit) /\ InOrder(out) /\ Ids(out) \subseteq 1..Len(u)
               /\ \A k \in 1..Len(out) :
                     /\ out[k].id \in 1..Len(u) /\ out[k].words = u[out[k].id].words
                     /\ out[k].figures = u[out[k].id].figures
               /\ \A i \in 1..Len(u) \ Ids(out) : NearKept(x, i)
               /\ Ids(out) = 1..Len(u) => Shrunk(out, u)
<1> DEFINE u == x.units
           N == Len(u)
           plain == IF Classify(x) = "markdown" THEN StripMarkdown(Clean(x)) ELSE Clean(x)
           all == ShortenPaths(x.prefix, plain)
           out == Dedupe(all)
<1>1. Once(x) = out
  BY DEF Once
<1>2. Shrunk(Clean(x), u)
  BY CleanShrinks
<1>3. Shrunk(plain, u)
  <2>1. Clean(x) \in Seq(Unit)
    BY <1>2 DEF Shrunk
  <2>2. Shrunk(StripMarkdown(Clean(x)), Clean(x))
    BY <2>1, StripMarkdownShrinks
  <2>3. Shrunk(StripMarkdown(Clean(x)), u)
    BY <1>2, <2>2, TextType, ShrunkTransitive
  <2> QED
    BY <1>2, <2>3
<1> HIDE DEF plain
<1>4. Shrunk(all, plain)
  BY <1>3, TextType, ShortenPathsShrinks DEF Shrunk
<1> HIDE DEF all
<1>5. Shrunk(all, u)
  BY <1>3, <1>4, TextType, ShrunkTransitive
<1>6. /\ all \in Seq(Unit) /\ Len(all) = N
      /\ \A i \in 1..N : /\ all[i].id = i /\ all[i].size <= u[i].size
                         /\ all[i] \in Unit /\ u[i] \in Unit
                         /\ all[i].words = u[i].words /\ all[i].figures = u[i].figures
                         /\ all[i].hashes = u[i].hashes
  BY <1>5, TextType DEF Shrunk, Resized
<1>7. /\ out \in Seq(Unit) /\ InOrder(out)
      /\ \A k \in 1..Len(out) : /\ out[k].id \in 1..N
                                /\ out[k].words = all[out[k].id].words
                                /\ out[k].figures = all[out[k].id].figures
      /\ \A i \in 1..N \ Ids(out) :
            all[i].size >= 15 /\ \E j \in Ids(out) : j < i /\ Near(all[i], {Fingerprint(all[j])})
      /\ Len(out) = N => out = all
  BY <1>6, DedupeKeeps
<1> HIDE DEF out
<1>8. Ids(out) \subseteq 1..N
  BY <1>7 DEF Ids
<1>9. \A i \in 1..N : Fingerprint(all[i]) = Fingerprint(u[i])
  BY <1>6 DEF Fingerprint
<1>10. ASSUME NEW i \in 1..N \ Ids(out) PROVE NearKept(x, i)
  <2>1. PICK j \in Ids(out) : j < i /\ Near(all[i], {Fingerprint(all[j])})
    BY <1>7
  <2>2. Near(u[i], {Fingerprint(u[j])})
    BY <1>8, <1>9, <2>1 DEF Near
  <2>3. all[i].size \in Int /\ u[i].size \in Int
    BY <1>6 DEF Unit
  <2>4. u[i].size >= 15
    BY <1>6, <1>7, <2>3
  <2> HIDE DEF u
  <2> QED
    BY <1>1, <2>1, <2>2, <2>4 DEF NearKept, u
<1>11. ASSUME NEW k \in 1..Len(out)
       PROVE  /\ out[k].id \in 1..N /\ out[k].words = u[out[k].id].words
              /\ out[k].figures = u[out[k].id].figures
  BY <1>6, <1>7
<1>12. ASSUME Ids(out) = 1..N PROVE Shrunk(out, u)
  <2>1. Cardinality(1..N) = Len(out)
    BY <1>7, <1>12, IdsCount
  <2>2. N \in Nat
    BY TextType
  <2>3. Cardinality(1..N) = N
    BY <2>2, FS_Interval
  <2> QED
    BY <1>5, <1>7, <2>1, <2>3
<1> QED
  BY <1>1, <1>7, <1>8, <1>10, <1>11, <1>12

-----------------------------------------------------------------------------
(* Selecting units by their places.                                         *)

Taken(s, n, units, places) == IF n \in places THEN Append(s, units[n]) ELSE s

Nothing == <<>>

SelectTo(units, places) ==
    CHOOSE f : f = [n \in 0..Len(units) |->
                      IF n = 0 THEN Nothing ELSE Taken(f[n - 1], n, units, places)]

LEMMA SelectUnfolds ==
    ASSUME NEW units \in Seq(Unit), NEW places
    PROVE  LET f == SelectTo(units, places)
               N == Len(units)
           IN  /\ Select(units, places) = f[N]
               /\ f[0] = Nothing
               /\ \A n \in 1..N : f[n] = Taken(f[n - 1], n, units, places)
<1> DEFINE N == Len(units)
           F == SelectTo(units, places)
           S == Seq(Unit)
           step == [n \in 1..N |-> [s \in S |-> Taken(s, n, units, places)]]
<1>1. Select(units, places) = F[N]
  BY DEF Select, SelectTo, Taken, Nothing
<1>2. N \in Nat /\ \A n \in 1..N : units[n] \in Unit
  OBVIOUS
<1>3. step \in [1..N -> [S -> S]]
  <2>1. \A n \in 1..N, s \in S : Taken(s, n, units, places) \in S
    BY <1>2 DEF Taken
  <2> QED
    BY <2>1
<1>4. Nothing \in S
  BY DEF Nothing
<1>5. PICK f \in [0..N -> S] : IsFold(f, N, Nothing, step)
  <2> HIDE DEF step, N, S
  <2> QED
    BY <1>2, <1>3, <1>4, Folds
<1>6. f = [n \in 0..N |-> IF n = 0 THEN Nothing ELSE Taken(f[n - 1], n, units, places)]
  <2>1. ASSUME NEW n \in 1..N
        PROVE  f[n] = Taken(f[n - 1], n, units, places)
    <3>1. n - 1 \in 0..N /\ f[n - 1] \in S
      OBVIOUS
    <3>2. f[n] = step[n][f[n - 1]]
      BY <1>5 DEF IsFold
    <3> QED
      BY <3>1, <3>2
  <2>2. f[0] = Nothing
    BY <1>5 DEF IsFold
  <2>3. f = [n \in 0..N |-> f[n]]
    OBVIOUS
  <2>4. \A n \in 0..N : f[n] = IF n = 0 THEN Nothing ELSE Taken(f[n - 1], n, units, places)
    BY <2>1, <2>2
  <2> QED
    BY <2>3, <2>4
<1>7. F = [n \in 0..N |-> IF n = 0 THEN Nothing ELSE Taken(F[n - 1], n, units, places)]
  BY <1>6 DEF SelectTo
<1>8. F[0] = Nothing
  <2> HIDE DEF F
  <2> QED
    BY <1>7
<1>9. \A n \in 1..N : F[n] = Taken(F[n - 1], n, units, places)
  <2> HIDE DEF F
  <2> QED
    BY <1>7
<1> QED
  BY <1>1, <1>8, <1>9

(* Selecting keeps the order, and keeps exactly the units at the places.    *)
LEMMA Selects ==
    ASSUME NEW units \in Seq(Unit), InOrder(units), NEW places
    PROVE  LET out == Select(units, places)
           IN  /\ out \in Seq(Unit) /\ InOrder(out)
               /\ Ids(out) = {units[i].id : i \in places \cap 1..Len(units)}
               /\ \A i \in places \cap 1..Len(units) : \E m \in 1..Len(out) : out[m] = units[i]
<1> DEFINE N == Len(units)
           f == SelectTo(units, places)
           Names(n) == {units[i].id : i \in places \cap 1..n}
           There(s, n) == \A i \in places \cap 1..n : \E m \in 1..Len(s) : s[m] = units[i]
           T == {n \in 0..N : /\ f[n] \in Seq(Unit) /\ InOrder(f[n]) /\ Ids(f[n]) = Names(n)
                              /\ There(f[n], n)}
<1>1. /\ Select(units, places) = f[N] /\ f[0] = Nothing
      /\ \A n \in 1..N : f[n] = Taken(f[n - 1], n, units, places)
  BY SelectUnfolds
<1>2. N \in Nat /\ DOMAIN units = 1..N /\ \A n \in 1..N : units[n] \in Unit
  OBVIOUS
<1> HIDE DEF f
<1>3. 0 \in T
  <2>1. f[0] \in Seq(Unit) /\ Len(f[0]) = 0 /\ DOMAIN f[0] = {}
    BY <1>1 DEF Nothing
  <2>2. InOrder(f[0]) /\ Ids(f[0]) = {}
    BY <2>1 DEF InOrder, Ids
  <2>3. Names(0) = {} /\ There(f[0], 0)
    OBVIOUS
  <2>4. 0 \in 0..N
    BY <1>2
  <2> QED
    BY <2>1, <2>2, <2>3, <2>4
<1>4. ASSUME NEW n \in 1..N, n - 1 \in T PROVE n \in T
  <2> DEFINE s == f[n - 1]
  <2>1. s \in Seq(Unit) /\ InOrder(s) /\ Ids(s) = Names(n - 1) /\ There(s, n - 1)
    BY <1>4
  <2>2. n \in 0..N /\ 1..n = 1..(n - 1) \cup {n}
    BY <1>2
  <2>3. CASE n \in places
    <3>1. f[n] = Append(s, units[n])
      BY <1>1, <2>3 DEF Taken
    <3>2. Names(n) = Names(n - 1) \cup {units[n].id}
      BY <2>2, <2>3
    <3>3. \A k \in 1..Len(s) : s[k].id < units[n].id
      <4> SUFFICES ASSUME NEW k \in 1..Len(s) PROVE s[k].id < units[n].id
        OBVIOUS
      <4>1. s[k].id \in Ids(s)
        BY <2>1 DEF Ids
      <4>2. PICK i \in 1..(n - 1) : s[k].id = units[i].id
        BY <2>1, <4>1
      <4>3. i \in DOMAIN units /\ n \in DOMAIN units /\ i < n
        BY <1>2, <2>2
      <4> QED
        BY <4>2, <4>3 DEF InOrder
    <3>4. units[n] \in Unit
      BY <1>2
    <3>6. There(Append(s, units[n]), n)
      <4> DEFINE new == Append(s, units[n])
      <4>1. /\ Len(new) = Len(s) + 1 /\ new[Len(s) + 1] = units[n]
            /\ \A k \in 1..Len(s) : new[k] = s[k]
        BY <2>1, <3>4, Appended
      <4>2. Len(s) \in Nat
        BY <2>1
      <4> SUFFICES ASSUME NEW i \in places \cap 1..n PROVE \E m \in 1..Len(new) : new[m] = units[i]
        OBVIOUS
      <4> HIDE DEF new, s
      <4>3. CASE i = n
        <5>1. Len(s) + 1 \in 1..Len(new)
          BY <4>1, <4>2
        <5> QED
          BY <4>1, <4>3, <5>1
      <4>4. CASE i # n
        <5>1. i \in places \cap 1..(n - 1)
          BY <2>2, <4>4
        <5>2. PICK m \in 1..Len(s) : s[m] = units[i]
          BY <2>1, <5>1
        <5>3. m \in 1..Len(new)
          BY <4>1, <4>2
        <5> QED
          BY <4>1, <5>2, <5>3
      <4> QED
        BY <4>3, <4>4
    <3> HIDE DEF s, Names, There
    <3>5. f[n] \in Seq(Unit) /\ InOrder(f[n]) /\ Ids(f[n]) = Ids(s) \cup {units[n].id}
      BY <2>1, <3>1, <3>3, <3>4, Appended
    <3> QED
      BY <2>1, <2>2, <3>1, <3>2, <3>5, <3>6
  <2>4. CASE n \notin places
    <3>1. f[n] = s
      BY <1>1, <2>4 DEF Taken
    <3>2. Names(n) = Names(n - 1) /\ There(s, n)
      <4>1. places \cap 1..n = places \cap 1..(n - 1)
        BY <2>2, <2>4
      <4> QED
        BY <2>1, <4>1
    <3> HIDE DEF s, Names, There
    <3> QED
      BY <2>1, <2>2, <3>1, <3>2
  <2> QED
    BY <2>3, <2>4
<1>5. 0..N \subseteq T
  <2> HIDE DEF T, N
  <2> QED
    BY <1>2, <1>3, <1>4, InductionTo
<1>6. N \in T
  <2> HIDE DEF T
  <2>1. N \in 0..N
    BY <1>2
  <2> QED
    BY <1>5, <2>1
<1> QED
  BY <1>1, <1>6

-----------------------------------------------------------------------------
(* Pruning: sentences that go have each a rank of their own.                *)

Rank(units, i) == Cardinality({j \in Prunable(units) : Before(units, j, i)})

LEMMA PrunableType ==
    ASSUME NEW units \in Seq(Unit)
    PROVE  /\ Prunable(units) \subseteq 1..Len(units) /\ IsFiniteSet(Prunable(units))
           /\ \A i \in Prunable(units) :
                 units[i].density \in Int /\ Rank(units, i) \in Nat
<1>1. Len(units) \in Nat /\ \A i \in 1..Len(units) : units[i] \in Unit
  OBVIOUS
<1>2. Prunable(units) \subseteq 1..Len(units)
  BY <1>1 DEF Prunable
<1>3. IsFiniteSet(Prunable(units))
  <2>1. IsFiniteSet(1..Len(units))
    BY <1>1, FS_Interval
  <2> QED
    BY <1>2, <2>1, FS_Subset
<1>4. ASSUME NEW i \in Prunable(units) PROVE Rank(units, i) \in Nat
  <2> DEFINE P == {j \in Prunable(units) : Before(units, j, i)}
  <2>1. P \in SUBSET Prunable(units)
    OBVIOUS
  <2> HIDE DEF P
  <2>2. Cardinality(P) \in Nat
    BY <1>3, <2>1, FS_Subset, FS_CardinalityType
  <2> QED
    BY <2>2 DEF Rank, P
<1>5. \A u \in Unit : u.density \in Int
  BY DEF Unit
<1> QED
  BY <1>1, <1>2, <1>3, <1>4, <1>5

LEMMA RankGrows ==
    ASSUME NEW units \in Seq(Unit), NEW i \in Prunable(units), NEW k \in Prunable(units),
           Before(units, i, k)
    PROVE  Rank(units, i) < Rank(units, k)
<1> DEFINE able == Prunable(units)
           P(n) == {j \in able : Before(units, j, n)}
<1>1. able \subseteq 1..Len(units) /\ IsFiniteSet(able)
  BY PrunableType
<1>2. \A j \in able : j \in Int /\ units[j].density \in Int
  BY <1>1, PrunableType
<1>3. IsFiniteSet(P(i)) /\ IsFiniteSet(P(k))
  BY <1>1, FS_Subset
<1>4. i \notin P(i)
  BY <1>2 DEF Before
<1>5. P(i) \cup {i} \subseteq P(k)
  BY <1>2 DEF Before
<1>6. Cardinality(P(i) \cup {i}) = Cardinality(P(i)) + 1
  <2> HIDE DEF P
  <2> QED
    BY <1>3, <1>4, FS_AddElement
<1>7. Cardinality(P(i) \cup {i}) <= Cardinality(P(k))
  <2> HIDE DEF P
  <2> QED
    BY <1>3, <1>5, FS_Subset
<1>8. Rank(units, i) = Cardinality(P(i)) /\ Rank(units, k) = Cardinality(P(k))
  BY DEF Rank
<1>9. Rank(units, i) \in Nat /\ Rank(units, k) \in Nat
  BY PrunableType
<1> HIDE DEF P
<1> QED
  BY <1>6, <1>7, <1>8, <1>9

LEMMA DropSetIsBounded ==
    ASSUME NEW units \in Seq(Unit)
    PROVE  LET D == DropSet(units)
           IN  /\ D \subseteq Prunable(units) /\ IsFiniteSet(D)
               /\ 100 * Cardinality(D) <= 15 * Len(units)
<1> DEFINE D == DropSet(units)
           most == (15 * Len(units)) \div 100
           rank == [i \in D |-> Rank(units, i)]
<1>1. D = {i \in Prunable(units) : Rank(units, i) < most}
  BY DEF DropSet, Rank
<1>2. D \subseteq Prunable(units)
  BY <1>1
<1>3. most \in Nat /\ 100 * most <= 15 * Len(units)
  <2>1. Len(units) \in Nat
    OBVIOUS
  <2> QED
    BY <2>1
<1>4. IsFiniteSet(D)
  BY <1>2, PrunableType, FS_Subset
<1>5. \A i \in D : Rank(units, i) \in 0..(most - 1)
  <2> HIDE DEF most
  <2>1. \A i \in D : Rank(units, i) \in Nat /\ Rank(units, i) < most
    BY <1>1, PrunableType
  <2> QED
    BY <1>3, <2>1
<1> HIDE DEF D, most
<1>6. rank \in [D -> 0..(most - 1)]
  BY <1>5
<1>7. \A i, k \in D : rank[i] = rank[k] => i = k
  <2> SUFFICES ASSUME NEW i \in D, NEW k \in D, Rank(units, i) = Rank(units, k), i # k
               PROVE  FALSE
    OBVIOUS
  <2>1. i \in Prunable(units) /\ k \in Prunable(units)
    BY <1>2
  <2>2. i \in Int /\ k \in Int /\ units[i].density \in Int /\ units[k].density \in Int
    BY <2>1, PrunableType
  <2>3. Before(units, i, k) \/ Before(units, k, i)
    BY <2>2 DEF Before
  <2>4. Rank(units, i) \in Nat /\ Rank(units, k) \in Nat
    BY <2>1, PrunableType
  <2> QED
    BY <2>1, <2>3, <2>4, RankGrows
<1>8. rank \in Injection(D, 0..(most - 1))
  <2> HIDE DEF rank
  <2> QED
    BY <1>6, <1>7 DEF Injection, IsInjective
<1>9. IsFiniteSet(0..(most - 1)) /\ Cardinality(0..(most - 1)) = most
  <2>1. 0 \in Int /\ most - 1 \in Int
    BY <1>3
  <2>2. IsFiniteSet(0..(most - 1))
    BY <2>1, FS_Interval
  <2>3. Cardinality(0..(most - 1)) = IF 0 > most - 1 THEN 0 ELSE (most - 1) - 0 + 1
    BY <2>1, FS_Interval
  <2> QED
    BY <1>3, <2>2, <2>3
<1>10. Cardinality(D) <= most
  <2> HIDE DEF rank
  <2> QED
    BY <1>8, <1>9, FS_Injection
<1>11. Cardinality(D) \in Nat /\ Len(units) \in Nat
  BY <1>4, FS_CardinalityType
<1>12. 100 * Cardinality(D) <= 15 * Len(units)
  BY <1>3, <1>10, <1>11
<1> QED
  BY <1>2, <1>4, <1>12 DEF D

(* Pruning keeps the order, loses only what can be pruned, and at most 15 % *)
(* of the sentences.                                                        *)
LEMMA PruneKeeps ==
    ASSUME NEW units \in Seq(Unit), InOrder(units)
    PROVE  LET out == Prune(units)
               lost == Ids(units) \ Ids(out)
           IN  /\ out \in Seq(Unit) /\ InOrder(out) /\ Ids(out) \subseteq Ids(units)
               /\ \A id \in lost : \E k \in Prunable(units) : units[k].id = id
               /\ 100 * Cardinality(lost) <= 15 * Cardinality(Ids(units))
<1> DEFINE N == Len(units)
           D == DropSet(units)
           out == Prune(units)
           lost == Ids(units) \ Ids(out)
           gone == {units[k].id : k \in D}
<1>1. N \in Nat /\ DOMAIN units = 1..N
  OBVIOUS
<1>2. IsFiniteSet(Ids(units)) /\ Cardinality(Ids(units)) = N
  BY IdsCount
<1>3. CASE N <= 8 \/ D = {}
  <2>1. out = units
    BY <1>3 DEF Prune
  <2>2. lost = {}
    BY <2>1
  <2>3. Cardinality(lost) = 0
    BY <2>2, FS_EmptySet
  <2> HIDE DEF lost, out, N
  <2>4. 100 * Cardinality(lost) <= 15 * Cardinality(Ids(units))
    BY <1>1, <1>2, <2>3
  <2> QED
    BY <2>1, <2>2, <2>4 DEF lost, out
<1>4. CASE ~(N <= 8 \/ D = {})
  <2> DEFINE kept == Select(units, (1..N) \ D)
  <2>1. out = Joined(kept)
    BY <1>1, <1>4 DEF Prune
  <2>2. /\ out \in Seq(Unit) /\ InOrder(out)
        /\ Ids(out) = {units[i].id : i \in ((1..N) \ D) \cap 1..N}
    <3>1. /\ kept \in Seq(Unit) /\ InOrder(kept)
          /\ Ids(kept) = {units[i].id : i \in ((1..N) \ D) \cap 1..N}
      BY Selects
    <3> HIDE DEF kept, N, D
    <3> QED
      BY <2>1, <3>1, JoinedKeeps
  <2>3. D \subseteq Prunable(units) /\ IsFiniteSet(D) /\ 100 * Cardinality(D) <= 15 * N
    BY DropSetIsBounded
  <2> HIDE DEF D, out
  <2>4. Ids(out) \subseteq Ids(units)
    BY <1>1, <2>2 DEF Ids
  <2>5. lost \subseteq gone
    <3> SUFFICES ASSUME NEW i \in 1..N, units[i].id \notin Ids(out)
                 PROVE  units[i].id \in gone
      BY <1>1 DEF Ids
    <3>1. i \in D
      BY <2>2
    <3> QED
      BY <3>1
  <2>6. [k \in D |-> units[k].id] \in Surjection(D, gone)
    BY DEF Surjection
  <2> HIDE DEF gone, lost
  <2>7. IsFiniteSet(gone) /\ Cardinality(gone) <= Cardinality(D)
    BY <2>3, <2>6, FS_Surjection
  <2>8. IsFiniteSet(lost) /\ Cardinality(lost) <= Cardinality(gone)
    BY <2>5, <2>7, FS_Subset
  <2>9. Cardinality(lost) \in Nat /\ Cardinality(gone) \in Nat /\ Cardinality(D) \in Nat
    BY <2>3, <2>7, <2>8, FS_CardinalityType
  <2>10. 100 * Cardinality(lost) <= 15 * Cardinality(Ids(units))
    <3> HIDE DEF N
    <3> QED
      BY <1>1, <1>2, <2>3, <2>7, <2>8, <2>9
  <2>11. \A id \in lost : \E k \in Prunable(units) : units[k].id = id
    BY <2>3, <2>5 DEF gone
  <2> QED
    BY <2>2, <2>4, <2>10, <2>11 DEF lost, out
<1> QED
  BY <1>1, <1>3, <1>4

(* Passes that change nothing but sizes leave every unit in its place.      *)
LEMMA ShrunkIds ==
    ASSUME NEW units, NEW others \in Seq(Unit), Shrunk(units, others), InOrder(others)
    PROVE  InOrder(units) /\ Ids(units) = Ids(others)
<1>1. /\ units \in Seq(Unit) /\ Len(units) = Len(others)
      /\ \A k \in 1..Len(others) : units[k].id = others[k].id
  BY DEF Shrunk, Resized
<1>2. DOMAIN units = 1..Len(others) /\ DOMAIN others = 1..Len(others)
  BY <1>1
<1> QED
  BY <1>1, <1>2 DEF InOrder, Ids

(* What is left of a unit's lines has a length.                             *)
RemainingTo(u, left) ==
    CHOOSE f : f = [n \in 0..Len(u.lines) |->
                      IF n = 0 THEN -1
                      ELSE IF n \in left THEN f[n - 1] + u.lines[n].size + 1
                      ELSE f[n - 1]]

LEMMA RemainingType ==
    ASSUME NEW u \in Unit, NEW left PROVE Remaining(u, left) \in Int
<1> DEFINE N == Len(u.lines)
           base == -1
           More(n, i) == IF n \in left THEN i + u.lines[n].size + 1 ELSE i
           step == [n \in 1..N |-> [i \in Int |-> More(n, i)]]
           F == RemainingTo(u, left)
<1>1. Remaining(u, left) = F[N]
  BY DEF Remaining, RemainingTo
<1>2. N \in Nat /\ \A n \in 1..N : u.lines[n].size \in Int
  <2>1. u.lines \in Seq(Line)
    BY DEF Unit
  <2>2. \A n \in 1..N : u.lines[n] \in Line
    BY <2>1
  <2> QED
    BY <2>1, <2>2 DEF Line
<1>3. \A n \in 1..N, i \in Int : More(n, i) \in Int
  BY <1>2
<1>4. PICK f \in [0..N -> Int] : IsFold(f, N, base, step)
  <2>1. base \in Int
    OBVIOUS
  <2>2. step \in [1..N -> [Int -> Int]]
    BY <1>3
  <2> HIDE DEF step, base, N
  <2> QED
    BY <1>2, <2>1, <2>2, Folds
<1>5. f = [n \in 0..N |-> IF n = 0 THEN -1
                         ELSE IF n \in left THEN f[n - 1] + u.lines[n].size + 1
                         ELSE f[n - 1]]
  <2>1. ASSUME NEW n \in 1..N PROVE f[n] = More(n, f[n - 1])
    <3>1. n - 1 \in 0..N /\ f[n - 1] \in Int
      BY <1>2
    <3>2. f[n] = step[n][f[n - 1]]
      BY <1>4 DEF IsFold
    <3> HIDE DEF More
    <3> QED
      BY <3>1, <3>2
  <2>2. f[0] = -1
    BY <1>4 DEF IsFold
  <2>3. f = [n \in 0..N |-> f[n]]
    OBVIOUS
  <2>4. \A n \in 0..N : n = 0 \/ n \in 1..N
    BY <1>2
  <2> QED
    BY <2>1, <2>2, <2>3, <2>4
<1>6. F = [n \in 0..N |-> IF n = 0 THEN -1
                         ELSE IF n \in left THEN F[n - 1] + u.lines[n].size + 1
                         ELSE F[n - 1]]
  BY <1>5 DEF RemainingTo
<1> DEFINE T == {n \in 0..N : F[n] \in Int}
<1> HIDE DEF F
<1>7. F[0] = -1 /\ \A n \in 1..N : F[n] = More(n, F[n - 1])
  <2>1. 0 \in 0..N /\ \A n \in 1..N : n \in 0..N /\ n # 0
    BY <1>2
  <2> HIDE DEF N
  <2> QED
    BY <1>6, <2>1
<1>8. 0 \in T
  BY <1>2, <1>7
<1>9. ASSUME NEW n \in 1..N, n - 1 \in T PROVE n \in T
  <2>1. F[n - 1] \in Int
    BY <1>9
  <2>2. More(n, F[n - 1]) \in Int
    <3> HIDE DEF More
    <3> QED
      BY <1>3, <2>1
  <2>3. n \in 0..N /\ F[n] = More(n, F[n - 1])
    BY <1>2, <1>7
  <2> HIDE DEF More
  <2> QED
    BY <2>2, <2>3
<1>10. 0..N \subseteq T
  <2> HIDE DEF T, N
  <2> QED
    BY <1>2, <1>8, <1>9, InductionTo
<1> QED
  BY <1>1, <1>2, <1>10

(* The units with the lines that pass 15 leaves of each.                    *)
Outs(units) == [k \in DOMAIN units |-> Uncommented(units, k)]

LEMMA UncommentedKeeps ==
    ASSUME NEW units \in Seq(Unit)
    PROVE  LET out == Outs(units)
           IN  /\ out \in Seq(Unit) /\ Len(out) = Len(units)
               /\ \A k \in 1..Len(units) :
                     /\ out[k].id = units[k].id
                     /\ out[k].left = {j \in DOMAIN units[k].lines : ~Commented(units, k, j)}
               /\ InOrder(units) => InOrder(out)
<1> DEFINE out == Outs(units)
           N == Len(units)
           Left(k) == {j \in DOMAIN units[k].lines : ~Commented(units, k, j)}
           size(k) == Remaining(units[k], Left(k))
           gap(k) == IF 1 \in Left(k) /\ units[k].gap = 0 THEN 0 ELSE 1
<1>1. N \in Nat /\ DOMAIN units = 1..N
  OBVIOUS
<1>2. out = [k \in 1..N |->
               [units[k] EXCEPT !.left = Left(k), !.size = size(k), !.gap = gap(k)]]
  BY <1>1 DEF Outs, Uncommented
<1>3. ASSUME NEW k \in 1..N
      PROVE  out[k] \in Unit /\ out[k].id = units[k].id /\ out[k].left = Left(k)
  <2>1. units[k] \in Unit
    BY <1>1
  <2>2. size(k) \in Int
    BY <2>1, RemainingType
  <2>3. gap(k) \in Nat
    OBVIOUS
  <2>4. Left(k) \in SUBSET Nat
    <3>1. units[k].lines \in Seq(Line)
      BY <2>1 DEF Unit
    <3>2. DOMAIN units[k].lines = 1..Len(units[k].lines) /\ Len(units[k].lines) \in Nat
      BY <3>1
    <3> QED
      BY <3>2
  <2>5. out[k] = [units[k] EXCEPT !.left = Left(k), !.size = size(k), !.gap = gap(k)]
    BY <1>2
  <2> HIDE DEF out, Left, size, gap
  <2> QED
    BY ZenonT(60), <2>1, <2>2, <2>3, <2>4, <2>5 DEF Unit
<1>4. out \in [1..N -> Unit]
  BY <1>2, <1>3
<1> HIDE DEF out, Left
<1>5. out \in Seq(Unit) /\ Len(out) = N /\ DOMAIN out = 1..N
  BY <1>1, <1>4
<1>6. InOrder(units) => InOrder(out)
  BY <1>1, <1>3, <1>5 DEF InOrder
<1> QED
  BY <1>3, <1>5, <1>6 DEF out, Left

(* Where the lines of a text begin depends on its newlines and lines alone. *)
LEMMA ShrunkComments ==
    ASSUME NEW units, NEW others \in Seq(Unit), Shrunk(units, others), NEW k, NEW j
    PROVE  Commented(units, k, j) = Commented(others, k, j)
<1> DEFINE N == Len(others)
           L(s) == [n \in DOMAIN s |-> s[n].lines]
<1>1. /\ units \in Seq(Unit) /\ Len(units) = N /\ N \in Nat
      /\ DOMAIN units = 1..N /\ DOMAIN others = 1..N
  BY DEF Shrunk
<1>2. \A n \in 1..N : units[n].lines = others[n].lines /\ GapOf(units[n], others[n])
  BY DEF Shrunk, Resized
<1>3. L(units) = L(others)
  BY <1>1, <1>2
<1>4. Begin(units) = Begin(others)
  <2>1. \A n \in 1..N : units[n].gap \in Nat /\ others[n].gap \in Nat
    <3>1. \A n \in 1..N : units[n] \in Unit /\ others[n] \in Unit
      BY <1>1
    <3> QED
      BY <3>1 DEF Unit
  <2>2. \A n \in 1..N : units[n].gap > 0 <=> others[n].gap > 0
    BY <1>2, <2>1 DEF GapOf
  <2>3. \A n \in 1..N : n = 1 \/ n - 1 \in 1..N
    BY <1>1
  <2> QED
    BY <1>1, <1>2, <2>2, <2>3 DEF Begin
<1>5. \A m, i : HeadOf(units, m, i) = HeadOf(others, m, i)
  BY <1>4 DEF HeadOf
<1> HIDE DEF L
<1>6. /\ Commented(units, k, j) <=>
            LET head == HeadOf(units, k, j)
            IN  /\ L(units)[head[1]][head[2]].comment
                /\ \A m \in DOMAIN units : \A i \in DOMAIN L(units)[m] :
                      HeadOf(units, m, i) = head => ~L(units)[m][i].url
      /\ Commented(others, k, j) <=>
            LET head == HeadOf(others, k, j)
            IN  /\ L(others)[head[1]][head[2]].comment
                /\ \A m \in DOMAIN others : \A i \in DOMAIN L(others)[m] :
                      HeadOf(others, m, i) = head => ~L(others)[m][i].url
  BY DEF Commented, L
<1>7. Commented(units, k, j) \in BOOLEAN /\ Commented(others, k, j) \in BOOLEAN
  BY DEF Commented
<1> QED
  BY <1>1, <1>3, <1>5, <1>6, <1>7

(* What is lost of code.                                                    *)
LEMMA CodeLosesComments ==
    ASSUME NEW x \in Text, Classify(x) = "code"
    PROVE  LET left == Passes(x)
               once == Once(x)
           IN  /\ InOrder(left)
               /\ \A i \in DOMAIN x.units \ Ids(once) : NearKept(x, i)
               /\ \A k \in DOMAIN once : \A j \in DOMAIN once[k].lines :
                     Lost(left, once[k].id, j) => CommentMayGo(x, k, j)
<1> DEFINE u == x.units
           N == Len(u)
           once == Once(x)
           left == Passes(x)
           out == Outs(once)
           places == {k \in DOMAIN out : out[k].left # {}}
<1>1. left = Select(out, places)
  BY DEF Passes, DropComments, Outs
<1>2. /\ once \in Seq(Unit) /\ InOrder(once)
      /\ \A i \in 1..N \ Ids(once) : NearKept(x, i)
      /\ Ids(once) = 1..N => Shrunk(once, u)
  BY OnceKeeps
<1>3. DOMAIN u = 1..N /\ u \in Seq(Unit)
  BY TextType
<1> HIDE DEF once, u
<1>4. /\ out \in Seq(Unit) /\ Len(out) = Len(once) /\ InOrder(out)
      /\ \A k \in 1..Len(once) :
            /\ out[k].id = once[k].id
            /\ out[k].left = {j \in DOMAIN once[k].lines : ~Commented(once, k, j)}
  BY <1>2, UncommentedKeeps
<1> HIDE DEF out, left
<1>5. /\ left \in Seq(Unit) /\ InOrder(left)
      /\ \A k \in places \cap 1..Len(out) : \E m \in 1..Len(left) : left[m] = out[k]
  <2> HIDE DEF places
  <2> QED
    BY <1>1, <1>4, Selects
<1>6. ASSUME NEW k \in DOMAIN once, NEW j \in DOMAIN once[k].lines, Lost(left, once[k].id, j)
      PROVE  CommentMayGo(x, k, j)
  <2>1. k \in 1..Len(once) /\ k \in DOMAIN out /\ k \in 1..Len(out)
    BY <1>2, <1>4
  <2>2. Commented(once, k, j)
    <3> SUFFICES ASSUME ~Commented(once, k, j) PROVE FALSE
      OBVIOUS
    <3>1. j \in out[k].left
      BY <1>4, <2>1
    <3>2. PICK m \in 1..Len(left) : left[m] = out[k]
      BY <1>5, <2>1, <3>1
    <3>3. m \in DOMAIN left /\ left[m].id = once[k].id
      BY <1>4, <1>5, <2>1, <3>2
    <3> QED
      BY <1>6, <3>1, <3>2, <3>3 DEF Lost
  <2>3. Ids(once) = DOMAIN u => Commented(u, k, j)
    BY <1>2, <1>3, <2>2, ShrunkComments
  <2> QED
    BY <2>2, <2>3 DEF CommentMayGo, once, u
<1> QED
  BY <1>2, <1>3, <1>5, <1>6 DEF left, once, u

(* What is lost of prose, with headings or without.                         *)
LEMMA ProseLosesLittle ==
    ASSUME NEW x \in Text, Classify(x) \in {"markdown", "prose"}
    PROVE  LET left == Passes(x)
               once == Once(x)
           IN  /\ InOrder(left)
               /\ \A i \in DOMAIN x.units \ Ids(once) : NearKept(x, i)
               /\ \A i \in Ids(once) \ Ids(left) : MayBePruned(x, i)
               /\ 100 * Cardinality(Ids(once) \ Ids(left)) <= 15 * Cardinality(Ids(once))
<1> DEFINE u == x.units
           N == Len(u)
           once == Once(x)
           kept == Prune(once)
           left == Passes(x)
<1>1. left = TrimWords(kept)
  BY DEF Passes
<1>2. /\ once \in Seq(Unit) /\ InOrder(once) /\ Ids(once) \subseteq 1..N
      /\ \A k \in 1..Len(once) :
            /\ once[k].id \in 1..N /\ once[k].words = u[once[k].id].words
            /\ once[k].figures = u[once[k].id].figures
      /\ \A i \in 1..N \ Ids(once) : NearKept(x, i)
  BY OnceKeeps
<1>3. DOMAIN u = 1..N /\ N \in Nat
  BY TextType
<1> HIDE DEF once
<1>4. /\ kept \in Seq(Unit) /\ InOrder(kept) /\ Ids(kept) \subseteq Ids(once)
      /\ \A id \in Ids(once) \ Ids(kept) : \E k \in Prunable(once) : once[k].id = id
      /\ 100 * Cardinality(Ids(once) \ Ids(kept)) <= 15 * Cardinality(Ids(once))
  BY <1>2, PruneKeeps
<1> HIDE DEF kept
<1>5. InOrder(left) /\ Ids(left) = Ids(kept)
  BY <1>1, <1>4, TrimWordsShrinks, ShrunkIds
<1> HIDE DEF left
<1>6. ASSUME NEW i \in Ids(once) \ Ids(left) PROVE MayBePruned(x, i)
  <2>1. PICK k \in Prunable(once) : once[k].id = i
    BY <1>4, <1>5
  <2>2. k \in 2..Len(once) /\ once[k].words > 5 /\ ~once[k].figures
    BY <1>2, <2>1 DEF Prunable
  <2>3. 1 \in DOMAIN once /\ k \in DOMAIN once /\ 1 < k
    BY <1>2, <2>2
  <2>4. once[1].id < i /\ once[1].id \in 1..N
    BY <1>2, <2>1, <2>3 DEF InOrder
  <2>5. i > 1
    <3>1. i \in 1..N
      BY <1>2, <2>1, <2>3
    <3> QED
      BY <1>3, <2>4, <3>1
  <2>6. u[i].words > 5 /\ ~u[i].figures
    BY <1>2, <2>1, <2>2, <2>3
  <2> QED
    BY <2>5, <2>6 DEF MayBePruned
<1> QED
  BY <1>2, <1>3, <1>4, <1>5, <1>6 DEF left, once

-----------------------------------------------------------------------------
LEMMA PassesType == ASSUME NEW x \in Text PROVE Passes(x) \in Seq(Unit)
<1>1. CASE Classify(x) = "log"
  <2> DEFINE n == Len(x.units)
             lines == Clean(x)
             out == SqueezeLogs(lines)
  <2>1. Shrunk(lines, x.units)
    BY CleanShrinks
  <2>2. lines \in Seq(Unit) /\ Len(lines) = n /\ lines # <<>>
    BY <2>1, TextType DEF Shrunk
  <2>3. \A i \in 1..n : lines[i].id = i /\ lines[i].times = 1
    BY <2>1, TextType DEF Shrunk, Resized
  <2> HIDE DEF lines
  <2>4. out \in Seq(Unit)
    BY <2>2, <2>3, SqueezeLogsAccounts
  <2> HIDE DEF out
  <2>5. ShortenPaths(x.prefix, out) \in Seq(Unit)
    BY <2>4, TextType, ShortenPathsShrinks DEF Shrunk
  <2> QED
    BY <1>1, <2>5 DEF Passes, out, lines
<1>2. Once(x) \in Seq(Unit) /\ InOrder(Once(x))
  BY OnceKeeps
<1>3. CASE Classify(x) = "code"
  <2>1. DropComments(Once(x)) \in Seq(Unit)
    <3>1. Outs(Once(x)) \in Seq(Unit) /\ InOrder(Outs(Once(x)))
      BY <1>2, UncommentedKeeps
    <3> QED
      BY <3>1, Selects DEF DropComments, Outs
  <2> QED
    BY <1>3, <2>1 DEF Passes
<1>4. CASE Classify(x) \notin {"log", "code"}
  <2>1. Prune(Once(x)) \in Seq(Unit)
    BY <1>2, PruneKeeps
  <2>2. TrimWords(Prune(Once(x))) \in Seq(Unit)
    BY <2>1, TrimWordsShrinks DEF Shrunk
  <2> QED
    BY <1>4, <2>2 DEF Passes
<1> QED
  BY <1>1, <1>3, <1>4

LEMMA TrimEndType == ASSUME NEW units \in Seq(Unit) PROVE TrimEnd(units) \in Seq(Unit)
<1>1. CASE units # <<>>
  <2>1. Len(units) - 1 \in 0..Len(units) /\ 1 \in Nat
    BY <1>1
  <2>2. SubSeq(units, 1, Len(units) - 1) \in Seq(Unit)
    BY <1>1, <2>1
  <2> QED
    BY <2>2 DEF TrimEnd, Front
<1>2. CASE units = <<>>
  BY <1>2 DEF TrimEnd
<1> QED
  BY <1>1, <1>2

LEMMA LengthType == ASSUME NEW units \in Seq(Unit) PROVE LengthOf(units) \in Int
<1>1. LengthTo(units)[Len(units)] \in Int
  <2>1. Len(units) \in 0..Len(units)
    OBVIOUS
  <2> QED
    BY <2>1, LengthUnfolds
<1> QED
  BY <1>1, LengthUnfolds

LEMMA SqueezeShortens ==
    ASSUME NEW x \in Text PROVE SqueezedLength(x) <= LengthOf(x.units)
<1> DEFINE n == LengthOf(x.units)
           m == LengthOf(Clean(x))
           r == LengthOf(TrimEnd(Passes(x)))
<1>1. Shrunk(Clean(x), x.units) /\ x.units \in Seq(Unit)
  BY CleanShrinks, TextType
<1>2. m <= n
  BY <1>1, LengthIsMonotonic DEF Shrunk, Resized
<1>3. n \in Int /\ m \in Int
  BY <1>1, LengthType DEF Shrunk
<1>4. x.json.sampled \in Nat /\ x.json.compact \in Nat /\ x.json.items \in Nat
  BY DEF Text
<1>5. SqueezeJSON(x, Clean(x)) <= m
  <2>1. \/ SqueezeJSON(x, Clean(x)) = x.json.sampled /\ x.json.sampled < m
        \/ SqueezeJSON(x, Clean(x)) = x.json.compact /\ x.json.compact < m
        \/ SqueezeJSON(x, Clean(x)) = m
    BY DEF SqueezeJSON
  <2> QED
    BY <1>3, <1>4, <2>1
<1>6. SqueezeJSON(x, Clean(x)) <= n
  BY <1>2, <1>3, <1>4, <1>5 DEF SqueezeJSON
<1>7. \/ SqueezedLength(x) = n
      \/ SqueezedLength(x) = SqueezeJSON(x, Clean(x))
      \/ SqueezedLength(x) = r /\ r < n
  BY DEF SqueezedLength
<1>8. n <= n
  BY <1>3
<1>9. r < n => r <= n
  <2>1. r \in Int
    BY PassesType, TrimEndType, LengthType
  <2> HIDE DEF r, n
  <2> QED
    BY <1>3, <2>1
<1> QED
  BY <1>6, <1>7, <1>8, <1>9

-----------------------------------------------------------------------------
(* What the passes do to a text does not depend on the state.               *)

(* sqzSqueezeLogs and sqzShortenPaths: of every log, however long, the      *)
(* counted runs follow one another without a gap, have the key of their     *)
(* lines, and no empty line in them.                                       *)
THEOREM LogLinesAreCounted == Spec => []LogsAreCounted
<1>1. LogsAreCounted
  BY DocumentsAssumption, LogIsCounted DEF LogsAreCounted
<1> QED
  BY <1>1, PTL

(* The passes 5, 6 and 15: of every other text the sentences keep their     *)
(* order, each that is lost was near one that was kept or can be pruned,    *)
(* and at most 15 % of prose are pruned.  A line that is lost of a sentence *)
(* of code is on a comment, one of the text itself if pass 5 lost nothing.  *)
THEOREM LossesAreExpendable == Spec => []AllLossesAreExpendable
<1>1. AllLossesAreExpendable
  BY DocumentsAssumption, CodeLosesComments, ProseLosesLittle DEF AllLossesAreExpendable
<1> QED
  BY <1>1, PTL

(* sqzCompressJS returns no text that is longer than what it was given.     *)
THEOREM SqueezingShortens == Spec => []NothingIsLengthened
<1>1. NothingIsLengthened
  BY DocumentsAssumption, SqueezeShortens DEF NothingIsLengthened
<1> QED
  BY <1>1, PTL

(* What Extension assumes of sqzCompressJS holds of Squeeze's passes: no    *)
(* result of the JavaScript fallback is longer than the text that is typed. *)
THEOREM PassesMeetTheAssumption == \A x \in Texts : Js[x] <= Length[x]
<1> SUFFICES ASSUME NEW x \in Texts PROVE Js[x] <= Length[x]
  OBVIOUS
<1>1. Document[x] \in Text
  BY DocumentAssumption, DocumentsAssumption
<1>2. SqueezedLength(Document[x]) <= LengthOf(Document[x].units)
  BY <1>1, SqueezeShortens
<1> QED
  BY <1>2, DocumentAssumption

=============================================================================
