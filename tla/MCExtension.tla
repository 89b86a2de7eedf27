---------------------------- MODULE MCExtension -----------------------------
(* Instances of Compression for TLC.                                        *)
EXTENDS Compression

CONSTANTS t1, t2

Bits == [a |-> {}, b |-> {1, 2, 3}, c |-> {1, 2, 3, 4, 5, 6}]

(* Lines of n characters in all, as pass 15 finds them.                     *)
LinesOf(pattern, n) ==
    LET L(size, comment) == [size |-> size, comment |-> comment, url |-> pattern = "link"]
        half == n \div 2
    IN  CASE pattern = "code" -> <<L(n, FALSE)>>
          [] pattern \in {"note", "link"} -> <<L(n, TRUE)>>
          [] pattern = "noted" -> <<L(half, TRUE), L(n - half - 1, FALSE)>>
          [] pattern = "notes" -> <<L(half, FALSE), L(n - half - 1, TRUE)>>

Plain(i) ==
    [id |-> i, gap |-> IF i = 1 THEN 0 ELSE 1, size |-> 40, blanks |-> 1, blob |-> 0,
     path |-> FALSE, marks |-> 1, opener |-> 3, filler |-> 2, key |-> "k", times |-> 1,
     hashes |-> <<{10 * i + b : b \in 0..3}>>, words |-> 7, density |-> 50, figures |-> FALSE,
     lines |-> LinesOf("code", 39), left |-> {1}]

(* What follows the last newlines of a text.                                *)
Empty(i) ==
    [Plain(i) EXCEPT !.gap = 3, !.size = 0, !.blanks = 0, !.marks = 0, !.opener = 0, !.filler = 0,
                     !.key = "", !.hashes = <<{}>>, !.words = 1, !.density = 0,
                     !.lines = <<>>, !.left = {}]

Of(signs, units) ==
    [signs |-> signs, prefix |-> 20, json |-> [items |-> 0, sampled |-> 0, compact |-> 0],
     units |-> units]

(* Four lines with every pattern of repetitions, of lines that are nothing  *)
(* but a time, and of empty lines between them, with or without paths.      *)
Logs ==
    {Of({"stamps"}, [i \in 1..4 |-> [Plain(i) EXCEPT !.key = k[i], !.gap = g[i], !.path = p]]) :
        k \in [1..4 -> {"", "k", "l"}], g \in [1..4 -> {1, 3}], p \in BOOLEAN}

(* Lines that a counter would make longer, and a newline at the end.        *)
Longer ==
    {Of({"stamps"}, [i \in 1..n |-> [Plain(i) EXCEPT !.size = s, !.blanks = 0]]) :
        n \in {2, 11}, s \in {1, 60}}
    \cup {Of({"stamps"}, <<Plain(1), Plain(2), Empty(3)>>)}

(* Four sentences whose prints are a chain, and short ones among them.      *)
Sized(u, short) ==
    [u EXCEPT !.size = IF short THEN 14 ELSE 40,
              !.lines = LinesOf("code", IF short THEN 13 ELSE 39)]

Sentences ==
    {Of(g, [i \in 1..4 |->
               Sized([Plain(i) EXCEPT !.hashes = IF h[i] = "s" THEN <<{}>>
                                                  ELSE <<Bits[h[i]], {}, Bits[h[i]]>>],
                     h[i] = "s")]) :
        h \in [1..4 -> {"a", "b", "c", "s"}], g \in {{}, {"import", "brace"}}}

(* Three sentences of code and comments, on lines of their own or not, two  *)
(* of which may be alike, so that what they stand between is joined.        *)
Codes ==
    {Of({"import", "brace", "comment"},
        [i \in 1..3 |->
            [Plain(i) EXCEPT !.lines = LinesOf(l[i], 39), !.left = DOMAIN LinesOf(l[i], 39),
                             !.gap = IF i = 1 THEN 0 ELSE g[i],
                             !.hashes = IF i \in a THEN <<Bits["b"]>> ELSE @]]) :
        l \in [1..3 -> {"code", "note", "link", "noted", "notes"}], g \in [2..3 -> {0, 1}],
        a \in {{}, {1, 2}, {1, 3}, {2, 3}}}

(* Enough sentences for one or two of them to be pruned.                    *)
Essays ==
    {Of(g, [i \in 1..n |-> IF i = n /\ e THEN Empty(i)
                           ELSE [Plain(i) EXCEPT !.density = (7 * i) % 10, !.figures = i \in f,
                                                 !.words = 5 + (i % 3)]]) :
        n \in {8, 9, 14}, f \in SUBSET {1, 4, 8}, e \in BOOLEAN,
        g \in {{}, {"headings"}, {"declaration", "comment"}}}

Others ==
    {[Of({"json"}, <<Plain(1), Plain(2), [Plain(3) EXCEPT !.size = 160, !.blob = 120]>>) EXCEPT
        !.json = [items |-> n, sampled |-> 90, compact |-> c]] : n \in {0, 6}, c \in {110, 260}}

(* What is typed in the tabs: a line that is too short to be squeezed, and  *)
(* two texts that are not; their lengths, as Squeeze computes them.         *)
Written ==
    [line |-> Of({}, <<Plain(1)>>),
     log  |-> Of({"stamps"}, [i \in 1..4 |-> Plain(i)]),
     data |-> CHOOSE x \in Others : x.json.items > 5]

Names == {"line", "log", "data"}
Typed == (t1 :> Names) @@ (t2 :> {"line"})
Lengths == [line |-> 40, log |-> 163, data |-> 242]
Squeezed == [line |-> 40, log |-> 44, data |-> 90]

(* The engine's answers: shorter or longer than the text.                   *)
Engine == [line |-> {39, 50}, log |-> {60, 170}, data |-> {70}]

Squeezables ==
    Logs \cup Longer \cup Sentences \cup Codes \cup Essays \cup Others
        \cup {Written[x] : x \in Names}

=============================================================================
