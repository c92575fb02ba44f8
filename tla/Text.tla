---- MODULE Text ----
(***************************************************************************)
(* Algorithms of the kernel and of the user library and programs that      *)
(* compute without side effects, each run on every small input and then    *)
(* compared with what it is meant to compute: memmove, strncpy and         *)
(* safestrcpy, printint and atoi, skipelem, the checks of system-call      *)
(* arguments, and grep, wc and their loops over reads.                     *)
(* A string is a sequence; character 0 ends it where the code relies on it.*)
(***************************************************************************)
EXTENDS Integers, FiniteSets, SequencesExt

CONSTANTS BITS,       \* width of an int
          DIRSIZ, MaxLen

VARIABLES fn,         \* the function that is run
          arg, res    \* its arguments and, once it has run, its result

textVars == <<fn, arg, res>>

Strings(S, n) == UNION {[1..m -> S] : m \in 0..n}
Value(x) == [done |-> TRUE, is |-> x]
Todo == [done |-> FALSE]

----
\* memmove: backwards when the destination overlaps the source's end.
Order_Forward(d, s, n) == [i \in 1..n |-> i - 1]
Order(d, s, n) == IF s < d /\ s + n > d THEN [i \in 1..n |-> n - i] ELSE [i \in 1..n |-> i - 1]
memmove(mem, d, s, n) ==
    LET Byte1(m, i) == [m EXCEPT ![d + i] = m[s + i]] IN FoldLeft(Byte1, mem, Order(d, s, n))

Char(t, k) == IF k <= Len(t) THEN t[k] ELSE 0     \* t with its terminator
RECURSIVE CopyLoop(_, _, _, _), ZeroLoop(_, _, _)
\* while(n-- > 0 && (*s++ = *t++) != 0): the string, where it stopped, what n is.
CopyLoop(s, t, k, n) == LET u == [s EXCEPT ![k] = Char(t, k)]
                        IN IF n <= 0 THEN [s |-> s, k |-> k, n |-> n - 1]
                           ELSE IF Char(t, k) = 0 THEN [s |-> u, k |-> k + 1, n |-> n - 1]
                           ELSE CopyLoop(u, t, k + 1, n - 1)
ZeroLoop(s, k, n) == IF n <= 0 THEN s ELSE ZeroLoop([s EXCEPT ![k] = 0], k + 1, n - 1)
strncpy(s, t, n) == LET c == CopyLoop(s, t, 1, n) IN ZeroLoop(c.s, c.k, c.n)
safestrcpy(s, t, n) == LET c == CopyLoop(s, t, 1, n - 1) IN IF n <= 0 THEN s ELSE [c.s EXCEPT ![c.k] = 0]

\* printint: the digits of |xx|, last first, then the sign; printed reversed.
Unsigned(x) == x % 2^BITS
Minus == 0 - 1     \* the character; digits are their values
RECURSIVE Digits(_, _)
Digits(x, base) == <<x % base>> \o (IF x \div base # 0 THEN Digits(x \div base, base) ELSE <<>>)
Magnitude(xx) == IF xx < 0 THEN Unsigned(0 - xx) ELSE xx
printint(xx, base, sgn) ==
    Reverse(Digits(IF sgn THEN Magnitude(xx) ELSE Unsigned(xx), base) \o (IF sgn /\ xx < 0 THEN <<Minus>> ELSE <<>>))
\* atoi, on digits.
atoi(s) == LET Digit(n, d) == n * 10 + d IN FoldLeft(Digit, 0, s)

\* skipelem: the next element, cut to DIRSIZ, and the rest of the path.
Skip(path, stop) == LET i == SelectInSeq(path, LAMBDA c : (c = "/") = stop)
                    IN IF i = 0 THEN <<>> ELSE SubSeq(path, i, Len(path))
Leading(path) == Skip(path, FALSE)        \* while(*path == '/') path++
skipelem(path) ==
    LET s == Leading(path)
        after == Skip(s, TRUE)
        len == Len(s) - Len(after)
    IN [some |-> s # <<>>, name |-> SubSeq(s, 1, IF len > DIRSIZ THEN DIRSIZ ELSE len), rest |-> Skip(after, FALSE)]
RECURSIVE Elements(_)
\* What namex's loop visits.
Elements(path) == IF skipelem(path).some THEN <<skipelem(path).name>> \o Elements(skipelem(path).rest) ELSE <<>>

\* argptr's check of [i, i + size) against the process's size.
argptr(i, size, sz) == ~(size < 0 \/ Unsigned(i) >= sz \/ Unsigned(Unsigned(i) + size) > sz)
fetchint(i, sz) == ~(Unsigned(i) >= sz \/ Unsigned(Unsigned(i) + 4) > sz)

----
\* grep's matcher: re and text are sequences, their ends the terminators.
RECURSIVE matchhere(_, _), matchstar(_, _, _)
matchstar(c, re, text) ==
    \/ matchhere(re, text)
    \/ text # <<>> /\ (Head(text) = c \/ c = ".") /\ matchstar(c, re, Tail(text))
matchhere(re, text) ==
    CASE re = <<>> -> TRUE
      [] Len(re) > 1 /\ re[2] = "*" -> matchstar(re[1], SubSeq(re, 3, Len(re)), text)
      [] re = <<"$">> -> text = <<>>
      [] text # <<>> /\ (re[1] = "." \/ re[1] = text[1]) -> matchhere(Tail(re), Tail(text))
      [] OTHER -> FALSE
\* The positions match tries; the empty end of the text is one of them.
Starts(text) == 1..(Len(text) + 1)
match(re, text) ==
    IF re # <<>> /\ re[1] = "^" THEN matchhere(Tail(re), text)
    ELSE \E i \in Starts(text) : matchhere(re, SubSeq(text, i, Len(text)))

Newline(s) == SelectInSeq(s, LAMBDA c : c = "\n")    \* index of the first newline, or 0
RECURSIVE Split(_)
\* The complete lines of s, and what is left of it.
Split(s) == IF Newline(s) = 0 THEN [lines |-> <<>>, rest |-> s]
            ELSE LET t == Split(SubSeq(s, Newline(s) + 1, Len(s)))
                 IN [lines |-> <<SubSeq(s, 1, Newline(s) - 1)>> \o t.lines, rest |-> t.rest]
\* What grep keeps of its buffer: nothing when it holds no complete line.
Left(s, t) == IF t.lines = <<>> THEN <<>> ELSE t.rest
\* grep's loop: the lines it has seen after each read.
grep(reads) ==
    LET Read(g, r) == LET s == g.buf \o r
                          t == Split(s)
                      IN [buf |-> Left(s, t), seen |-> g.seen \o t.lines]
    IN FoldLeft(Read, [buf |-> <<>>, seen |-> <<>>], reads).seen

\* wc carries inword from one read to the next.
InWord(g) == g
wc(reads) ==
    LET Count(g, c) == [l |-> IF c = "\n" THEN g.l + 1 ELSE g.l,
                        w |-> IF c = "x" /\ ~g.inword THEN g.w + 1 ELSE g.w,
                        c |-> g.c + 1, inword |-> c = "x"]
        Read(g, r) == FoldLeft(Count, InWord(g), r)
    IN FoldLeft(Read, [l |-> 0, w |-> 0, c |-> 0, inword |-> FALSE], reads)

----
Chars == {"x", " ", "\n"}
\* The functions' arguments.
Arguments(f) ==
    CASE f = "memmove" -> [d : 1..MaxLen, s : 1..MaxLen, n : 0..MaxLen]
      [] f \in {"strncpy", "safestrcpy"} -> [t : Strings({1, 2}, 3), n : 0..4]
      [] f = "printint" -> [xx : (0 - 2^(BITS - 1))..(2^(BITS - 1) - 1), base : {10, 16}, sgn : BOOLEAN]
      [] f = "namex" -> [path : Strings({"/", "a", "b"}, MaxLen)]
      [] f = "argptr" -> [i : (0 - 2^(BITS - 1))..(2^(BITS - 1) - 1), size : {-1, 0, 1, 4, 2^(BITS - 1) - 1},
                          sz : {0, 3, 4, 2^(BITS - 1)}]
      [] f = "match" -> [re : Strings({"a", ".", "*", "^", "$"}, 3), text : Strings({"a", "b"}, 3)]
      [] f \in {"grep", "wc"} -> [reads : Strings(Strings(Chars, 2) \ {<<>>}, 3)]

Cells == [k \in 1..(2 * MaxLen) |-> k]
Result(f, a) ==
    CASE f = "memmove" -> memmove(Cells, a.d, a.s, a.n)
      [] f = "strncpy" -> strncpy(Cells, a.t, a.n)
      [] f = "safestrcpy" -> safestrcpy(Cells, a.t, a.n)
      [] f = "printint" -> printint(a.xx, a.base, a.sgn)
      [] f = "namex" -> Elements(a.path)
      [] f = "argptr" -> <<argptr(a.i, a.size, a.sz), fetchint(a.i, a.sz)>>
      [] f = "match" -> match(a.re, a.text)
      [] f = "grep" -> grep(a.reads)
      [] f = "wc" -> wc(a.reads)

Algorithms == {"memmove", "strncpy", "safestrcpy", "printint", "namex", "argptr", "match", "grep", "wc"}
TextInit == fn \in Algorithms /\ arg \in Arguments(fn) /\ res = Todo
TextNext == ~res.done /\ res' = Value(Result(fn, arg)) /\ UNCHANGED <<fn, arg>>
Ran(f) == fn = f /\ res.done

----
\* string.c:31-94: memmove copies as if all at once, however the areas overlap;
\* strncpy fills exactly n cells; safestrcpy ends the string within them.
CopiesExact ==
    /\ Ran("memmove") => res.is = [k \in DOMAIN Cells |-> IF k - arg.d \in 0..(arg.n - 1)
                                                          THEN Cells[arg.s + k - arg.d] ELSE Cells[k]]
    /\ Ran("strncpy") => \A k \in DOMAIN Cells : res.is[k] = IF k > arg.n THEN Cells[k] ELSE Char(arg.t, k)
    /\ Ran("safestrcpy") /\ arg.n > 0 =>
          \E end \in 0..(arg.n - 1) : /\ end = Len(arg.t) \/ (end = arg.n - 1 /\ end < Len(arg.t))
                                      /\ SubSeq(res.is, 1, end) = SubSeq(arg.t, 1, end) /\ res.is[end + 1] = 0
                                      /\ \A k \in DOMAIN Cells : k > arg.n => res.is[k] = Cells[k]

\* console.c:27-50, printf.c:11-36, ulib.c:84-93: what printint writes, read as
\* a number, is the number, the most negative one included.
NumbersExact ==
    Ran("printint") =>
        LET minus == res.is[1] = Minus
            digits == IF minus THEN Tail(res.is) ELSE res.is
            Digit(n, d) == n * arg.base + d
            value == FoldLeft(Digit, 0, digits)
        IN /\ value * (IF minus THEN 0 - 1 ELSE 1) = IF arg.sgn THEN arg.xx ELSE Unsigned(arg.xx)
           /\ arg.base = 10 /\ ~minus => atoi(digits) = value

\* fs.c:583-618: the loop of namex sees the parts of a path between slashes, in
\* order, whatever slashes lead, trail or repeat, each cut to DIRSIZ.
PathExact ==
    LET Begins(i) == arg.path[i] # "/" /\ (i = 1 \/ arg.path[i - 1] = "/")
        Ends(i) == arg.path[i] # "/" /\ (i = Len(arg.path) \/ arg.path[i + 1] = "/")
        Nth(S, n) == CHOOSE i \in S : Cardinality({j \in S : j <= i}) = n
        from == {i \in DOMAIN arg.path : Begins(i)}
        to == {i \in DOMAIN arg.path : Ends(i)}
        Cut(s) == IF Len(s) > DIRSIZ THEN SubSeq(s, 1, DIRSIZ) ELSE s
    IN Ran("namex") => res.is = [n \in 1..Cardinality(from) |-> Cut(SubSeq(arg.path, Nth(from, n), Nth(to, n)))]

\* syscall.c:55-70: a pointer the kernel accepts has its whole block below the
\* process's size, which is at most KERNBASE, in spite of 32-bit sums.
ArgsInside ==
    Ran("argptr") => /\ res.is[1] => arg.i >= 0 /\ arg.size >= 0 /\ arg.i + arg.size <= arg.sz
                     /\ res.is[2] => arg.i >= 0 /\ arg.i + 4 <= arg.sz

\* grep.c:72-106: match holds exactly if the pattern, read as a list of starred
\* and plain characters with optional anchors, describes a part of the text.
MatchExact ==
    LET anchored == arg.re # <<>> /\ arg.re[1] = "^"
        body == IF anchored THEN Tail(arg.re) ELSE arg.re
        n == Len(body)
        star[i \in 1..n] == i > 1 /\ body[i] = "*" /\ ~star[i - 1]    \* an operator, no character
        Fits(i, from, to) ==
            \/ star[i] /\ to = from
            \/ i = n /\ body[i] = "$" /\ ~star[i] /\ to = from /\ to = Len(arg.text) + 1
            \/ /\ ~star[i] /\ (i < n \/ body[i] # "$")
               /\ to = from + 1 \/ (i < n /\ star[i + 1])
               /\ \A k \in from..(to - 1) : body[i] \in {".", arg.text[k]}
    IN Ran("match") => res.is = \E b \in [0..n -> 1..(Len(arg.text) + 1)] :
                                    /\ anchored => b[0] = 1
                                    /\ \A i \in 1..n : b[i - 1] <= b[i] /\ Fits(i, b[i - 1], b[i])

\* grep.c:16-35, wc.c:16-27: lines and words are counted the same however the
\* input is cut into reads; for grep, as long as each read ends a line.
LinesExact ==
    LET whole == FlattenSeq(arg.reads)
        Words == {i \in DOMAIN whole : whole[i] = "x" /\ (i = 1 \/ whole[i - 1] # "x")}
    IN /\ Ran("grep") /\ (\A i \in DOMAIN arg.reads : Newline(arg.reads[i]) # 0) => res.is = Split(whole).lines
       /\ Ran("wc") => /\ res.is.c = Len(whole) /\ res.is.w = Cardinality(Words)
                       /\ res.is.l = Len(Split(whole).lines)

\* The library functions of kernel and user compute what they are meant to.
LibraryExact == CopiesExact /\ NumbersExact /\ PathExact /\ ArgsInside /\ MatchExact /\ LinesExact
====
