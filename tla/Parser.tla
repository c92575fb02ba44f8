---- MODULE Parser ----
(***************************************************************************)
(* The shell's parser, sh.c: gettoken and peek on characters, the          *)
(* recursive descent from parseline to parseexec, and nulterminate, run on *)
(* every short line and compared with the grammar. A word is written with  *)
(* the letter a; one blank stands for the white space.                     *)
(***************************************************************************)
EXTENDS Integers, FiniteSets, SequencesExt

CONSTANTS MAXARGS, MaxLine

VARIABLES line,     \* the characters of the line
          tree      \* what parsecmd made of it, and the line after nulterminate

parserVars == <<line, tree>>

Symbols == {"|", ";", "&", "(", ")", "<", ">"}
Syntax == 0                      \* where a panic leaves the parser
Bad == [s |-> Syntax]

\* The character at s; NUL at the end.
CharAt(s) == IF s <= Len(line) THEN line[s] ELSE "NUL"
\* The first place from s that has no character of S.
Past(s, S) == CHOOSE i \in s..(Len(line) + 1) : CharAt(i) \notin S /\ \A k \in s..(i - 1) : CharAt(k) \in S

\* The token at s, its characters q..eq-1, and the place after it.
TokenEnd(s) == CASE CharAt(s) = "NUL" -> s
                 [] CharAt(s) = ">" /\ CharAt(s + 1) = ">" -> s + 2
                 [] CharAt(s) \in Symbols -> s + 1
                 [] OTHER -> Past(s, {"a"})
Token(s, end) == [tok |-> IF end = s + 2 /\ CharAt(s) = ">" THEN "+" ELSE CharAt(s),
                  word |-> [q |-> s, eq |-> end], s |-> Past(end, {" "})]
TokenAt(s) == Token(s, TokenEnd(s))
gettoken(s) == TokenAt(Past(s, {" "}))
peek(s, toks) == CharAt(Past(s, {" "})) \in toks

execcmd(argv) == [type |-> "EXEC", argv |-> argv]
redircmd(cmd, r) == [type |-> "REDIR", cmd |-> cmd, file |-> r.word, fd |-> IF r.tok = "<" THEN 0 ELSE 1]
pipecmd(left, right) == [type |-> "PIPE", left |-> left, right |-> right]
listcmd(left, right) == [type |-> "LIST", left |-> left, right |-> right]
backcmd(cmd) == [type |-> "BACK", cmd |-> cmd]

----
RECURSIVE parseredirs(_, _), Args(_, _, _), parseline(_), parsepipe(_), Backs(_)
\* The redirections from s on, added to those already found: the symbol, then
\* the file that follows it.
RedirFile(found, tok, f) == IF f.tok # "a" THEN Bad
                            ELSE parseredirs(Append(found, [tok |-> tok, word |-> f.word]), f.s)
Redir(found, t) == RedirFile(found, t.tok, gettoken(t.s))
parseredirs(found, s) == IF peek(s, {"<", ">"}) THEN Redir(found, gettoken(s)) ELSE [s |-> s, redirs |-> found]
Redirected(cmd, r) == IF r.s = Syntax THEN Bad ELSE [s |-> r.s, cmd |-> FoldLeft(redircmd, cmd, r.redirs)]

Stops_NoParen == {"|", "&", ";"}
\* What ends the words of a command.
Stops == {"|", ")", "&", ";"}
\* The loop of parseexec: each word, and the redirections after it.
ArgsAfter(argv, r) == IF r.s = Syntax THEN Bad ELSE Args(argv, r.redirs, r.s)
Arg(argv, redirs, t) == IF t.tok # "a" \/ Len(argv) + 1 >= MAXARGS THEN Bad
                        ELSE ArgsAfter(Append(argv, t.word), parseredirs(redirs, t.s))
Args(argv, redirs, s) ==
    IF peek(s, Stops \union {"NUL"})
    THEN [s |-> Past(s, {" "}), cmd |-> FoldLeft(redircmd, execcmd(argv), redirs)]
    ELSE Arg(argv, redirs, gettoken(s))

BlockEnd(c) == IF c.s = Syntax \/ ~peek(c.s, {")"}) THEN Bad
               ELSE Redirected(c.cmd, parseredirs(<<>>, gettoken(c.s).s))
parseblock(s) == BlockEnd(parseline(gettoken(s).s))

parseexec(s) == IF peek(s, {"("}) THEN parseblock(s) ELSE ArgsAfter(<<>>, parseredirs(<<>>, s))

\* A command and, after the symbol, another one.
Joined(cmd(_, _), left, right) ==
    IF right.s = Syntax THEN Bad ELSE [s |-> right.s, cmd |-> cmd(left.cmd, right.cmd)]
PipeRest(left) == IF left.s = Syntax \/ ~peek(left.s, {"|"}) THEN left
                  ELSE Joined(pipecmd, left, parsepipe(gettoken(left.s).s))
parsepipe(s) == PipeRest(parseexec(s))

\* A command followed by any number of &.
Backs(c) == IF c.s # Syntax /\ peek(c.s, {"&"}) THEN Backs([s |-> gettoken(c.s).s, cmd |-> backcmd(c.cmd)]) ELSE c
LineRest(left) == IF left.s = Syntax \/ ~peek(left.s, {";"}) THEN left
                  ELSE Joined(listcmd, left, parseline(gettoken(left.s).s))
parseline(s) == LineRest(Backs(parsepipe(s)))

RECURSIVE Nuls(_)
\* Where nulterminate ends a string.
Nuls(cmd) == CASE cmd.type = "EXEC" -> {cmd.argv[i].eq : i \in DOMAIN cmd.argv}
               [] cmd.type = "REDIR" -> Nuls(cmd.cmd) \union {cmd.file.eq}
               [] cmd.type = "BACK" -> Nuls(cmd.cmd)
               [] OTHER -> Nuls(cmd.left) \union Nuls(cmd.right)
nulterminate(cmd) == [s \in 1..(Len(line) + 1) |-> IF s \in Nuls(cmd) THEN "NUL" ELSE CharAt(s)]

Unparsed == [done |-> FALSE]
ParserInit == /\ line \in UNION {[1..n -> Symbols \union {"a", " "}] : n \in 0..MaxLine}
              /\ tree = Unparsed
Parsed(c) == IF c.s = Syntax \/ ~peek(c.s, {"NUL"}) THEN [done |-> TRUE, cmd |-> {}, buf |-> line]
             ELSE [done |-> TRUE, cmd |-> {c.cmd}, buf |-> nulterminate(c.cmd)]
parsecmd == ~tree.done /\ tree' = Parsed(parseline(1)) /\ UNCHANGED line

----
\* The words of the line, and its other tokens, in order.
Tokens ==
    LET Word(i) == CharAt(i) = "a" /\ (i = 1 \/ CharAt(i - 1) # "a")
        \* the second > of a pair, counted from the start of their run
        Second(i) == CharAt(i) = ">" /\ \E k \in 1..i : /\ \A m \in k..i : CharAt(m) = ">"
                                                    /\ (k = 1 \/ CharAt(k - 1) # ">") /\ (i - k) % 2 = 1
        starts == {i \in DOMAIN line : Word(i) \/ (CharAt(i) \in Symbols /\ ~Second(i))}
        Nth(n) == CHOOSE i \in starts : Cardinality({k \in starts : k <= i}) = n
    IN [n \in 1..Cardinality(starts) |->
          [tok |-> IF CharAt(Nth(n)) = ">" /\ CharAt(Nth(n) + 1) = ">" THEN "+" ELSE CharAt(Nth(n)),
           word |-> [q |-> Nth(n), eq |-> Past(Nth(n), {"a"})]]]

\* The grammar, as the trees of tokens i..j of t:
\* line ::= back [; line]   back ::= pipe | back &   pipe ::= unit [| pipe]
\* unit ::= (word | redirection)*  |  ( line ) redirection*
Grammar(t) ==
    LET Redirection(i) == t[i].tok \in {"<", ">", "+"} /\ i < Len(t) /\ t[i + 1].tok = "a"
        File(i, from) == i > from /\ t[i].tok = "a" /\ Redirection(i - 1)
        Plain(i, j) == \A k \in i..j : t[k].tok = "a" \/ (Redirection(k) /\ k < j)
        Words(i, j) == {k \in i..j : t[k].tok = "a" /\ ~File(k, i)}
        Pick(S) == [n \in 1..Cardinality(S) |-> t[CHOOSE k \in S : Cardinality({m \in S : m <= k}) = n].word]
        Redirs(i, j) == {k \in i..j : Redirection(k)}
        Redirect(cmd, i, j) ==
            FoldLeft(redircmd, cmd, [n \in 1..Cardinality(Redirs(i, j)) |->
                LET k == CHOOSE m \in Redirs(i, j) : Cardinality({x \in Redirs(i, j) : x <= m}) = n
                IN [tok |-> t[k].tok, word |-> t[k + 1].word]])
        RECURSIVE Line(_, _), Back(_, _), Pipe(_, _)
        Unit(i, j) ==
            (IF Plain(i, j) /\ Cardinality(Words(i, j)) < MAXARGS
             THEN {Redirect(execcmd(Pick(Words(i, j))), i, j)} ELSE {})
            \union UNION {{Redirect(c, k + 1, j) : c \in Line(i + 1, k - 1)} :
                            k \in {m \in (i + 1)..j : /\ t[i].tok = "(" /\ t[m].tok = ")"
                                                      /\ Plain(m + 1, j) /\ Words(m + 1, j) = {}}}
        Pipe(i, j) == Unit(i, j) \union
            UNION {{pipecmd(l, r) : l \in Unit(i, k - 1), r \in Pipe(k + 1, j)} : k \in {m \in i..j : t[m].tok = "|"}}
        Back(i, j) == Pipe(i, j) \union IF i <= j /\ t[j].tok = "&" THEN {backcmd(c) : c \in Back(i, j - 1)} ELSE {}
        Line(i, j) == Back(i, j) \union
            UNION {{listcmd(l, r) : l \in Back(i, k - 1), r \in Line(k + 1, j)} : k \in {m \in i..j : t[m].tok = ";"}}
    IN Line(1, Len(t))

\* sh.c:264-445: the parser accepts exactly the lines of the grammar, each with
\* the one tree the grammar gives it; & binds the pipeline before it and ends it.
TreeExact == tree.done => tree.cmd = Grammar(Tokens)

\* sh.c:447-492: after nulterminate every word of the line is a string of its
\* own: it ends where the word ended, and no other end falls into it.
WordsTerminated ==
    tree.done /\ tree.cmd # {} =>
        \A i \in DOMAIN Tokens : Tokens[i].tok = "a" =>
            LET w == Tokens[i].word IN tree.buf[w.eq] = "NUL" /\ \A s \in w.q..(w.eq - 1) : tree.buf[s] = "a"

\* sh.c: a line is parsed by the grammar and cut into its words.
ParsesGrammar == TreeExact /\ WordsTerminated
====
