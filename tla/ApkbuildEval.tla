---------------------------- MODULE ApkbuildEval ----------------------------
(***************************************************************************)
(* Parsing an APKBUILD without running it: pmb/parse/_apkbuild_cond.py     *)
(* replaces the conditional blocks it can decide by the commands of the    *)
(* branch the shell would run, and pmb/parse/_apkbuild.py then reads the   *)
(* assignments, line by line, for the package and for the function of each *)
(* of its subpackages.                                                     *)
(*                                                                         *)
(* A program is the tree the tokenizer and the parser of _apkbuild_cond.py *)
(* return.  A word is a sequence of atoms, each a literal or a reference   *)
(* to a variable.  ShellRun, the reference, is what busybox sh does with   *)
(* the same tree; what the evaluator cannot know (CBUILD, the status of a  *)
(* command, the number of passes of a loop) is a "world" of the shell.     *)
(***************************************************************************)
EXTENDS Naturals, Sequences, SequencesExt

CONSTANTS
    Arches,            \* architectures a package is built for
    NoArch,            \* apkbuild() called without arch
    Apkbuilds,         \* the files: [top: Seq(Item), funcs: name -> function]
    FunctionOf,        \* subpackage |-> name of its function
    DefaultFunctions   \* subpackages abuild has a function for

VARIABLES
    apkbuild,          \* the file
    arch,              \* the argument of apkbuild()
    parsed             \* what apkbuild() returned, or NotParsed

vars == <<apkbuild, arch, parsed>>

Names      == {"CARCH", "CBUILD", "x", "depends", "subpackages", "subpkgname"}
Attributes == {"depends", "subpackages"}

Lit(x) == << <<"lit", x>> >>
Ref(v) == << <<"ref", v>> >>
Star   == << <<"glob", "*">> >>

Unknown == << <<"unknown", "">> >>   \* None in _Evaluator.variables
Missing == << <<"missing", "">> >>   \* KeyError in the parser's dictionary

RefsOf(word) == {word[i][2] : i \in {j \in DOMAIN word : word[j][1] = "ref"}}

-----------------------------------------------------------------------------
(* The tree.                                                               *)

Test(op, l, r)   == [c |-> "test", not |-> FALSE, op |-> op, l |-> l, r |-> r]
Assign(v, word)  == [c |-> "assign", not |-> FALSE, var |-> v, word |-> word]
Builtin(name, v) == [c |-> name, not |-> FALSE, var |-> v]   \* unset, export
Call             == [c |-> "call", not |-> FALSE]
Pipe             == [c |-> "pipe", not |-> FALSE]
Not(c)           == [c EXCEPT !.not = ~@]

Cmd(cmds, ops)   == [k |-> "cmd", cmds |-> cmds, ops |-> ops]
If(arms)         == [k |-> "if", arms |-> arms]
Case(word, arms) == [k |-> "case", word |-> word, arms |-> arms]
Opaque(body)     == [k |-> "opaque", body |-> body]
SharesLine(item) == [k |-> "shared", item |-> item]
Else             == [k |-> "else"]
HereDoc          == [k |-> "heredoc"]

When(cond, body) == [cond |-> cond, body |-> body]
On(pats, body)   == [pats |-> pats, body |-> body]

(* The tokenizer gives up on the whole file at a here-document.             *)
Tokenizes(items) == HereDoc \notin ToSet(items)

Conditional(item) == \/ item.k \in {"if", "case", "shared"}
                     \/ item.k = "cmd" /\ item.ops # <<>>

RECURSIVE CommandsIn(_)
CommandsIn(items) ==
    LET Of(item) ==
          CASE item.k = "cmd"    -> item.cmds
            [] item.k = "shared" -> CommandsIn(<<item.item>>)
            [] item.k = "opaque" -> CommandsIn(item.body)
            [] item.k \in {"if", "case"} ->
                 FlattenSeq([i \in DOMAIN item.arms |-> CommandsIn(item.arms[i].body)])
            [] OTHER -> <<>>
    IN  FlattenSeq([i \in DOMAIN items |-> Of(items[i])])

-----------------------------------------------------------------------------
(* _Evaluator.  Its state: the variables, what was emitted, whether an     *)
(* UnevaluableError was raised, the last exit status.                      *)

Expand(word, values) ==
    IF \E v \in RefsOf(word) : values[v] = Unknown THEN Unknown
    ELSE FlattenSeq([i \in DOMAIN word |->
                        IF word[i][1] = "ref" THEN values[word[i][2]] ELSE <<word[i]>>])

Holds(op, l, r) == CASE op = "="  -> l = r
                     [] op = "!=" -> l # r
                     [] op = "-n" -> r # <<>>
                     [] op = "-z" -> r = <<>>

Status(b)   == IF b THEN "yes" ELSE "no"
Negated(st) == CASE st = "yes" -> "no" [] st = "no" -> "yes" [] OTHER -> st
Fail(e)     == [e EXCEPT !.ok = FALSE]

RunSimple(c, e, emit) ==
    LET st(s)  == IF c.not THEN Negated(s) ELSE s
        plain  == [c EXCEPT !.not = FALSE]
        out    == IF emit THEN Append(e.out, plain) ELSE e.out
        l      == Expand(c.l, e.vars)
        r      == Expand(c.r, e.vars)
    IN  CASE c.c = "pipe" -> Fail(e)
          [] c.c = "test" ->
               IF Unknown \in {l, r} THEN Fail(e)
               ELSE [e EXCEPT !.st = st(Status(Holds(c.op, l, r)))]
          [] c.c = "assign" ->
               [e EXCEPT !.vars[c.var] = Expand(c.word, e.vars), !.st = st("yes"), !.out = out]
          [] c.c \in {"unset", "export"} ->
               [e EXCEPT !.vars[c.var] = Unknown, !.st = st("yes"), !.out = out]
          [] c.c = "call" -> [e EXCEPT !.st = "unknown", !.out = out]

RunCmd(item, e, emit) ==
    LET Next1(acc, i) ==
          IF ~acc.ok THEN acc
          ELSE IF acc.st = "unknown" THEN Fail(acc)
          ELSE IF (item.ops[i] = "&&") = (acc.st = "yes")
               THEN RunSimple(item.cmds[i + 1], acc, emit)
               ELSE acc
    IN  FoldLeft(Next1, RunSimple(item.cmds[1], e, emit), [i \in DOMAIN item.ops |-> i])

RECURSIVE Run(_, _, _), RunItem(_, _, _), RunArms(_, _, _), RunCase(_, _, _, _)
Run(items, e, emit) ==
    FoldLeft(LAMBDA acc, item : IF acc.ok THEN RunItem(item, acc, emit) ELSE acc,
             [e EXCEPT !.st = "yes"], items)

RunItem(item, e, emit) ==
    CASE item.k = "cmd"  -> RunCmd(item, e, emit)
      [] item.k = "if"   -> RunArms(item.arms, e, emit)
      [] item.k = "case" -> LET v == Expand(item.word, e.vars)
                            IN  IF v = Unknown THEN Fail(e) ELSE RunCase(v, item.arms, e, emit)
      [] OTHER           -> Fail(e)

RunArms(arms, e, emit) ==
    IF arms = <<>> THEN [e EXCEPT !.st = "yes"]
    ELSE IF arms[1].cond = <<Else>> THEN Run(arms[1].body, e, emit)
    ELSE LET c == Run(arms[1].cond, e, FALSE)
         IN  CASE ~c.ok \/ c.st = "unknown" -> Fail(c)
               [] c.st = "yes"              -> Run(arms[1].body, c, emit)
               [] OTHER                     -> RunArms(Tail(arms), c, emit)

RunCase(v, arms, e, emit) ==
    IF arms = <<>> THEN [e EXCEPT !.st = "yes"]
    ELSE LET pats    == arms[1].pats
             value   == [i \in DOMAIN pats |-> Expand(pats[i], e.vars)]
             matches == {i \in DOMAIN pats : value[i] \in {v, Star}}
             unknown == {i \in DOMAIN pats : value[i] = Unknown}
         IN  CASE \E i \in matches : \A j \in unknown : i < j -> Run(arms[1].body, e, emit)
               [] matches = {} /\ unknown = {}                -> RunCase(v, Tail(arms), e, emit)
               [] OTHER                                       -> Fail(e)

ForgetNothing(item, values) == values

(* The variables an unevaluated item might set are unknown after it.        *)
Forget(item, values) ==
    LET set == {c.var : c \in {d \in ToSet(CommandsIn(<<item>>)) :
                                  d.c \in {"assign", "unset", "export"}}}
    IN  [v \in Names |-> IF v \in set THEN Unknown ELSE values[v]]

(* One top-level item of resolve(): its variables afterwards, and what its  *)
(* lines are replaced by, if it is a conditional block that was decided.    *)
ResolveItem(item, values) ==
    LET e == RunItem(item, [vars |-> values, out |-> <<>>, ok |-> TRUE, st |-> "yes"],
                     Conditional(item))
    IN  [values   |-> IF e.ok THEN e.vars ELSE Forget(item, values),
         replaced |-> Conditional(item) /\ e.ok,
         out      |-> e.out]

Resolve(items, known) ==
    IF ~Tokenizes(items)
    THEN [i \in DOMAIN items |-> [values |-> known, replaced |-> FALSE, out |-> <<>>]]
    ELSE LET r[i \in 0..Len(items)] ==
               IF i = 0 THEN [values |-> known, replaced |-> FALSE, out |-> <<>>]
               ELSE ResolveItem(items[i], r[i - 1].values)
         IN  [i \in DOMAIN items |-> r[i]]

KnownAtTop(a) == [v \in Names |-> IF v = "CARCH" THEN Lit(a) ELSE Unknown]
KnownIn(a, subpkg) == [KnownAtTop(a) EXCEPT !["subpkgname"] = Lit(subpkg)]

(* resolve() is only called with an architecture.                           *)
Resolved(items, a, known) ==
    IF a = NoArch
    THEN [i \in DOMAIN items |-> [values |-> known, replaced |-> FALSE, out |-> <<>>]]
    ELSE Resolve(items, known)

-----------------------------------------------------------------------------
(* The attribute parser.                                                   *)

(* The assignments that start a line.  At the top level the lines inside a  *)
(* block are indented and do not match; those of a function are stripped,   *)
(* so every branch of a block that was left matches.                        *)
RECURSIVE AssignmentLines(_, _)
AssignmentLines(items, stripped) ==
    LET Of(item) ==
          CASE item.k = "cmd" -> SelectSeq(<<item.cmds[1]>>, LAMBDA c : c.c = "assign" /\ ~c.not)
            [] item.k = "opaque" /\ stripped -> AssignmentLines(item.body, TRUE)
            [] item.k \in {"if", "case"} /\ stripped ->
                 FlattenSeq([i \in DOMAIN item.arms |-> AssignmentLines(item.arms[i].body, TRUE)])
            [] OTHER -> <<>>
    IN  FlattenSeq([i \in DOMAIN items |-> Of(items[i])])

LinesAfter(items, a, known, stripped) ==
    LET r == Resolved(items, a, known)
    IN  FlattenSeq([i \in DOMAIN items |->
            IF r[i].replaced THEN SelectSeq(r[i].out, LAMBDA c : c.c = "assign")
            ELSE AssignmentLines(<<items[i]>>, stripped)])

(* Each reference of the value, from left to right, replaces the first      *)
(* place where its text occurs; a name that was never assigned stays.       *)
ReplaceVariable(ret, word) ==
    LET Replace(value, atom) ==
          IF atom[1] = "ref" /\ ret[atom[2]] # Missing
          THEN ReplaceFirstSubSeq(ret[atom[2]], <<atom>>, value)
          ELSE value
    IN  FoldLeft(Replace, word, word)

ParseLineNonEmpty(ret, line) == IF line.word = <<>> THEN ret
                                ELSE [ret EXCEPT ![line.var] = ReplaceVariable(ret, line.word)]

(* "foo=" clears foo.                                                        *)
ParseLine(ret, line) == [ret EXCEPT ![line.var] = ReplaceVariable(ret, line.word)]

ParseLines(ret, lines) == FoldLeft(ParseLine, ret, lines)
EmptyAttributes        == [v \in Names |-> IF v \in Attributes THEN <<>> ELSE Missing]

TopLines == LinesAfter(apkbuild.top, arch, KnownAtTop(arch), FALSE)
TopRet   == ParseLines(EmptyAttributes, TopLines)

FunctionLines(s) ==
    LinesAfter(apkbuild.funcs[FunctionOf[s]].body, arch, KnownIn(arch, s), TRUE)
FunctionRet(s) == [TopRet EXCEPT !["subpkgname"] = Lit(s)]

SubpackageNames(ret) == {ret["subpackages"][i][2] : i \in DOMAIN ret["subpackages"]}

HasFunction(s) == FunctionOf[s] \in DOMAIN apkbuild.funcs

(* _parse_subpackage raises when neither the file nor abuild has the        *)
(* function, or when no line starts with "}" after it.                      *)
Raises(s) == IF HasFunction(s) THEN ~apkbuild.funcs[FunctionOf[s]].closed
             ELSE s \notin DefaultFunctions

ParseSubpackage(s) ==
    IF HasFunction(s) THEN ParseLines(FunctionRet(s), FunctionLines(s))["depends"]
    ELSE Missing

NotParsed == [st |-> "none"]

ParseResult ==
    LET subs == SubpackageNames(TopRet)
    IN  IF \E s \in subs : Raises(s) THEN [st |-> "error"]
        ELSE [st   |-> "ok",
              ret  |-> [v \in Attributes |-> TopRet[v]],
              subs |-> [s \in subs |-> ParseSubpackage(s)]]

Parse == /\ parsed = NotParsed
         /\ parsed' = ParseResult
         /\ UNCHANGED <<apkbuild, arch>>

Init == /\ apkbuild \in Apkbuilds
        /\ arch \in Arches \cup {NoArch}
        /\ parsed = NotParsed

Next == Parse

Spec == Init /\ [][Next]_vars

-----------------------------------------------------------------------------
(* The reference: busybox sh.  A world is [build, call, passes].            *)

Worlds == [build : Arches, call : BOOLEAN, passes : 0..2]

Value(word, env) ==
    FlattenSeq([i \in DOMAIN word |->
                   IF word[i][1] = "ref" THEN env[word[i][2]] ELSE <<word[i]>>])

ShellSimple(c, s, w, log) ==
    LET result(b) == b # c.not
        ran == IF log THEN Append(s.ran, [c EXCEPT !.not = FALSE]) ELSE s.ran
    IN  CASE c.c = "test"   -> [s EXCEPT !.st = result(Holds(c.op, Value(c.l, s.env), Value(c.r, s.env)))]
          [] c.c = "assign" -> [s EXCEPT !.env[c.var] = Value(c.word, s.env), !.st = result(TRUE), !.ran = ran]
          [] c.c = "unset"  -> [s EXCEPT !.env[c.var] = <<>>, !.st = result(TRUE), !.ran = ran]
          [] c.c = "export" -> [s EXCEPT !.st = result(TRUE), !.ran = ran]
          [] c.c = "call"   -> [s EXCEPT !.st = result(w.call), !.ran = ran]
          [] c.c = "pipe"   -> [s EXCEPT !.st = result(w.call)]

RECURSIVE ShellRun(_, _, _, _)
ShellRun(items, s, w, log) ==
    LET AndOr(item, t) ==
          FoldLeft(LAMBDA u, i : IF (item.ops[i] = "&&") = u.st
                                 THEN ShellSimple(item.cmds[i + 1], u, w, log) ELSE u,
                   ShellSimple(item.cmds[1], t, w, log), [i \in DOMAIN item.ops |-> i])
        Cond(item, t) ==      \* after[i]: conditions 1..i were run
          LET after[i \in 0..Len(item.arms)] ==
                IF i = 0 \/ item.arms[i].cond = <<Else>> THEN [t EXCEPT !.st = i # 0]
                ELSE ShellRun(item.arms[i].cond, after[i - 1], w, FALSE)
              true == {i \in DOMAIN item.arms : after[i].st}
              first == CHOOSE i \in true : \A j \in true : i <= j
          IN  IF true = {} THEN [t EXCEPT !.st = TRUE]
              ELSE ShellRun(item.arms[first].body, after[first], w, log)
        Match(item, t) ==
          LET v == Value(item.word, t.env)
              fits == {i \in DOMAIN item.arms :
                          \E p \in ToSet(item.arms[i].pats) : p = Star \/ Value(p, t.env) = v}
              first == CHOOSE i \in fits : \A j \in fits : i <= j
          IN  IF fits = {} THEN [t EXCEPT !.st = TRUE]
              ELSE ShellRun(item.arms[first].body, t, w, log)
        Loop(body, t) == FoldLeft(LAMBDA u, i : ShellRun(body, u, w, log),
                                  [t EXCEPT !.st = TRUE], [i \in 1..w.passes |-> i])
        Step(t, item) ==
          CASE item.k = "cmd"    -> AndOr(item, t)
            [] item.k = "if"     -> Cond(item, t)
            [] item.k = "case"   -> Match(item, t)
            [] item.k = "opaque" -> Loop(item.body, t)
            [] item.k = "shared" -> ShellRun(<<item.item>>, t, w, log)
            [] OTHER             -> t
    IN  FoldLeft(Step, s, items)

Environment(a, w) == [v \in Names |-> CASE v = "CARCH"  -> Lit(a)
                                        [] v = "CBUILD" -> Lit(w.build)
                                        [] OTHER        -> <<>>]

Sourced(w) == ShellRun(apkbuild.top, [env |-> Environment(arch, w), ran |-> <<>>, st |-> TRUE], w, TRUE)

EnvOfFunction(s, w) == [Sourced(w).env EXCEPT !["subpkgname"] = Lit(s)]

-----------------------------------------------------------------------------
(* The commands the shell runs for item i of items, started in env.         *)
RanByShell(items, i, env, w) ==
    LET before == ShellRun(SubSeq(items, 1, i - 1), [env |-> env, ran |-> <<>>, st |-> TRUE], w, TRUE)
    IN  ShellRun(<<items[i]>>, [before EXCEPT !.ran = <<>>], w, TRUE).ran

ReplacedAsTheShellRuns(items, known, Env(_)) ==
    LET r == Resolve(items, known)
    IN  \A i \in DOMAIN items : r[i].replaced =>
            \A w \in Worlds : RanByShell(items, i, Env(w), w) = r[i].out

(* A block that is replaced is replaced by exactly the commands the shell   *)
(* runs, in their order, whatever the variables are that only exist at      *)
(* build time, and whatever commands, loops and blocks that were left did   *)
(* before it: at the top level and in the functions of subpackages.         *)
(* resolve() of _apkbuild_cond.py: "replaced by the commands of the branch  *)
(* the shell would run".                                                    *)
BranchTheShellRuns ==
    parsed.st = "ok" /\ arch # NoArch =>
        /\ ReplacedAsTheShellRuns(apkbuild.top, KnownAtTop(arch), LAMBDA w : Environment(arch, w))
        /\ \A s \in DOMAIN parsed.subs : HasFunction(s) =>
               ReplacedAsTheShellRuns(apkbuild.funcs[FunctionOf[s]].body, KnownIn(arch, s),
                                      LAMBDA w : EnvOfFunction(s, w))

(* Nothing in items needs running: every block was replaced, the rest are   *)
(* assignments, and the parser knew every name that they use.               *)
Exact(items, known, lines, ret) ==
    LET r == Resolved(items, arch, known)
    IN  /\ \A i \in DOMAIN items :
              /\ items[i].k # "opaque"
              /\ Conditional(items[i]) => r[i].replaced
        /\ \A c \in ToSet(CommandsIn(items)) : c.c # "unset"
        /\ \A i \in DOMAIN lines : \A v \in RefsOf(lines[i].word) :
               ParseLines(ret, SubSeq(lines, 1, i - 1))[v] # Missing

(* Then the attributes of the package and of each subpackage are what the   *)
(* shell computes for this architecture, in every world: the comparison of  *)
(* src/helpers/apkbuild-vs-shell.py.                                        *)
AttributesOfTheShell ==
    parsed.st = "ok" /\ Exact(apkbuild.top, KnownAtTop(arch), TopLines, EmptyAttributes) =>
        \A w \in Worlds :
            /\ \A v \in Attributes : parsed.ret[v] = Sourced(w).env[v]
            /\ \A s \in DOMAIN parsed.subs :
                  LET body == apkbuild.funcs[FunctionOf[s]].body
                  IN  HasFunction(s) /\ Exact(body, KnownIn(arch, s), FunctionLines(s), FunctionRet(s)) =>
                        parsed.subs[s] =
                            ShellRun(body, [env |-> EnvOfFunction(s, w), ran |-> <<>>, st |-> TRUE],
                                     w, TRUE).env["depends"]

=============================================================================
