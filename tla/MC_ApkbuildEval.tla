---------------------------- MODULE MC_ApkbuildEval ----------------------------
(* Files of three top-level items and a function of up to two, for two      *)
(* architectures: each pair of an item that sets a variable (surely, in a   *)
(* branch, in a loop, not at all) and a block that reads it occurs.         *)
EXTENDS ApkbuildEval

More(x)  == Assign("depends", Ref("depends") \o x)
One(c)   == Cmd(<<c>>, <<>>)
Is(v, x) == Test("=", Ref(v), x)

TopItems ==
    { One(Assign("x", Lit("a"))), One(Assign("x", Ref("CARCH"))), One(Assign("x", Ref("CBUILD"))),
      One(Assign("depends", <<>>)), One(More(Ref("x"))), One(Builtin("unset", "x")),
      One(Builtin("export", "x")), One(Call), One(Pipe),
      One(Assign("subpackages", Lit("p-fn") \o Lit("p-dev"))),
      Opaque(<<One(Assign("x", Lit("b"))), One(More(Lit("b")))>>),
      Case(Ref("CARCH"), <<On(<<Lit("arm")>>, <<One(More(Lit("a")))>>),
                           On(<<Star>>, <<One(Assign("x", Lit("b")))>>)>>),
      Case(Ref("x"), <<On(<<Lit("b"), Ref("CBUILD")>>, <<One(More(Lit("b")))>>),
                       On(<<Lit("a"), Lit("arm")>>, <<One(More(Lit("a"))), One(Assign("x", Lit("b")))>>)>>),
      If(<<When(<<One(Is("x", Lit("a")))>>, <<One(More(Lit("a")))>>),
           When(<<One(Call), One(Is("CARCH", Lit("arm")))>>, <<One(Assign("x", Lit("a")))>>),
           When(<<Else>>, <<One(More(Lit("b")))>>)>>),
      If(<<When(<<One(Is("CBUILD", Ref("CARCH")))>>, <<One(Assign("x", Lit("b")))>>)>>),
      Cmd(<<Not(Is("CARCH", Lit("arm"))), Assign("x", Lit("a"))>>, <<"&&">>),
      Cmd(<<Call, Assign("x", Lit("b"))>>, <<"||">>),
      Cmd(<<Assign("x", Lit("b")), Test("-z", <<>>, Ref("x")), More(Lit("a"))>>, <<"&&", "||">>),
      Cmd(<<Is("CARCH", Lit("arm")), Assign("subpackages", Lit("p-fn"))>>, <<"&&">>),
      SharesLine(If(<<When(<<One(Is("CARCH", Lit("arm")))>>, <<One(Assign("x", Lit("a")))>>)>>)),
      HereDoc }

FunctionItems ==
    { One(Assign("depends", <<>>)), One(More(Ref("x"))),
      If(<<When(<<One(Is("CARCH", Lit("arm")))>>, <<One(More(Lit("a")))>>),
           When(<<Else>>, <<One(More(Lit("b")))>>)>>),
      If(<<When(<<One(Is("x", Lit("a")))>>, <<One(More(Ref("subpkgname")))>>)>>) }

Functions ==
    { <<>>, [dev |-> [body |-> <<>>, closed |-> FALSE]] }
        \cup { [fn |-> [body |-> <<i, j>>, closed |-> TRUE]] : i, j \in FunctionItems }

SetsSubpackages(item) ==
    \E c \in ToSet(CommandsIn(<<item>>)) : c.c = "assign" /\ c.var = "subpackages"

MCApkbuilds ==
    { [top |-> <<i, j, k>>, funcs |-> f] : i, j \in TopItems, k \in TopItems, f \in {<<>>} }
    \cup { [top |-> <<i, j>>, funcs |-> f] :
             i \in TopItems, j \in {l \in TopItems : SetsSubpackages(l)}, f \in Functions }

MCArches           == {"arm", "x86"}
MCFunctionOf       == [s \in {"p-fn", "p-dev"} |-> IF s = "p-fn" THEN "fn" ELSE "dev"]
MCDefaultFunctions == {"p-dev"}
================================================================================
