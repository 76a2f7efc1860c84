---------------------------- MODULE MCModuleLoader ----------------------------
EXTENDS ModuleLoader, TLC

\* Two files of one base name, in the order of the path and not, one that is
\* there with two extensions, a built-in module, names with and without
\* directories, and aliases to files, to the root, to a module that is built
\* in, and round in circles.

MCPart == {"", ".", "lib", "m", "z", "main", "a", "b", "c", "d", "js", "so"}

Bare(base) == NameOf(<< >>, base, << >>)
Js(at, base) == NameOf(at, base, <<"js">>)
LibA == NameOf(<<"lib">>, "a", << >>)

MCBuiltIn == << Js(<<".">>, "main"), Bare("b") >>

Files == {Js(<< >>, "a"), Js(<<"lib">>, "a"), Js(<<"lib">>, "b"), NameOf(<<"lib">>, "c", <<"so">>)}

Aliases ==
  {<< >>, Bare("d") :> LibA, Bare("d") :> Js(<<".">>, "a"), Js(<< >>, "a") :> Bare("b"),
   Bare("c") :> Js(<<"", "z">>, "c"),
   Bare("a") :> LibA @@ LibA :> Bare("a"), Bare("d") :> Bare("a") @@ Bare("a") :> Bare("d")}

MCInstallations ==
  [files : {Files, Files \cup {NameOf(<< >>, "a", <<"js", "so">>)}},
   path : {<< <<".">> >>, << <<"", "m">>, <<".">>, <<"lib">> >>}, aliases : Aliases]

MCImports ==
  {Bare(base) : base \in {"a", "b", "c", "d"}}
    \cup {Js(<< >>, "a"), Js(<< >>, "c"), LibA, Js(<<".">>, "a"), NameOf(<<".">>, "c", << >>),
          Js(<<".", "lib">>, "b")}
=============================================================================
