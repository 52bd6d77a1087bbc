------------------------------- MODULE MCRepl -------------------------------
EXTENDS Repl

\* The prompt defines x and f (first with one parameter, then with two, or
\* with either), declares g before f uses it, and uses what there is.
MCLine == {
    Form("def", "x", {}, {}, {}),
    Form("defn", "f", {1}, {}, {"x"}),
    Form("defn", "f", {2}, {<<"f", 2>>}, {}),
    Form("defn", "f", {1, 2}, {<<"f", 1>>}, {}),
    Form("declare", "g", {}, {}, {}),
    Form("expr", "x", {}, {<<"f", 2>>, <<"f", 1>>, <<"g", 1>>}, {})}

\* A script without a header shares names with the prompt and defines one
\* twice.  A library binds a host function; a module and a program import it,
\* the program imports the module too, and a file imports itself.
MCFile == {"script", "lib", "module", "program", "ring"}
MCHeaded == MCFile \ {"script"}
MCImports == [f \in MCFile |->
    CASE f = "module" -> <<"lib">>
      [] f = "program" -> <<"lib", "module">>
      [] f = "ring" -> <<"lib", "ring">>
      [] OTHER -> << >>]
MCBinds == [f \in MCFile |->
    CASE f = "lib" -> {"h"} [] f = "program" -> {"k"} [] OTHER -> {}]
MCForms == [f \in MCFile |->
    CASE f = "script" -> <<Form("def", "x", {}, {}, {}), Form("defn", "g", {2}, {}, {"x"}),
                           Form("def", "x", {}, {<<"g", 2>>}, {}),
                           Form("expr", "x", {}, {<<"g", 1>>}, {}),
                           Form("expr", "x", {}, {}, {"x"}),
                           Form("print", "x", {}, {<<"g", 2>>}, {})>>
      [] f = "lib" -> <<Form("defn", "a", {1}, {<<"h", 1>>}, {}), Form("def", "b", {}, {<<"a", 1>>}, {})>>
      [] f = "module" -> <<Form("declare", "d", {}, {}, {}),
                           Form("defn", "c", {1}, {<<"a", 1>>, <<"d", 1>>}, {"b"}),
                           Form("def", "d", {}, {}, {})>>
      [] OTHER -> <<Form("def", "e", {}, {<<"c", 1>>, <<"k", 1>>}, {})>>]
=============================================================================
