------------------------------ MODULE MCSinceGreen ------------------------------
\* One repository: a package whose tests open specs/ by its name and fixtures
\* below themselves, a root package that embeds assets/ and holds assembly, a
\* nested module whose Go source lies below its go.mod, a frontend that reads
\* docs/ too, and a waiver of the suite.
EXTENDS SinceGreen

Spec003 == <<"specs", "s.md">>
Fixture == <<"pkg", "testdata", "f">>
Asset   == <<"assets", "img", "a.png">>
Page    == <<"docs", "a.md">>
Script  == <<"web", "x.ts">>
Notes   == <<"notes.md">>
Asm     == <<"add.s">>

MCFiles == {Spec003, Fixture, Asset, Page, Script, Notes, Asm}
MCCompiled == {Asm}
MCFrontendDirs == {<<"web">>, <<"docs">>}
MCSuiteDirs == {<<"web">>}

Source1 ==
  [pkgs |-> {Root, <<"pkg">>, <<"tool", "cmd">>}, modules |-> {<<"tool">>},
   literals |-> {[dir |-> <<"pkg">>, text |-> <<"..", "specs">>]},
   embeds |-> {[dir |-> Root, text |-> <<"assets">>]}]
Source2 == [Source1 EXCEPT !.literals = {}, !.embeds = {}]
OneModule == [Source1 EXCEPT !.modules = {}]

At(files) == [f \in MCFiles |-> IF f \in files THEN 1 ELSE 0]
Tree(source, files, bar) == [source |-> source, data |-> At(files), bar |-> bar]

First == Tree(Source1, {}, {})
Waiving == Tree(Source1, {Notes}, {"suite"})
MCBegins == {First, Waiving}

MCTrees ==
  MCBegins \cup {Tree(Source1, fs, {}) : fs \in {{Notes, Page}, {Spec003}, {Fixture}, {Asset, Script}, {Asm}}}
           \cup {Tree(Source2, {Notes}, {}), Tree(OneModule, {}, {})}

MCUntil == [g \in Gates |-> 1]
=============================================================================
