------------------------------ MODULE MCLoader ------------------------------
EXTENDS Loader

\* Every import graph over three files with at most two imports each: shared
\* imports, double imports, cycles, self-imports and imports of nothing.
MaxImports == 2
MCInit ==
    /\ imports \in [Module -> UNION {[1 .. n -> Path] : n \in 0 .. MaxImports}]
    /\ seen = {}
    /\ order = << >>
    /\ IF Entry = Prologue
       THEN phase = "entry" /\ frames = <<Frame(Entry)>>
       ELSE phase = "prologue" /\ frames = <<Frame(Prologue)>>
MCSpec == MCInit /\ [][LoadNext]_loadVars /\ WF_loadVars(LoadNext)
=============================================================================
