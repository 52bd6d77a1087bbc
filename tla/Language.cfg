SPECIFICATION Spec
CONSTANTS
    Texts <- MCTexts
    TokenLists <- MCTokenLists
    MacroCalls <- MCCalls
    Macros <- MCMacros
    Trees <- MCTrees
    Bodies <- MCPrograms
    Params <- MCParams
    Functions <- MCFunctions
    ModuleSets <- MCModuleSets
    GoPackage <- MCGoPackage
    Builtins = {"b"}
    Applications <- MCApplications
    Horizon = 5
    Calculations <- MCCalculations
    Half = 4
INVARIANTS
    TokensRight
    ParsesGrammar
    MacrosExpand
    NamesChecked
    CodeBuilds
    CodeMeans
    LinksRight
    PreludeRight
    NumbersRight
\* An input is done when its result is there.
CHECK_DEADLOCK FALSE
