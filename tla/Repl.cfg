SPECIFICATION SessionSpec
CONSTANTS
  Name = {"x","f","g","h","k","a","b","c","d","e"}
  Line <- MCLine
  File <- MCFile
  Headed <- MCHeaded
  Imports <- MCImports
  Binds <- MCBinds
  Forms <- MCForms
  MaxCommands = 4
INVARIANTS KnownIsDeclared UndefinedExplained
PROPERTY ImportsRunOnce
CHECK_DEADLOCK FALSE
