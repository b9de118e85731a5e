SPECIFICATION MCSpec
CONSTANTS
  NULL = NULL
  Names = {"int", "a", "ab", "b", "foo", "bar", "Kind", "Traits", "Pet", "Note", "Car", "enum",
           "namespace", "struct", "union", "packed", "message", "void"}
  CallerNames = {"a", "ab"}
  Spelling <- MCSpelling
  Builtins <- MCBuiltins
  Paths <- MCPaths
  NumberValue <- MCNumbers
  Texts <- MCTexts
  MaxSpaces = 6
  MaxFormats = 20
  MaxHeld = 1
  Kinds = {"STRUCT", "UNION"}
  MaxMembers = 1
  MaxCalls = 5
  CallerSpaces = 2
  CallerFormats = 3
  GrownNames = {"a", "ab", "b", "foo", "bar", "Kind", "Car"}
CHECK_DEADLOCK FALSE
INVARIANTS
  TreesSearchable
  RefCountsExact
  NamesLead
  ParsedAsWritten
PROPERTIES
  ImplementsNameTables
