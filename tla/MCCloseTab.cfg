\* A shell or an editor, closed twice; two keys; a language server and another child.
SPECIFICATION Spec
CONSTANTS
  server = server
  tool = tool
  Kinds = {"shell", "editor"}
  Jobs = {server, tool}
  Helpers = {server}
  MaxChecks = 2
  MaxKeys = 2
INVARIANTS
  NothingTypedIsLost
  OnlyHelpersEnd
PROPERTIES
  WithdrawnStays
  EveryCheckDecides
CHECK_DEADLOCK FALSE
