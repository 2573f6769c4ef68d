\* A generation ends.
SPECIFICATION TextSpec
CONSTANTS
  Generations <- Drafted
  OPEN <- OpenTag
  CLOSE <- CloseTag
  Extra <- ExtraDef
  Markers <- MarkersDef
  Dsml <- DsmlDef
  Invoke <- InvokeTag
  Closing <- ClosingDef
  Naming <- NamingDef
CHECK_DEADLOCK FALSE
INVARIANTS
  BudgetCloses
