\* InitConfig on every command line of up to three arguments: does the
\* precedence the tests state (command line over -config file over
\* defaults) hold?
CONSTANTS
  Names <- MCNames
  Words <- MCWords
  Numeral = "0"
  NoVal = NoVal
  Files <- MCFiles
  MaxArgs = 3
SPECIFICATION Spec
INVARIANT ConfigPrecedence
CHECK_DEADLOCK FALSE
