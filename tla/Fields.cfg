SPECIFICATION Spec
CONSTANTS
  Topics = {"name", "adr", "tel", "mail", "note", "cat", "alarm", "rule", "time", "text", "dates", "state", "memo"}
  TypeOf <- MCTypeOf
  Progs = {"none", "GNOME", "KDE"}
  Ic35Input <- MCIc35Input
  PimInput <- MCPimInput
  MaxFld = 6
  Strange = 99
  MaxEdits = 2
INVARIANTS
  TypeOK
  PutGet
  PutTwice
  UpdateSettles
  ForeignKept
  NamesInFull
CHECK_DEADLOCK FALSE
