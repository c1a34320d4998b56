\* Two server processes, a clock of five values, a registry that lives three of them.
SPECIFICATION Spec
CONSTANTS
  MaxServers = 2
  InvoiceLife = 2
  RegistryLife = 3
  KeyLife = 6
  Nothing = Nothing
  MaxTime = 4
INVARIANTS
  PresentedIsSigned
  PresentedIsCurrent
  OneIssuerPerPage
PROPERTIES
  ButtonsComeBack
CHECK_DEADLOCK FALSE
