SPECIFICATION Spec
CONSTANTS
  Values = {a, b}
  Top = 5
INVARIANT TypeOK
PROPERTY ImplementsLifo
