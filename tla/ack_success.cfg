SPECIFICATION RadioSpec
CONSTANTS
  c1 = c1
  c2 = c2
  Configs = {c1, c2}
  NoConfig = NoConfig
  MaxRadioFaults = 0
INVARIANTS
  AckSuccessIsReal
SYMMETRY ConfigSymmetry
