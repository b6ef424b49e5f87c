SPECIFICATION FairRadioSpec
CONSTANTS
  c1 = c1
  c2 = c2
  Configs = {c1, c2}
  NoConfig = NoConfig
  MaxRadioFaults = 3
INVARIANTS
  RadioTypeOK
  ReadyMeansListening
  NoLostWakeup
  SingleFaultKeepsConfig
PROPERTIES
  FrameServiced
