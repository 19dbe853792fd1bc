\* As Threads.cfg: an adapter event is answered while a process writes.
SPECIFICATION Spec
CONSTANTS
  c1 = c1
  c2 = c2
  h1 = h1
  Caller <- MCCaller
  Handler <- MCHandler
  Nobody = Nobody
  Toggle = {"super_key_enable"}
  ChargeType = {"Standard", "Trickle"}
  FactoryType = "Standard"
  Option = {"charging", "performance"}
  FactoryOption = "charging"
  Level = {0, 2}
  Colour <- MCColour
  MaxCalls = 2
  MaxKeys <- MCMaxKeys
INVARIANTS
  UsbCKept
CHECK_DEADLOCK FALSE
