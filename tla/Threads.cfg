\* Two processes with a call each or two of one, a key press of each kind and
\* two adapter changes.  The system comes to rest when the bounds are reached.
SPECIFICATION Spec
CONSTANTS
  c1 = c1
  c2 = c2
  h1 = h1
  Caller <- MCCaller
  Handler <- MCHandler
  Nobody = Nobody
  Toggle = {"super_key_enable"}
  ChargeType = {"Standard", "Trickle"}
  FactoryType = "Standard"
  Option = {"charging", "performance"}
  FactoryOption = "charging"
  Level = {0, 2}
  Colour <- MCColour
  MaxCalls = 2
  MaxKeys <- MCMaxKeys
INVARIANTS
  ThreadsTypeOK
  ChargeKept
  ColourSettles
PROPERTIES
  ToggleIsAtomic
  ComesToRest
CHECK_DEADLOCK FALSE
