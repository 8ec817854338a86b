CONSTANTS
  UcharSize = 4
  Args <- MCArgs
  W = 8
  MantissaBits = 12
  MaxExponent = 14
  Numbers <- MCNumbers
  Counts <- MCCounts
  OutDevices = {0, 1, 2}
  Shared = {0}
  OutHandles = {h1, h2, h3}
  Channels <- MCChannels
  DataBytes <- MCDataBytes
  NoMessage = NoMessage
SPECIFICATION LibSpec
INVARIANTS
  LibsTypeOK
  InOrder
  StackFlat
  NeverOverstates
  OperatorsArithmetic
  RotationsUndo
  DigitsReadBack
  HandlesAccounted
  SentAsAsked
