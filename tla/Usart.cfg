CONSTANTS
  TxByte = {x}
  RxByte = {u}
  TxSize = 3
  RxSize = 2
  None = None
SPECIFICATION UsartSpec
INVARIANTS UsartTypeOK SentInOrder  TransmitterEnabled
