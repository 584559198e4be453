SPECIFICATION Spec
CONSTANTS
  other = other
  pay = pay
  child = child
  swap = swap
  addrA = addrA
  addrB = addrB
  addrU = addrU
  mine = mine
  Base = {other, mine}
  Txs = {pay, child, swap}
  TxIns <- MCTxIns
  TxOuts <- MCTxOuts
  Registered = {addrA, addrB}
  Fee <- MCFee
  None = None
  FetchThreads = 2
  MaxBlocks = 2
  MaxRepeats = 1
  MaxRestarts = 1
INVARIANTS NoConflicts  PurgedGone CoinsFlagged 
PROPERTIES DropsDescendants
CHECK_DEADLOCK FALSE
