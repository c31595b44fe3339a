\* Relayed transactions that conflict, beside the import of both branches.
SPECIFICATION Spec
CONSTANTS
  g = g  a1 = a1  a2 = a2  a3 = a3  a4 = a4  b3 = b3  b4 = b4  b5 = b5
  cb = cb  t1 = t1  t2 = t2  t3 = t3  t4 = t4
  c0 = c0  d1 = d1  d2 = d2  d3 = d3
  Block = {g, a1, a2, a3, a4, b3, b4, b5}
  Genesis = g
  NoBlock = NoBlock
  Tx = {cb, t1, t2, t3, t4}
  NoTx = NoTx
  Coin = {c0, d1, d2, d3}
  Sync = Sync
  Parent <- MCParent
  Height <- MCHeight
  Chain <- MCChain
  TxsOf <- MCTxsOf
  Minter <- MCMinter
  Inputs <- MCInputs
  FirstInput <- MCFirstInput
  FirstTip = a2
  MaxLocators = 2
  Mempool = {t1, t2}
  MaxCrashes = 0
  MaxLate = 0
INVARIANTS SpendsSound MintsSound SpendsComplete
PROPERTIES ConfirmedSpendStands
CHECK_DEADLOCK FALSE
