\* Two requests at a time in a wallet whose two copayers must both sign.
SPECIFICATION Spec
CONSTANTS
  r1 = r1  r2 = r2  c1 = c1  c2 = c2  p = p  q = q  u = u
  Req = {r1, r2}
  Copayer = {c1, c2}
  Nobody = Nobody
  Required = 2
  Txp = {p, q}
  NoTxp = NoTxp
  Utxo = {u}
  InputsOf <- MCInputsOf
  Old = {q}
  Mutable = {p}
  MaxStale = 1
SYMMETRY AlikeSymmetry
INVARIANTS TypeOK SignedBeforeSent EveryVoteDecides InputsLockedUnlessRace
PROPERTIES DecisionsStand
CHECK_DEADLOCK FALSE
