\* Two requests at a time, one write over an unseen change.
SPECIFICATION Spec
CONSTANTS
  r1 = r1  r2 = r2  c1 = c1  c2 = c2  p = p  q = q  u = u
  Req = {r1, r2}
  Copayer = {c1, c2}
  Nobody = Nobody
  Required = 2
  Txp = {p, q}
  NoTxp = NoTxp
  Utxo = {u}
  InputsOf <- MCInputsOf
  Old = {p, q}
  Mutable = {}
  MaxStale = 1
SYMMETRY Symmetry
INVARIANTS InputsLocked
CHECK_DEADLOCK FALSE
