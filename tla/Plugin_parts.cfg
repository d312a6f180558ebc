SPECIFICATION Spec
CONSTANTS
  Targets = {x1, x2}
  Policies = {p1, p2}
  NoPolicy = NoPolicy
  NoTarget = NoTarget
  Keys = {k1, k2}
  Values = {Zero, v1, v2}
  Zero = Zero
  Unset = Unset
  Objects = {o1, o2}
  Setups <- MCSetups
INVARIANTS TruthfulEntry
  ConfTypeOK DocumentedIdentity OneIdentity SignsForServerless RaceLostOnce
PROPERTIES ManagedIsSeen ForgetsOnlyBare MappingReturns ResetClears ChangesOnlyItsOwn
