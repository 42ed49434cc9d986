SPECIFICATION Spec
CONSTANTS
  v1 = v1  v2 = v2  v3 = v3  unknown = unknown  NoPurpose = NoPurpose
  Vars <- Ids  Definitions <- SomeDefinitions  Orders <- SomeOrders
  Letters = {"a", "b"}
  Special = {}
  MaxPattern = 4
  MaxValue = 4
INVARIANTS MatchesAsMeant ResolutionSound PayloadCarriedOver
CHECK_DEADLOCK FALSE
