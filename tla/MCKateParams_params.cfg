SPECIFICATION Spec
CONSTANTS
  Kinds = {"region"}
  Plains = {"text_encoding"}
  Unset = {"text_encoding"}
  Motions = {"m1", "m2"}
  Semantics <- MCSemantics
  Stored <- MCStored
  Headers <- MCHeaders
  Metas = {"a"}
  Leaves = {"x"}
  MaxItems = 1
  MaxLeaves = 2
  MaxFailures = 1
  Promises = {"headers first", "items first"}
INVARIANTS
  ParamsInvariant
  EventIsDecodable
PROPERTY CarriesChoices
