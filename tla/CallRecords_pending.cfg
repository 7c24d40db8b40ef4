SPECIFICATION Spec
CONSTANTS
  promo = promo
  support = support
  Flows = {promo, support}
  NoFlow = NoFlow
  Calls <- OneCampaign
  Connections = {"originate", "redirect"}
  Strict = {"originate"}
  Cap = 2
  MaxInbox = 1
  RedisMayFail = TRUE
  MaxRestarts = 0
INVARIANT FailedIsNotPending
