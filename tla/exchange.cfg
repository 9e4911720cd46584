SPECIFICATION Spec
CONSTANTS
  Local = "local.ptron"
  Settings <- Exchanges
INVARIANTS TypeOK SentToItsHost OwnFraming PairedResponses WebsiteStream ActiveCount ResponseFramed ExchangeClosed NeverUndercount RedirectBound TunnelInOrder ProxyTunnels
PROPERTY IdleCloseBetween
