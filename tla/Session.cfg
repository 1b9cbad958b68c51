\* Every failure of cws_create, one redirection, two protocols.
SPECIFICATION Spec
CONSTANTS
  Protocols = {chat, superchat}
  NULL = NULL
  MaxRedirects = 1
INVARIANTS
  OwnedIsReachable
  HandleIsComplete
  OtherCallbacksKeepHandle
  DispatchingIsBalanced
  ConnectedIsProven
  RedirectionIsCurrent
