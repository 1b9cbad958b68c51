\* The application destroys the handle in on_close.
SPECIFICATION Spec
CONSTANTS
  Protocols = {chat}
  NULL = NULL
  MaxRedirects = 0
INVARIANT
  NoUseAfterDestroy
