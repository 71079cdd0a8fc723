\* Every handler runs once, so runs end.
SPECIFICATION Spec
CONSTANTS
  Handlers = {h1, h2, h3}
  Polls = {}
  Messages <- ThreeMails
  Contents = {"UNSUBSCRIBE", "POSITIVE"}
  Senders = {"recipient"}
  Headers = {"references"}
  Faults = {}
PROPERTIES OptOutKept
SYMMETRY RunSymmetry
CHECK_DEADLOCK FALSE
