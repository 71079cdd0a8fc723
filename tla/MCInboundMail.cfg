\* Every handler and every poll runs once, so runs end.
SPECIFICATION ApartSpec
CONSTANTS
  Handlers = {h1, h2, h3}
  Polls = {p1, p2}
  Messages <- TwoMails
  Contents = {"UNSUBSCRIBE", "NEGATIVE", "POSITIVE"}
  Senders = {"recipient", "other", "none"}
  Headers = {"references"}
  Faults = {"crash", "fetch"}
INVARIANTS ClaimedOnce CheckpointCoversClaims OptOutReachesSuppression
PROPERTIES DisqualifiedStays
SYMMETRY RunSymmetry
CHECK_DEADLOCK FALSE
