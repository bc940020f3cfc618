SPECIFICATION FairSpec
CONSTANTS
  c1 = c1
  c2 = c2
  Calls <- TwoCalls
  Harmless <- OneCall
  MaxConns = 1
  Wait = 1
  MaxClicks = 2
  Hazards <- AllHazards
CHECK_DEADLOCK FALSE
INVARIANTS OnlyByConsent NoResidue ApprovalArrives
PROPERTY PlacesComeBack
