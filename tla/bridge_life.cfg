SPECIFICATION Spec
CONSTANTS
  t1 = t1
  v1 = v1
  v2 = v2
  u1 = u1
  u2 = u2
  Messages <- MCMessages
  Voices <- MCVoices
  MaxMerge = 3
  Cap = 1
  Managers = {"always"}
  MaxSends = 3
  Upgrades <- MCUpgrades
  Hazards = {"thread", "age"}
INVARIANTS HandledOnce NoticeOnce VoiceIsHeard
PROPERTIES StopsInTheEnd
CHECK_DEADLOCK FALSE
