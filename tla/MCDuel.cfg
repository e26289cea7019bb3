SPECIFICATION Spec
CONSTANTS
  InitialHp = 8
  MinReaction = 1
  Cooldown = 2
  Stun = 3
  StartedAt = 2
  MaxNow = 10
  Tabs = {ta, tb}
  ta = ta
  tb = tb
SYMMETRY TabSymmetry
CHECK_DEADLOCK FALSE
INVARIANTS
  TypeOK
  PromptLandsOnce
  DamageIsEarned
  ComboIsStreak
  PaceIsHuman
  VerdictIsDeserved
PROPERTIES
  StunIsServed
  
