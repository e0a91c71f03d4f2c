SPECIFICATION Spec
CONSTANTS
  Link = {c1}
  NoClaim = NoClaim
  Installer = {i1, i2}
  MaxTokens = 3
INVARIANT LookingIsHarmless
CHECK_DEADLOCK FALSE
