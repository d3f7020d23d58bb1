SPECIFICATION LiveSpec
CONSTANTS
  Ring = 7
  Period = 2
  Targets = {3, 9}
  Stamps = 15
INVARIANTS
  PlaysWhatWasMixed
PROPERTIES
  SoundGoesOn
