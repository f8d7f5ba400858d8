SPECIFICATION Spec
CONSTANTS
  MaxAttempts = 2
  Flight = TRUE
  MaxPowerLosses = 3
INVARIANTS ReadsAreMarked BurnInterlock BurnBudget PanelBitsSound
PROPERTIES BootNumbersFresh BurnWireLeftForCause ReachesRunning
