SPECIFICATION Spec
CHECK_DEADLOCK FALSE
CONSTANTS
  Widths <- MCWidths
  None = None
INVARIANTS TypeOK PanelShows PollingGoesOn
PROPERTIES LedsFollow ConnectionLasts
