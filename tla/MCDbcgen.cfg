SPECIFICATION Spec
CONSTANTS
  Programs <- OtherPrograms
  CommandLines <- Lines
  Databases <- Data
  Texts <- ShortTexts
  Widths <- TextWidths
INVARIANTS  FormatKeepsWords HeaderIsRight
CHECK_DEADLOCK FALSE
