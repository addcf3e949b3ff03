SPECIFICATION DcfSpec
CONSTANTS
  Missing = Missing
  Dossiers <- DcfPrices
CHECK_DEADLOCK FALSE
INVARIANTS OutsideIsUnattainable
