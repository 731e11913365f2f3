\* Up to three options and two names in every spelling, and up to three words of any kind.
CONSTANTS
  None = None
  host = host  n1400 = n1400  n9000 = n9000  hex = hex
  Plain <- Words
  Number <- Numbers
  Version <- Versions
  Given <- MCGiven
  AnyLine <- MCAnyLine
SPECIFICATION Spec
INVARIANTS TypeOK NoReadBeyond StartsAsMeant
