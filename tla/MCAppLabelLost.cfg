SPECIFICATION Spec
CONSTANTS
  gnss = gnss
  w1 = w1
  w2 = w2
  None = None
  NoLabel = NoLabel
  Texts = {gnss}
  Collections = {1, 2}
  Pollers = {w1}
  MaxPort = 1
  MaxChanges = 0
INVARIANTS LabelShown
