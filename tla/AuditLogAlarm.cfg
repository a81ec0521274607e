SPECIFICATION Spec
CONSTANTS
  w1 = w1
  w2 = w2
  c1 = c1
  c2 = c2
  Writer = {w1, w2}
  Content = {c1, c2}
  Altered = altered
  MaxEvents = 4
SYMMETRY Alike
INVARIANT AlarmMeansDamage
