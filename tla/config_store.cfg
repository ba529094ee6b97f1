CONSTANTS
  t1 = t1  t2 = t2  a = a  b = b
  Tools = {t1, t2}
  Names = {a, b, Unnamed}
  Values = {1, 2}
  Unnamed = Unnamed
  Absent = Absent
  Broken = Broken
  MaxRedirects = 2
SPECIFICATION Spec
SYMMETRY Symmetry
PROPERTIES
  StaysParsable UndisturbedIsExact
CHECK_DEADLOCK FALSE
