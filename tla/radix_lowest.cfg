SPECIFICATION BigSpec
CONSTANTS
  BIGDIGIT_SIZE = 3
  KARATSUBA_THRESHOLD = 4
  EUCLID_DIFFERENCE = 2
  BASIC_EXPONENT = 1
  Values <- MCValues
  MaxFactor = 600
  MaxPower = 20000
  Shifts <- MCShifts
  Radices = {2, 3, 4, 5, 7}
INVARIANT AllTextsAreRead
CHECK_DEADLOCK FALSE
