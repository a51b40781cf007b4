SPECIFICATION Spec
CONSTANTS
  Requests = {r1, r2}
  Emails = {e1}
  Passwords = {pw1, pw2}
  MaxThrows = 0
INVARIANT TakenMeansConflict
CHECK_DEADLOCK FALSE
