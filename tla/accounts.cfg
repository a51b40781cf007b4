SPECIFICATION Spec
CONSTANTS
  Requests = {r1, r2, r3, r4}
  Emails = {e1, e2}
  Passwords = {pw1, pw2}
  MaxThrows = 1
SYMMETRY Sym
INVARIANTS
  TypeOK
  OneWinner
  TokenIsEarned
  RegisteredCanLogIn
PROPERTY KeepsRegistry
CHECK_DEADLOCK FALSE
