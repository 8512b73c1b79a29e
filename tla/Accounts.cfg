SPECIFICATION Spec
CONSTANTS
  r1 = r1
  r2 = r2
  r3 = r3
  b1 = b1
  b2 = b2
  n1 = n1
  n2 = n2
  p1 = p1
  p2 = p2
  Elder = Elder
  None = None
  Requests <- MCRequests
  Browsers <- MCBrowsers
  Names <- MCNames
  Passwords <- MCPasswords
  MaxOpen = 2
  MaxExpired = 1
SYMMETRY MCSymmetry
INVARIANTS IInv ActsOnlyAsProven OneAccountPerName ToldIsTrue LogoutLasts
CHECK_DEADLOCK FALSE
