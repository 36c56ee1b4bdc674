SPECIFICATION Spec
CONSTANTS
  Clients = {c1, c2}
  c1 = c1
  c2 = c2
  l1 = l1
  p1 = p1
  p2 = p2
  Logins = {l1}
  Passwords = {p1, p2}
  MaxId <- MCMaxId
  Calls <- MCCalls
INVARIANT TypeOK
INVARIANT ReferencesExist
INVARIANT StampsFollowStatus
INVARIANT SessionsHaveDatabase
PROPERTY ChangesAreLogged
PROPERTY CallsReturn
