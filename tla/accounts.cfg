\* Two accounts, two requests at a time, a clock past the life of a token.
SPECIFICATION AccountsSpec
CONSTANTS
  u1 = u1
  u2 = u2
  e1 = e1
  e2 = e2
  p1 = p1
  p2 = p2
  r1 = r1
  r2 = r2
  UserIds = {u1, u2}
  Emails = {e1, e2}
  Passwords = {p1, p2}
  Secrets = {s1, s2}
  s1 = s1
  s2 = s2
  NoSecret = NoSecret
  Requests = {r1, r2}
  First <- MCFirst
  Life = 1
  MaxTime = 2
  MaxTokens = 2
SYMMETRY MCSymmetry
INVARIANTS
  PasswordAsAcknowledged
PROPERTIES
  AccountsStay
  OnlyAdminsAdminister
  SignaturesAreTrue
