CONSTANTS
  Names = {u1, u2}
  NoName = noname
  Profiles = {f1, f2}
  NoProfile = noprofile
  Passwords = {p1, p2}
  NoPassword = nopassword
SYMMETRY Symmetric
SPECIFICATION Spec
INVARIANTS TypeOK PasswordIsKnown
PROPERTY ForgetsOnlyGone
