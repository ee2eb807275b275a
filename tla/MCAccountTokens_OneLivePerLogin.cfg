CONSTANTS
  Request = {r1, r2}
  MaxRefresh = 3
  MaxMail = 1
  Poster = {r1, r2}
  Addressee = {x1, x2}
  MaxLetter = 2
  SignIn = {r1, r2}
  Identity = {x1, x2}
  Address = {t1, t2}
  Process = {w1}
  Client = {x1, x2}
  Cap = 2
  Window = 2
  StaleAfter = 2
  CleanEvery = 2
  LastTick = 5
SPECIFICATION EntranceSpec
SYMMETRY EntranceSymmetry
CHECK_DEADLOCK FALSE
INVARIANT OneLivePerLogin
