SPECIFICATION FairSpec
CONSTANTS
  V4 = {v1, v2}
  V6 = {w1, w2}
  Name = {n}
  NameLen = 5
  Resolved <- MCResolved
  Payload = {p}
  Mode = {"direct", "ss", "socks", "socks+ss"}
  Server = {v1, w1, n}
  Remote = {v2, n}
  Ciphers = {"none", "stream", "aead", "auth_aes128", "auth_chain"}
INVARIANTS RequestsIntact AnswersIntact
PROPERTY EndsTogether
CHECK_DEADLOCK FALSE
