\* One chat with two conversations, and one dashboard.
SPECIFICATION Spec
CONSTANTS
  c1 = c1
  v1 = v1
  v2 = v2
  Chats = {c1}
  Convs = {v1, v2}
  ChatOf <- OneChat
  Dashes = {d1}
  Removable = {}
PROPERTY UnshareRevokesItsOwnGrant
