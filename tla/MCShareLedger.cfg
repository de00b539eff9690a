\* One chat with two conversations and two dashboards, one of which may be
\* deleted.
SPECIFICATION Spec
CONSTANTS
  c1 = c1
  v1 = v1
  v2 = v2
  Chats = {c1}
  Convs = {v1, v2}
  ChatOf <- OneChat
  Dashes = {d1, d2}
  Removable = {d1}
INVARIANTS TypeOK ConvRecordsAreLive
PROPERTIES ChatShareIsKept NeededAccessIsKept
