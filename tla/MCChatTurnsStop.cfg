\* Who presses Stop may ask the next question at once: one conversation.
SPECIFICATION Spec
CONSTANTS
  Turns = {t1, t2}
  Convs = {c1}
  Codes = {x}
  None = none
  MaxEvents = 2
PROPERTIES StopIsObeyed
CHECK_DEADLOCK FALSE
