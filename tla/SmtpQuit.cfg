SPECIFICATION smtpSpec
CONSTANTS
  dot = dot
  x = x
  quit = quit
  max_size = 6
  Lines <- BodyLines
  Dot = dot
  Quit = quit
  Recipients = {r1, r2}
  None = none
  MaxTxn = 2
  MaxRcpt = 2
  MaxLines = 4
INVARIANTS
  BodyNotObeyed
