\* What this manager sends: a URL with the first action of a process only, and
\* no text with a click.
CONSTANTS
  Block = {b1, b2}
  NoBlock = NoBlock
  InputSent = {FALSE}
  WindowCloses = TRUE
SPECIFICATION Spec
INVARIANT NoJobLeftAtExit
