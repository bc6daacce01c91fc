\* What this manager sends: a URL with the first action of a process only, and
\* no text with a click.  Three actions: the first one may stop the worker, the
\* second one would close its handle, the third one would miss it.
CONSTANTS
  MaxActions = 3
  Kinds = {"read", "click", "back"}
  InputSent = {FALSE}
  Faults = {"window_closed"}
SPECIFICATION Spec
INVARIANT PollFindsWorker
