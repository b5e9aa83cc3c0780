\* A boundary event on a task, a sub-process and a call, with every cancelActivity.
SPECIFICATION NamingSpec
CONSTANT
  Letters <- AllLetters
INVARIANT InterruptsAsDrawn
CHECK_DEADLOCK FALSE
