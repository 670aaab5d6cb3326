\* The forkserver build, and one kind of mutation that may be counted
CONSTANTS
  f1 = f1  f2 = f2  f3 = f3
  Fragments = {f1, f2}
  Tracked = {"Random"}
  StackSize = 2
  Builds = {"afl"}
SPECIFICATION StagesSpec
INVARIANT MadeToThisTestcase
