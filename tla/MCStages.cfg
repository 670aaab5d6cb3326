\* Both builds, three fragments: an input, a leftover and a fragment in neither
CONSTANTS
  f1 = f1  f2 = f2  f3 = f3
  Fragments = {f1, f2, f3}
  Tracked = {"Splice", "Cmplog"}
  StackSize = 2
  Builds = {"afl", "libfuzzer"}
SPECIFICATION StagesSpec
SYMMETRY Perms
INVARIANTS StagesTypeOK NewInputsAreLearnt LearntFromTheInput NothingPendingBetween InProcessAttribution
