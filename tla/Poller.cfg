CONSTANTS
  Channels = {c1, c2, c3}
  Fds = {0, 1, 3}
SPECIFICATION Spec
INVARIANTS TypeOK NoAssertFails Mirrored
PROPERTY DisabledIsSilent
