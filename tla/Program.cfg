CONSTANTS
  Priorities = {0, 1, 2}
  Platforms = {"elf", "mach_o", "none"}
  MaxArgs = 4
  This = "this"
  Others = {"other"}
  MaxPriority = 65535
SPECIFICATION RawSpec
INVARIANTS RawTypeOK MacroMeans TypeFits Sequenced
