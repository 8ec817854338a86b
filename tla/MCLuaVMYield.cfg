SPECIFICATION Spec
CONSTANTS
  BITRK = 256
  MAXARG_sBx = 1000
  LFIELDS_PER_FLUSH = 2
  MAXSTACK = 250
  LUAI_MAXVARS = 20
  LUAI_MAXUPVALUES = 6
  LUAI_MAXCCALLS = 16
  LUA_MINSTACK = 8
  BASIC_CI_SIZE = 2
  LUAI_MAXCALLS = 16
  LUAI_MAXCSTACK = 40
  MAXTAGLOOP = 4
  MAX_INT = 32
  Hash <- MCHash
  Texts <- MCYields
  Compiled <- MCCompiled
  Programs <- MCYields
INVARIANT CallsBalanced
