SPECIFICATION Spec
CONSTANTS
  Names <- PrefixNames
  Args = {1, 3, 4, 21}
  U64 = 256
  LongMod = 16
  NsPerJiffy = 3
  Idle = Idle
  NoArg = NoArg
  Off = Off
  Forever = Forever
INVARIANTS TimeoutRoundedUp
PROPERTIES ImplementsLockMap
