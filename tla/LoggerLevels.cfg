SPECIFICATION Spec
CONSTANTS
  Threads = {t1, t2}
  Used = {0, 3, 6}
INVARIANT TypeOK
INVARIANT OnlyLeavingNoneLeaks
