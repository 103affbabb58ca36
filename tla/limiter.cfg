\* Two keys, one of them that of every request without headers; two threads,
\* decided in any order after a wait of up to two ticks.
SPECIFICATION Spec
CONSTANTS
  Header = {a1}
  Local = local
  Thread = {t1, t2}
  RateLimit = 2
  Window = 2
  MaxTime = 4
  MaxWait = 2
  Nobody = Nobody
SYMMETRY Symmetry
INVARIANTS TypeOK LimitUpToWait MemoryBounded
PROPERTIES RefusedOnlyWhenFull
