\* Two threads, two customers, two words, restarts between any two statements.
SPECIFICATION Spec
CONSTANTS
  MaxCustomer = 2
  Word = {w1, w2}
  Text <- SomeWords
  Limit = 1
  Thread = {t1, t2}
  NoCustomer = NoCustomer
SYMMETRY Symmetry
INVARIANTS TypeOK FoundByOwnWords RemovedNeverFound
