\* One customer, edited; what a start makes of the index.
SPECIFICATION Spec
CONSTANTS
  MaxCustomer = 1
  Word = {w1, w2}
  Text <- SomeWords
  Limit = 1
  Thread = {t1}
  NoCustomer = NoCustomer
PROPERTIES StartForgetsOldWords
