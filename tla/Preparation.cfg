\* Two callers and two promotions share one permit and one package.
CONSTANTS
  Tasks = {c1, c2, b1, b2}
  Background = {b1, b2}
  Digests = {"d1"}
  max_warm = 1
  max_warmish = 1
  background_workers = 1
  MaxDetached = 1
SPECIFICATION FairSpec
INVARIANTS OnePreparer MissIsStillAMiss
PROPERTIES CompiledIsReturned EveryCallReturns
