SPECIFICATION FairSpec
CONSTANTS
  Lint = Lint
  Docs = Docs
  Shared = Shared
  Extra = Extra
  Names = {Lint, Docs}
  Tools = {Shared, Extra}
  OwnTools <- Brought
  Admitted = {Shared}
  Actors = {a, b}
  MaxObjects = 2
CHECK_DEADLOCK FALSE
INVARIANT BackendsAccounted
INVARIANT NoOrphanTools
INVARIANT OneActivator
PROPERTY ActivationsSettle
