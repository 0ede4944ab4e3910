SPECIFICATION Spec
CONSTANTS
  Replicas = {r1, r2}
  Clusters = {"local", "remote", "bare"}
  Local = "local"
  Providers = {"local", "remote"}
  Callers = {"root", "ana", "guest"}
  Admins = {"root"}
  Customers = {"acme"}
  CustomerOf <- MCCustomerOf
  Names = {"lobby"}
  None = None
  MaxUid = 2
INVARIANTS
  TypeOK
  AnswersTrue
PROPERTIES
  DeletesWhatItSaw
SYMMETRY Symmetry
