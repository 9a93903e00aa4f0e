\* One server and every request, person deletions among them.
CONSTANTS
  i1 = i1  i2 = i2  l1 = l1  l2 = l2  e1 = e1  e2 = e2  f1 = f1  f2 = f2  f3 = f3
  Instances = {i1}
  Links = {l1, l2}
  Emails = {e1, e2}
  Forms = {f1, f2, f3}
  LinkOf <- LinkOfForm
  EmailOf <- EmailOfForm
  Nobody = Nobody
  Ops = {"book", "list", "cancel", "delete", "purge"}
SPECIFICATION FairSpec
INVARIANTS NoOrphans NotStranded
PROPERTIES SlotIsSetUp
CHECK_DEADLOCK FALSE
