CONSTANTS
    p1 = p1  p2 = p2  d1 = d1  d2 = d2  o1 = o1  o2 = o2  c1 = c1  c2 = c2
    r1 = r1  b1 = b1  b2 = b2  live = live  replay = replay  new = new  old = old
    None = None  Nothing = Nothing  Zero = Zero
    Clients = {p1, p2}
    Documents <- FourDocuments
    Works <- ThreeWorks
    MaxCrashes = 1
CHECK_DEADLOCK FALSE
SPECIFICATION LivenessSpec
INVARIANTS TypesOK 
PROPERTIES FirstDecisionStands TransactionsEnd ReconciliationCompletes ActivationConverges
    InterruptedBatchesComplete StartsSettle ReceiptsGetLinked
