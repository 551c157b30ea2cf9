\* Two runs whose reservations fit together only once the first is settled for less;
\* a run may be billed more than was reserved for it.
SPECIFICATION FairSpec
CONSTANTS
    Last = 2
    Concurrency = 2
    Cap = 3
    Reservation = 2
    Amounts = {1, 3}
    StopOnPre = TRUE
    MaxFaults = 1
    MaxCrashes = 2
INVARIANTS LedgerCoversSpending BudgetKept ExecutedOnce CompletedIsKept
PROPERTIES NoStartAfterStop BatchEnds
