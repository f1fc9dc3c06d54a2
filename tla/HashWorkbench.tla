--------------------------- MODULE HashWorkbench ---------------------------
(* hash/stub.c: the bench with a hash table, a copy of list/stub.c where    *)
(* the right total is a product of two ints.                                *)
EXTENDS WorkbenchState

CONSTANT IntWidth   \* of an int, 32 in the builds
Wrapped(x) == ((x + 2 ^ (IntWidth - 1)) % 2 ^ IntWidth) - 2 ^ (IntWidth - 1)
Expected(n) == Wrapped(n * (n + 1)) \div 2
Overflows(n) == Wrapped(n * (n + 1)) # n * (n + 1)
Bench == INSTANCE Workbench WITH Fifo <- FALSE, Places <- MAX_THREADS * MAX_ITEMS, Expected <- Expected

Init == Bench!Init
workbench == Bench!workbench
master_thread == Bench!master_thread
worker_thread(t) == Bench!worker_thread(t)

(* What the program holds to be right is so unless the product overflows.   *)
RightVerdict == Bench!RightVerdict /\ (main = "exit" => (master = "FAILED" <=> Overflows(Items)))
=============================================================================
