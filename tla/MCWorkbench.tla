---------------------------- MODULE MCWorkbench ----------------------------
(* One run over the three benches: program says which one is started.       *)
EXTENDS WorkbenchState
CONSTANT IntWidth
VARIABLE program
allVars == <<vars, program>>

List == INSTANCE Workbench WITH Fifo <- FALSE, Places <- MAX_THREADS * MAX_ITEMS, Expected <- SumUpTo
(* queue/stub.c: a worker takes out whatever item comes first. *)
Queue == INSTANCE Workbench WITH Fifo <- TRUE, Places <- MAX_THREADS * MAX_ITEMS + 1, Expected <- SumUpTo
Hash == INSTANCE HashWorkbench

Init == \/ program = "list" /\ List!Init
        \/ program = "queue" /\ Queue!Init
        \/ program = "hash" /\ Hash!Init

Main == /\ UNCHANGED program
        /\ \/ program = "list" /\ List!workbench
           \/ program = "queue" /\ Queue!workbench
           \/ program = "hash" /\ Hash!workbench
Master == /\ UNCHANGED program
          /\ \/ program = "list" /\ List!master_thread
             \/ program = "queue" /\ Queue!master_thread
             \/ program = "hash" /\ Hash!master_thread
Worker(t) == /\ UNCHANGED program
             /\ \/ program = "list" /\ List!worker_thread(t)
                \/ program = "queue" /\ Queue!worker_thread(t)
                \/ program = "hash" /\ Hash!worker_thread(t)

(* A condition variable may wake up those who wait for it at any time. *)
Spurious == (List!WakeMaster \/ \E t \in Workers : List!WakeWorker(t)) /\ UNCHANGED program

Next == Main \/ Master \/ (\E t \in Workers : Worker(t)) \/ Spurious \/ (~Running /\ UNCHANGED allVars)
Spec == /\ Init /\ [][Next]_allVars
        /\ WF_allVars(Main) /\ WF_allVars(Master) /\ \A t \in Workers : WF_allVars(Worker(t))

(* The test says OK: the items taken out add up to those put in.  The bench *)
(* of the hash tables cannot say so when n * (n + 1) overflows.             *)
RightVerdict == /\ program = "list" => List!RightVerdict
                /\ program = "queue" => Queue!RightVerdict
                /\ program = "hash" => Hash!RightVerdict

(* The program comes to an end: nobody sleeps through the last broadcast or *)
(* the last signal.                                                         *)
Ends == <>~Running
=============================================================================
