---------------------------- MODULE ThreadSteps ----------------------------
(* The calls that threads make on a shared container, and whether what they *)
(* return can be explained by a container that does each call at one        *)
(* instant between its start and its return (linearizability).              *)
(*                                                                          *)
(* configs holds every abstract container that the results so far allow:    *)
(* its state, and the results of the calls that have taken effect in it but *)
(* have not returned.  When a call returns a result that none of them       *)
(* allows, configs becomes empty and stays empty.                           *)
EXTENDS Integers, Sequences, FiniteSetsExt

CONSTANTS Threads, MaxCalls   \* MaxCalls bounds the calls of all threads together
VARIABLES call, made, configs

callVars == <<call, made, configs>>

Nothing == [op |-> "none", no |-> 0]
Pending == {t \in Threads : call[t] # Nothing}
Quiet == Pending = {}
Used == made = MaxCalls

(* What a set, a map and a queue promise.  A key is stored with a value that *)
(* only the key determines, so that a find or a delete that succeeds returns *)
(* the key; one that fails returns 0.                                        *)
Outcome(s, ret) == [state |-> s, ret |-> ret]
Effect(s, c) ==
  CASE c.op = "add"    -> Outcome(s \cup {c.key}, IF c.key \in s THEN 0 ELSE c.key)
    [] c.op = "delete" -> Outcome(s \ {c.key}, IF c.key \in s THEN c.key ELSE 0)
    [] c.op = "find"   -> Outcome(s, IF c.key \in s THEN c.key ELSE 0)
    [] c.op = "enq"    -> Outcome(Append(s, c.key), c.key)
    [] c.op = "deq"    -> IF s = <<>> THEN Outcome(s, 0) ELSE Outcome(Tail(s), Head(s))

NoCalls(S) ==
  /\ call = [t \in Threads |-> Nothing]
  /\ made = 0
  /\ configs = {[state |-> s, ret |-> <<>>] : s \in S}

Invoke(t, op, k) ==
  /\ call[t] = Nothing
  /\ ~Used
  /\ call' = [call EXCEPT ![t] = [op |-> op, key |-> k, no |-> made + 1]]
  /\ made' = made + 1
  /\ UNCHANGED configs

TakeEffect(c, t) ==
  LET e == Effect(c.state, call[t])
  IN [state |-> e.state, ret |-> [u \in DOMAIN c.ret \cup {t} |-> IF u = t THEN e.ret ELSE c.ret[u]]]

(* Calls take effect one after the other; the orders in which some of S can. *)
TakeEffects(c, s) ==
  MapThenFoldSet(LAMBDA u, b : TakeEffect(b, u), c, LAMBDA i : s[i], LAMBDA I : Max(I), DOMAIN s)
Orders(S) == UNION {Bijection(1..Cardinality(D), D) : D \in SUBSET S}

(* Before t returns its call has taken effect, possibly after other pending ones. *)
Explained(c, t) ==
  IF t \in DOMAIN c.ret THEN {c}
  ELSE {TakeEffect(TakeEffects(c, s), t) : s \in Orders(Pending \ (DOMAIN c.ret \cup {t}))}

Answer(t, ret) ==
  /\ configs' = {[state |-> c.state, ret |-> [u \in DOMAIN c.ret \ {t} |-> c.ret[u]]] :
                   c \in {d \in UNION {Explained(b, t) : b \in configs} : d.ret[t] = ret}}
  /\ call' = [call EXCEPT ![t] = Nothing]
  /\ UNCHANGED made

(* The results that the calls have returned so far are those of some       *)
(* sequential order of the calls that respects which call ended before     *)
(* which other one began.                                                  *)
Explainable == configs # {}

(* Between calls the container holds what one of these orders leaves in it. *)
Explains(contents) == Quiet => \E c \in configs : c.state = contents
-----------------------------------------------------------------------------
(* What the models of the containers share: a memory, and threads in the    *)
(* middle of a call, each with a next step and local variables.             *)
CONSTANT Null
VARIABLES heap, pc, my

vars == <<heap, pc, my, callVars>>

Locals == [pred |-> Null, curr |-> Null, next |-> Null, deleted |-> FALSE]
Idle == /\ pc = [t \in Threads |-> "idle"]
        /\ my = [t \in Threads |-> Locals]

key(t) == call[t].key
new(t) == call[t].no   \* names the node that the call of t creates
At(t, l) == pc[t] = l
Goto(t, l) == pc' = [pc EXCEPT ![t] = l]
(* t's local variables that v names get its values, the others keep theirs. *)
Set(t, v) ==
  my' = [my EXCEPT ![t] = [x \in DOMAIN @ \cup DOMAIN v |-> IF x \in DOMAIN v THEN v[x] ELSE @[x]]]

Enter(t, op, k, l) == Invoke(t, op, k) /\ Goto(t, l) /\ UNCHANGED my
Return(t, ret) == Answer(t, ret) /\ Goto(t, "idle") /\ my' = [my EXCEPT ![t] = Locals]
Internal == UNCHANGED callVars
Local(t, l) == Goto(t, l) /\ UNCHANGED heap /\ Internal

(* A thread has used memory that is not there.  Nothing is said of what     *)
(* happens after that.                                                      *)
Crashed == \E t \in Threads : pc[t] = "crashed"
=============================================================================
