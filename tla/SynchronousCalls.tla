-------------------------- MODULE SynchronousCalls --------------------------
(***************************************************************************)
(* What a caller may believe about its remote calls.  Calls are made one    *)
(* at a time and in order; each is carried out at most once; it is answered *)
(* only if it was carried out and only while its caller waits; given up, it *)
(* may still be carried out, and nobody hears of it.                        *)
(*                                                                         *)
(* TuiRpc implements this over two pipes to a process that may be late,     *)
(* silent or dead.                                                          *)
(***************************************************************************)
EXTENDS Naturals

CONSTANT Calls     \* an initial segment of the positive integers

VARIABLES state,   \* each call: "new", "open", "answered" or "given up"
          done     \* the calls that were carried out

Init == /\ state = [c \in Calls |-> "new"]
        /\ done = {}

\* A call that cannot be made is given up at once.
Open(c) == /\ state[c] = "new"
           /\ \A d \in Calls : d < c => state[d] \in {"answered", "given up"}
           /\ \E s \in {"open", "given up"} : state' = [state EXCEPT ![c] = s]
           /\ UNCHANGED done

CarryOut(c) == /\ state[c] \in {"open", "given up"}
               /\ c \notin done
               /\ done' = done \cup {c}
               /\ UNCHANGED state

Answer(c) == /\ state[c] = "open"
             /\ c \in done
             /\ state' = [state EXCEPT ![c] = "answered"]
             /\ UNCHANGED done

GiveUp(c) == /\ state[c] = "open"
             /\ state' = [state EXCEPT ![c] = "given up"]
             /\ UNCHANGED done

Next == \E c \in Calls : Open(c) \/ CarryOut(c) \/ Answer(c) \/ GiveUp(c)

Spec == Init /\ [][Next]_<<state, done>>
=============================================================================
