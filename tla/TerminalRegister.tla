-------------------------- MODULE TerminalRegister --------------------------
(***************************************************************************)
(* What a run directory promises to everybody who reads it.  A run gets at *)
(* most one verdict; the verdict may later be announced, as decided and    *)
(* only once; the record may be dropped only after the announcement.       *)
(*                                                                         *)
(* RunStore implements this with two files, a lock, and processes that die *)
(* between any two writes.                                                 *)
(***************************************************************************)
CONSTANTS Verdicts,   \* the terminal execution statuses
          NoVerdict   \* not yet decided, or not yet announced

VARIABLES verdict,    \* what was decided
          announced,  \* what readers of the lifecycle status are told
          retained    \* the record still exists

registerVars == <<verdict, announced, retained>>

Init == /\ verdict = NoVerdict
        /\ announced = NoVerdict
        /\ retained = TRUE

Decide(v) == /\ retained
             /\ verdict = NoVerdict
             /\ verdict' = v
             /\ UNCHANGED <<announced, retained>>

Announce == /\ retained
            /\ verdict # NoVerdict
            /\ announced = NoVerdict
            /\ announced' = verdict
            /\ UNCHANGED <<verdict, retained>>

Retire == /\ retained
          /\ announced # NoVerdict
          /\ retained' = FALSE
          /\ UNCHANGED <<verdict, announced>>

Next == \/ \E v \in Verdicts : Decide(v)
        \/ Announce
        \/ Retire

Spec == Init /\ [][Next]_registerVars
=============================================================================
