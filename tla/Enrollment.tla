----------------------------- MODULE Enrollment -----------------------------
(***************************************************************************)
(* What the pairing flow promises of each enrollment, whatever the threads *)
(* do: a phone is registered only after a dialog that was opened for it    *)
(* was answered with "Yes", a dialog's answer decides about its own phone  *)
(* and no other, and nothing is ever taken back to an earlier stage: a     *)
(* phone that was refused or revoked has to enroll anew, under a new id.   *)
(***************************************************************************)
CONSTANT Device         \* device ids handed out

VARIABLE stage          \* how far the enrollment of each device id has come

Stage == {"new", "asked", "refused", "approved", "paired", "revoked"}

Init == stage = [d \in Device |-> "new"]

Step(d, from, to) ==
  stage[d] = from /\ stage' = [stage EXCEPT ![d] = to]

\* A dialog is opened for the device.
Ask(d) == Step(d, "new", "asked")
\* Its dialog is answered with "No", or with "Yes" when the record has expired.
Refuse(d) == Step(d, "asked", "refused")
\* Its dialog is answered with "Yes".
Approve(d) == Step(d, "asked", "approved")
\* Its token authenticates from now on.
Register(d) == Step(d, "approved", "paired")
\* Some or all registered devices are revoked.
Revoke(S) ==
  /\ \A d \in S : stage[d] = "paired"
  /\ stage' = [d \in Device |-> IF d \in S THEN "revoked" ELSE stage[d]]

Next ==
  \/ \E d \in Device : Ask(d) \/ Refuse(d) \/ Approve(d) \/ Register(d)
  \/ \E S \in SUBSET Device : Revoke(S)

Spec == Init /\ [][Next]_stage
=============================================================================
