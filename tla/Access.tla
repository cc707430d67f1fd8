------------------------------- MODULE Access -------------------------------
(***************************************************************************)
(* What a request's authority is made of, and all that the pairing flow    *)
(* may do to it: the phones whose own token is accepted and the two        *)
(* capabilities, changed by the dialogs, by a revocation, by a reset and,  *)
(* for the capabilities, by a person who edits the configuration file.     *)
(* The pairing flow implements this (PairingRefinement); the command       *)
(* handlers run against it (Commands).                                     *)
(***************************************************************************)
CONSTANTS
  Device,       \* device ids handed out to phones
  Prompt,       \* notifier threads, one for each dialog
  Edited        \* the capabilities that a reload may find in the file; where it
                \* finds none on, only a Yes turns a capability on

VARIABLES
  phones,       \* the registry: a phone is new, paired or gone
  input, power, \* allow_input_commands and allow_power_commands
  dialog,       \* what each notifier thread has come to
  resetting     \* a reset has emptied the registry and keeps the capabilities

vars == <<phones, input, power, dialog, resetting>>

Init ==
  /\ phones \in [Device -> {"new", "paired"}]
  /\ input \in BOOLEAN /\ power \in BOOLEAN
  /\ dialog = [p \in Prompt |-> "none"] /\ resetting = FALSE

Turn(p, from, to) ==
  dialog[p] = from /\ dialog' = [dialog EXCEPT ![p] = to]

Open(p) ==
  Turn(p, "none", "open") /\ UNCHANGED <<phones, input, power, resetting>>
\* "No": this dialog changes nothing any more.
Refuse(p) ==
  Turn(p, "open", "done") /\ UNCHANGED <<phones, input, power, resetting>>
\* "Yes" registers the phone of the dialog ...
Register(p, d) ==
  /\ Turn(p, "open", "granting")
  /\ phones[d] = "new" /\ phones' = [phones EXCEPT ![d] = "paired"]
  /\ UNCHANGED <<input, power, resetting>>
\* ... or none, if there is no enrollment or it has expired,
Approve(p) ==
  Turn(p, "open", "granting") /\ UNCHANGED <<phones, input, power, resetting>>
\* and later turns both capabilities on.
Grant(p) ==
  /\ Turn(p, "granting", "done")
  /\ input' = TRUE /\ power' = TRUE
  /\ UNCHANGED <<phones, resetting>>

Paired == {d \in Device : phones[d] = "paired"}
Without(S) == [d \in Device |-> IF d \in S THEN "gone" ELSE phones[d]]

\* One phone, or with a new token all of them.
Revoke(S) ==
  /\ ~resetting /\ S \subseteq Paired
  /\ phones' = Without(S)
  /\ UNCHANGED <<input, power, dialog, resetting>>

\* A reset revokes every phone, and then turns the capabilities off.
ResetRegistry ==
  /\ ~resetting /\ resetting' = TRUE
  /\ phones' = Without(Paired)
  /\ UNCHANGED <<input, power, dialog>>
ResetConfig ==
  /\ resetting /\ resetting' = FALSE
  /\ input' = FALSE /\ power' = FALSE
  /\ UNCHANGED <<phones, dialog>>

\* The tray reloads the file, which no dialog is asked about: one that a person
\* has edited, or one it has read before a grant was saved.
Reload ==
  /\ ~resetting
  /\ \E c \in Edited : input' = c.input /\ power' = c.power
  /\ UNCHANGED <<phones, dialog, resetting>>

Next ==
  \/ \E p \in Prompt :
       \/ Open(p) \/ Refuse(p) \/ Approve(p) \/ Grant(p)
       \/ \E d \in Device : Register(p, d)
  \/ Revoke(Paired) \/ \E d \in Paired : Revoke({d})
  \/ ResetRegistry \/ ResetConfig \/ Reload

Spec == Init /\ [][Next]_vars
=============================================================================
