------------------------- MODULE PairingRefinement -------------------------
(***************************************************************************)
(* The pairing flow implements Enrollment: the stage of a device id is a   *)
(* function of the registry and of the notifier thread opened for it.  It  *)
(* implements Access too, the interface on which the commands rely.        *)
(***************************************************************************)
EXTENDS Pairing

Claims(p, d) == prompt[p].claimed = d
AskedFor(p, d) == prompt[p].asked = d
Unanswered(p) == prompt[p].pc \in {"hint", "dialog"}

StageOf(d) ==
  CASE d \in registry -> "paired"
    [] d \notin registry /\ \E p \in Prompt : Claims(p, d) ->
         IF \E p \in Prompt : Claims(p, d) /\ prompt[p].pc = "register"
         THEN "approved" ELSE "revoked"
    [] OTHER ->
         IF \E p \in Prompt : AskedFor(p, d)
         THEN IF \E p \in Prompt : AskedFor(p, d) /\ Unanswered(p)
              THEN "asked" ELSE "refused"
         ELSE "new"

stage == [d \in Device |-> StageOf(d)]

enrollment == INSTANCE Enrollment WITH stage <- stage

(* Every enrollment goes through the stages that Enrollment allows (request *)
(* and commit_valid in src/pairing.rs, windows_pairing_notifier and the     *)
(* revocations in src/tray.rs).                                             *)
ImplementsEnrollment == enrollment!Spec

---------------------------------------------------------------------------
(* Access knows of an enrollment only what a phone can do with its token,  *)
(* and of a dialog whether it is answered and what is left for it to do.   *)

PhoneOf(d) ==
  CASE StageOf(d) = "paired" -> "paired"
    [] StageOf(d) = "revoked" -> "gone"
    [] OTHER -> "new"

DialogOf(p) ==
  CASE prompt[p].pc = "none" -> "none"
    [] prompt[p].pc \in {"hint", "dialog", "register"} -> "open"
    [] prompt[p].pc \in {"unqueue", "record", "grant"} -> "granting"
    [] OTHER -> "done"

phones == [d \in Device |-> PhoneOf(d)]
dialog == [p \in Prompt |-> DialogOf(p)]
resetting == tray = "resetConfig"

access == INSTANCE Access WITH input <- allow.input, power <- allow.power

(* Whatever overlaps, what the pairing flow and the tray do to the          *)
(* authority of phones is what Access allows: capabilities come on once for *)
(* each Yes, or because the tray reloads a file into which a person wrote   *)
(* them, and for nothing else; a phone is registered by an open dialog,     *)
(* once, and is never back after its revocation, and a reset takes the      *)
(* phones before the capabilities (windows_pairing_notifier,                *)
(* reload_config_if_changed and reset_companion in src/tray.rs,             *)
(* commit_valid in src/pairing.rs).                                         *)
ImplementsAccess == access!Spec
=============================================================================
