---------------------------- MODULE MCCommands ----------------------------
(* A small instance of Commands for TLC: two requests that may overlap, one *)
(* phone, and the combinations that matter: the secure attention sequence   *)
(* in another order, with a key named twice, half of it with a name that    *)
(* does not parse, a shortcut, and Delete alone.                            *)
EXTENDS Commands, TLC

CONSTANTS r1, r2, ctrl, alt, del, key, typo

Symmetry == Permutations(Prompt)
MCKey == {ctrl, alt, del, key}
MCCombo == {<<>>, <<alt, ctrl, del>>, <<ctrl, ctrl, alt, del>>, <<ctrl, alt, typo>>,
            <<ctrl, key>>, <<del>>}
Plain(kind) == [kind |-> kind, combo |-> <<>>, fallback |-> FALSE]
PlainCommand == {Plain(k) : k \in {"info", "input", "system", "security"}}
                  \cup {[Plain("security") EXCEPT !.fallback = TRUE]}
Shared == [kind |-> "shared", of |-> 0]
KeysAsk == {[cred |-> Shared, cmd |-> [Plain("keys") EXCEPT !.combo = c]] :
              c \in MCCombo}
MCAsk == r1 :> (KeysAsk \cup [cred: Credential, cmd: PlainCommand])
           @@ r2 :> KeysAsk
===========================================================================
