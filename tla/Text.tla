-------------------------------- MODULE Text --------------------------------
(***************************************************************************)
(* Names as the algorithms see them: sequences of letters, with what       *)
(* strings.ToLower and strings.ReplaceAll make of them.                    *)
(***************************************************************************)
EXTENDS Sequences

CONSTANT Lower   \* the lower case of a letter
ASSUME LowerAssumption ==
  /\ "-" \in DOMAIN Lower
  /\ \A l \in DOMAIN Lower :
       /\ Lower[l] \in DOMAIN Lower /\ Lower[Lower[l]] = Lower[l]
       /\ \A c \in {"-", "_", "."} : Lower[l] = c <=> l = c

NoText == <<>>

Lowered(name) == [i \in DOMAIN name |-> Lower[name[i]]]

(* Lower case, with a dash for each of some letters.                       *)
Dashed(name, letters) ==
  [i \in DOMAIN name |-> IF name[i] \in letters THEN "-" ELSE Lower[name[i]]]
=============================================================================
