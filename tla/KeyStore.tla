------------------------------- MODULE KeyStore -------------------------------
(***************************************************************************)
(* What the store promises of the values of its keys (src/nvs): a write    *)
(* takes effect in one step, with the record of its key, and no call       *)
(* changes the value of another key.  A call that succeeds may damage the  *)
(* keys it was told to spare from moving, for those have a write of their  *)
(* own; one that fails may damage any.  Nothing is promised of a damaged   *)
(* key until it is written, and between the calls nothing is damaged.      *)
(***************************************************************************)
CONSTANTS
  Keys, Values,
  Gone,    \* the value of a key that has none, or of which none is promised
  NoKey    \* the key of a flush

VARIABLES
  value,             \* what each key is set to
  kept,              \* the keys of which that is promised
  busy,              \* a call is in progress:
  key, new, spared   \* its key and value, and the keys it does not move

vars == <<value, kept, busy, key, new, spared>>
request == <<busy, key, new, spared>>

Init ==
  /\ value = [k \in Keys |-> Gone] /\ kept = Keys
  /\ busy = FALSE /\ key = NoKey /\ new = Gone /\ spared = {}

(* Keys of S may be damaged, and no other.                                 *)
Damage(S) ==
  /\ kept' \subseteq kept /\ kept \ S \subseteq kept'
  /\ value' = [k \in Keys |-> IF k \in kept' THEN value[k] ELSE Gone]

Begin(k, v, S) ==
  /\ ~busy
  /\ busy' = TRUE /\ key' = k /\ new' = v /\ spared' = S
  /\ Damage(S)

Return == busy' = FALSE /\ key' = NoKey /\ new' = Gone /\ spared' = {}

Write == \E k \in Keys, v \in Values, S \in SUBSET Keys : Begin(k, v, S)

Flush == Begin(NoKey, Gone, {})

EraseSpared ==
  /\ busy
  /\ Damage(spared)
  /\ UNCHANGED request

Written ==
  /\ busy /\ key # NoKey
  /\ value' = [value EXCEPT ![key] = new]
  /\ kept' = kept \cup {key}
  /\ Return

Flushed ==
  /\ busy /\ key = NoKey
  /\ UNCHANGED <<value, kept>>
  /\ Return

Fails ==
  /\ busy
  /\ Damage(Keys)
  /\ Return

Next == Write \/ Flush \/ EraseSpared \/ Written \/ Flushed \/ Fails

Spec == Init /\ [][Next]_vars
===============================================================================
