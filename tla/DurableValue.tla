----------------------------- MODULE DurableValue -----------------------------
(***************************************************************************)
(* What the state journal promises (src/state.rs): one word that survives  *)
(* a power loss.  While it is being replaced nothing is promised of it,    *)
(* and zero is no value: a zero word means "nothing here".                 *)
(***************************************************************************)
CONSTANTS
  Words,      \* the values of a word
  Zero        \* the word without a one

VARIABLES
  stored,     \* the word a reboot finds; Zero if none is promised
  value, tmp, \* the words in memory
  up          \* the journal is open

vars == <<stored, value, tmp, up>>

Init ==
  /\ stored = Zero
  /\ value \in Words /\ tmp \in Words
  /\ up = FALSE

(* A new journal.                                                          *)
Format(w) ==
  /\ ~up
  /\ stored' = w
  /\ value' = w /\ tmp' = w
  /\ up' = TRUE

(* The stored word is about to be replaced; without power the memory holds  *)
(* anything.                                                               *)
Forget ==
  /\ stored' = Zero
  /\ value' \in Words /\ tmp' \in Words
  /\ up => UNCHANGED <<value, tmp>>
  /\ up' \in BOOLEAN /\ (up' => up)

SetTmp(w) ==
  /\ up
  /\ tmp' = w
  /\ UNCHANGED <<stored, value, up>>

Shift ==
  /\ up
  /\ value' = tmp
  /\ UNCHANGED <<stored, tmp, up>>

Commit ==
  /\ up
  /\ stored' = value
  /\ UNCHANGED <<value, tmp, up>>

PowerLoss ==
  /\ up
  /\ up' = FALSE
  /\ UNCHANGED <<stored, value, tmp>>

(* A reboot finds the stored word.                                         *)
Open ==
  /\ ~up
  /\ value' \in Words \ {Zero}
  /\ stored # Zero => value' = stored
  /\ tmp' = value'
  /\ up' = TRUE
  /\ stored' = stored

Next ==
  \/ \E w \in Words : Format(w) \/ SetTmp(w)
  \/ Forget \/ Shift \/ Commit \/ PowerLoss \/ Open

Spec == Init /\ [][Next]_vars
===============================================================================
