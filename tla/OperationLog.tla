---------------------------- MODULE OperationLog ----------------------------
(***************************************************************************)
(* What the MCP server promises about a money operation, apart from how it *)
(* keeps it: an idempotency key stands for one intent, an intent is        *)
(* carried out under one key only, its rows appear together when it is     *)
(* carried out, disappear together when it is undone, and an operation     *)
(* that was undone is never carried out again.                             *)
(***************************************************************************)
CONSTANTS Keys, Intents, None, RowKinds

VARIABLES
  fate,    \* fate[k]: "free", "done" or "undone"
  intent,  \* intent[k]: the intent carried out under key k; None while free
  effect   \* effect[k]: the kinds of rows that exist because of key k

vars == <<fate, intent, effect>>

Init ==
  /\ fate = [k \in Keys |-> "free"]
  /\ intent = [k \in Keys |-> None]
  /\ effect = [k \in Keys |-> {}]

Do(k, i) ==
  /\ fate[k] = "free" /\ \A j \in Keys : intent[j] # i
  /\ fate' = [fate EXCEPT ![k] = "done"]
  /\ intent' = [intent EXCEPT ![k] = i]
  /\ \E rows \in SUBSET RowKinds :
       rows # {} /\ effect' = [effect EXCEPT ![k] = rows]

Undo(k) ==
  /\ fate[k] = "done"
  /\ fate' = [fate EXCEPT ![k] = "undone"]
  /\ effect' = [effect EXCEPT ![k] = {}]
  /\ UNCHANGED intent

Next == \E k \in Keys : Undo(k) \/ \E i \in Intents : Do(k, i)

Spec == Init /\ [][Next]_vars
=============================================================================
