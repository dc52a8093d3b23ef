-------------------------------- MODULE AskOnce --------------------------------
(***************************************************************************)
(* What the outbox of src/ui/queued-asks.ts promises a person who asks Dr. *)
(* CRE, with no tabs, drains, storage or wire: what was written is asked   *)
(* once, in the words it was written in; it is kept before it leaves, and  *)
(* never shown as waiting afterwards; it is taken at most once; and it is  *)
(* shown as received for good, and only after it was.                      *)
(***************************************************************************)
CONSTANTS Asks,    \* one ask = one text that a person sends
          Texts,
          NoText

VARIABLES stage,   \* stage[k]: "unsaid", "kept", "out", "taken" or "told"
          text     \* text[k]: what the person wrote

vars == <<stage, text>>

Init ==
  /\ stage = [k \in Asks |-> "unsaid"]
  /\ text = [k \in Asks |-> NoText]

Rests(k) == stage'[k] = stage[k] /\ text'[k] = text[k]

\* The person sends a text that is no other ask's; it may leave at once.
Writes(k) ==
  /\ stage[k] = "unsaid" /\ stage'[k] \in {"kept", "out"}
  /\ text'[k] \in Texts
  /\ \A j \in Asks \ {k} : text'[j] # text'[k]

Leaves(k) == stage[k] = "kept" /\ stage'[k] = "out" /\ text'[k] = text[k]

\* The person is shown that the ask was received.
Hears(k) == stage[k] = "taken" /\ stage'[k] = "told" /\ text'[k] = text[k]

\* One task of a page: it can hear of one ask, write a second, send a third.
Page == \A k \in Asks : Rests(k) \/ Writes(k) \/ Leaves(k) \/ Hears(k)

\* Dr. CRE has the ask from now on, whether or not anybody hears of it.
Take(k) ==
  /\ stage[k] = "out" /\ stage' = [stage EXCEPT ![k] = "taken"]
  /\ UNCHANGED text

Next ==
  \/ stage' \in [Asks -> {"unsaid", "kept", "out", "taken", "told"}] /\ Page
  \/ \E k \in Asks : Take(k)

Spec == Init /\ [][Next]_vars
================================================================================
