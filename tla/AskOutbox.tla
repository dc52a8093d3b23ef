------------------------------- MODULE AskOutbox -------------------------------
(***************************************************************************)
(* The outbox of asks for Dr. CRE: src/ui/queued-asks.ts and the composer  *)
(* of src/ui/ask-composer.tsx that drives it.                              *)
(*                                                                         *)
(* An ask is kept in the device's storage, one record per request key,     *)
(* shared by every tab that has the conversation open.  Each tab has an    *)
(* outbox of its own, a box: a loop, run, that drains the asks which wait, *)
(* one request at a time and each key at most once per drain.  A box is    *)
(* opened after the session was verified and stopped when its composer is  *)
(* closed or the session ends; a page that is closed stops its box too.    *)
(*                                                                         *)
(* What a page does in one task is one step here, its reads and writes of  *)
(* storage included: no other tab writes between two statements of one     *)
(* callback.  The box of a stopped composer writes nothing any more; its   *)
(* drain and its request stay as they were, which is only seen by the      *)
(* record layer, where the request may still arrive.                       *)
(***************************************************************************)
EXTENDS Naturals, FiniteSets

CONSTANTS Boxes,         \* outboxes, one per composer that is ever opened
          Keys,          \* request keys uuid() can mint
          Texts,         \* what a person can write
          StorageFails,  \* may a write to the device's storage throw?
          NoKey, NoText

ASSUME AskAssumption ==
  /\ StorageFails \in BOOLEAN
  /\ NoKey \notin Keys
  /\ NoText \notin Texts

\* The kinds of a stored ask; "absent" where storage has no record for a key.
Kinds == {"absent", "queued", "submitting", "unknown", "refused", "accepted"}

\* What can come back for a request: an acceptance or a refusal whose contract
\* and identifiers fit the request, or anything else.
Answers == {"receipt", "decline", "garbled"}

VARIABLES
  entry,      \* entry[k]: the kind of the stored ask with key k
  body,       \* body[k]: its frozen text
  draft,      \* the stored draft
  box,        \* box[b]: "unborn", "open" or "stopped"
  text,       \* text[b]: what the composer of b shows
  drain,      \* drain[b]: the run of b, if one is busy
  leg,        \* leg[b]: the request the run of b awaits
  due,        \* boxes whose page has an "online" event to handle
  online,     \* navigator.onLine
  adrift,     \* keys of which a request is out that no page waits for
  committed   \* keys whose turn the record layer has appended

storage == <<entry, body, draft>>
pages == <<box, text, drain, leg>>
record == <<adrift, committed>>
vars == <<entry, body, draft, box, text, drain, leg, due, online, adrift, committed>>

Drain == [busy : BOOLEAN, only : BOOLEAN, attempted : SUBSET Keys, retries : SUBSET Keys]

NoDrain == [busy |-> FALSE, only |-> FALSE, attempted |-> {}, retries |-> {}]

\* A run that begins: nothing attempted, and the retries asked for so far.
Begin(b, only, more) ==
  [busy |-> TRUE, only |-> only, attempted |-> {}, retries |-> drain[b].retries \cup more]

\* The finally clause of run: not busy, and no retry is remembered.
Ended(d) == NoDrain

AtRest == [stage |-> "idle", key |-> NoKey, answer |-> "none"]
Answered(k, a) == [stage |-> "answered", key |-> k, answer |-> a]
Sending(k) == [stage |-> "verifying", key |-> k, answer |-> "none"]

Init ==
  /\ entry = [k \in Keys |-> "absent"] /\ body = [k \in Keys |-> NoText] /\ draft = NoText
  /\ box = [b \in Boxes |-> "unborn"] /\ text = [b \in Boxes |-> NoText]
  /\ drain = [b \in Boxes |-> NoDrain] /\ leg = [b \in Boxes |-> AtRest]
  /\ due = {} /\ online \in BOOLEAN
  /\ adrift = {} /\ committed = {}

-----------------------------------------------------------------------------
(* The outbox.                                                             *)

\* Mutants: whatever is no refusal is a receipt; the answer is stored as it came.
OutcomeMut(answer) == IF answer = "decline" THEN "refused" ELSE "accepted"
OutcomeRawMut(answer) == answer

\* Only a receipt or a refusal that fits the request settles it.
Outcome(answer) ==
  IF answer = "receipt" THEN "accepted" ELSE IF answer = "decline" THEN "refused" ELSE "unknown"

\* Mutant: the last tab to hear writes.
PutMut(e, k, kind) == [e EXCEPT ![k] = kind]

\* A confirmed acceptance is never overwritten.
Put(e, k, kind) == IF e[k] = "accepted" THEN e ELSE [e EXCEPT ![k] = kind]

\* The asks a drain may send next.
Ready(d, e) ==
  {k \in Keys \ d.attempted :
     /\ e[k] \in {"queued", "unknown"} \/ (e[k] = "refused" /\ k \in d.retries)
     /\ d.only => k \in d.retries \/ e[k] = "queued"}

\* The run of b is over.
End(b, d) ==
  drain' = [drain EXCEPT ![b] = Ended(d)] /\ leg' = [leg EXCEPT ![b] = AtRest]

\* Mutant: an ask is sent although storage did not take it as "submitting".
NotStoredMut(b, d, e) ==
  /\ entry' = e /\ drain' = drain
  /\ \E k \in Ready(d, e) : leg' = [leg EXCEPT ![b] = Sending(k)]

\* Storage throws when the next ask is to be "submitting": the run ends without
\* sending it.
NotStored(b, d, e) == entry' = e /\ End(b, d)

\* The loop of run, from its condition to its next await: it ends, or stores one
\* more ask as "submitting" and starts to send it.
Carry(b, d, e) ==
  \/ /\ ~ online \/ Ready(d, e) = {}
     /\ entry' = e /\ End(b, d)
  \/ /\ online
     /\ \E k \in Ready(d, e) :
          /\ entry' = Put(e, k, "submitting")
          /\ drain' = [drain EXCEPT ![b] = [d EXCEPT !.attempted = @ \cup {k}]]
          /\ leg' = [leg EXCEPT ![b] = Sending(k)]
  \/ /\ online /\ Ready(d, e) # {} /\ StorageFails
     /\ NotStored(b, d, e)

\* flush: a run over every ask, unless the box is busy or offline.
Flush(b, e) ==
  IF online /\ ~ drain[b].busy
    THEN Carry(b, Begin(b, FALSE, {}), e)
    ELSE entry' = e /\ UNCHANGED <<drain, leg>>

\* The stored asks, with those of S that are "submitting" made "unknown".
Uncertain(S) ==
  [k \in Keys |-> IF k \in S /\ entry[k] = "submitting" THEN "unknown" ELSE entry[k]]

\* An opened outbox makes the uncertainty of an interrupted submission explicit,
\* whichever tab submitted it, shows the stored draft, and flushes.
Open(b) ==
  /\ box[b] = "unborn"
  /\ box' = [box EXCEPT ![b] = "open"]
  /\ text' = [text EXCEPT ![b] = draft]
  /\ Flush(b, Uncertain(Keys))
  /\ UNCHANGED <<body, draft, due, online, record>>

\* Storage throws while a box opens: it does not, but some asks were rewritten.
OpenFails(b) ==
  /\ StorageFails /\ box[b] = "unborn"
  /\ \E S \in SUBSET Keys : entry' = Uncertain(S)
  /\ UNCHANGED <<body, draft, pages, due, online, record>>

\* stop, or the page is closed.
Stop(b) ==
  /\ box[b] = "open"
  /\ box' = [box EXCEPT ![b] = "stopped"]
  /\ text' = [text EXCEPT ![b] = NoText]
  /\ UNCHANGED <<storage, drain, leg, due, online, record>>

Fresh == {x \in Texts : /\ x # draft
                        /\ \A k \in Keys : body[k] # x
                        /\ \A b \in Boxes : text[b] # x}

\* A person edits the text; it is new, or empty.  The page shows it even where
\* storage would not take it.
Type(b, x) ==
  /\ box[b] = "open"
  /\ x \in Fresh \cup {NoText}
  /\ text' = [text EXCEPT ![b] = x]
  /\ draft' = x \/ (StorageFails /\ draft' = draft)
  /\ UNCHANGED <<entry, body, box, drain, leg, due, online, record>>

\* Mutant: whatever the composer shows is queued.
StillDraftMut(b) == TRUE

\* Another tab did not send or replace the draft this composer shows.
StillDraft(b) == text[b] = draft

\* Send ask: the text is queued under a fresh key if it is still the stored
\* draft, the draft is cleared, and the box flushes.  If storage throws, nothing
\* has changed.
Enqueue(b, k) ==
  /\ box[b] = "open" /\ text[b] # NoText
  /\ StillDraft(b)
  /\ entry[k] = "absent"
  /\ body' = [body EXCEPT ![k] = text[b]]
  /\ draft' = NoText
  /\ text' = [text EXCEPT ![b] = NoText]
  /\ Flush(b, Put(entry, k, "queued"))
  /\ UNCHANGED <<box, due, online, record>>

\* "Check receipt" and "Try again": a run for this key and what is queued; a
\* busy run is only told of the key.
Retry(b, k) ==
  /\ box[b] = "open" /\ online
  /\ entry[k] \in {"unknown", "refused"}
  /\ IF drain[b].busy
       THEN /\ drain' = [drain EXCEPT ![b].retries = @ \cup {k}]
            /\ UNCHANGED <<entry, leg>>
       ELSE Carry(b, Begin(b, TRUE, {k}), entry)
  /\ UNCHANGED <<body, draft, box, text, due, online, record>>

\* The "online" event reaches the page of an open box.
Reconnect(b) ==
  /\ box[b] = "open" /\ b \in due
  /\ due' = due \ {b}
  /\ Flush(b, entry)
  /\ UNCHANGED <<body, draft, box, text, online, record>>

-----------------------------------------------------------------------------
(* One request: submitDocRequest verifies the session, then sends.         *)

\* The session still holds: the request leaves, whether or not the box was
\* stopped meanwhile.
Dispatch(b) ==
  /\ leg[b].stage = "verifying"
  /\ leg' = [leg EXCEPT ![b].stage = "sent"]
  /\ UNCHANGED <<storage, box, text, drain, due, online, record>>

\* The record layer appends the turn, or finds it appended, and answers.
Accept(b) ==
  /\ leg[b].stage = "sent"
  /\ committed' = committed \cup {leg[b].key}
  /\ \E a \in Answers \ {"decline"} :
       leg' = [leg EXCEPT ![b] = Answered(leg[b].key, a)]
  /\ UNCHANGED <<storage, box, text, drain, due, online, adrift>>

\* The record layer turns down a request it has not accepted before, or fails.
Refuse(b) ==
  /\ leg[b].stage = "sent" /\ leg[b].key \notin committed
  /\ \E a \in Answers \ {"receipt"} :
       leg' = [leg EXCEPT ![b] = Answered(leg[b].key, a)]
  /\ UNCHANGED <<storage, box, text, drain, due, online, record>>

\* A request that no page waits for any more is accepted after all.
AcceptLate(k) ==
  /\ k \in adrift \ committed
  /\ committed' = committed \cup {k}
  /\ UNCHANGED <<storage, pages, due, online, adrift>>

\* What a run does with the outcome of a request: store it and carry on.  If
\* storage throws, the run ends with the ask as it was.
Settled(b, kind) ==
  \/ Carry(b, drain[b], Put(entry, leg[b].key, kind))
  \/ /\ StorageFails
     /\ End(b, drain[b]) /\ UNCHANGED entry

\* The answer is heard.
Settle(b) ==
  /\ box[b] = "open" /\ leg[b].stage = "answered"
  /\ Settled(b, Outcome(leg[b].answer))
  /\ UNCHANGED <<body, draft, box, text, due, online, record>>

\* Mutant: only the session read has a deadline.
OverdueMut(b) == leg[b].stage = "verifying"

Overdue(b) == leg[b].stage # "idle"

\* Mutant: the run ends with the error instead of storing it.
GiveUpMut(b) ==
  /\ box[b] = "open" /\ Overdue(b)
  /\ End(b, drain[b])
  /\ UNCHANGED <<storage, box, text, due, online, record>>

\* It is not: the session did not verify, the wire failed or ten seconds passed.
GiveUp(b) ==
  /\ box[b] = "open" /\ Overdue(b)
  /\ Settled(b, "unknown")
  /\ adrift' = IF leg[b].stage = "sent" THEN adrift \cup {leg[b].key} ELSE adrift
  /\ UNCHANGED <<body, draft, box, text, due, online, committed>>

-----------------------------------------------------------------------------
GoOffline ==
  /\ online /\ online' = FALSE
  /\ UNCHANGED <<storage, pages, due, record>>

\* The pages of the boxes that are open are told.
GoOnline ==
  /\ ~ online /\ online' = TRUE
  /\ due' = due \cup {b \in Boxes : box[b] = "open"}
  /\ UNCHANGED <<storage, pages, record>>

Person(b) ==
  \/ Open(b) \/ OpenFails(b) \/ Stop(b)
  \/ \E x \in Texts \cup {NoText} : Type(b, x)
  \/ \E k \in Keys : Enqueue(b, k) \/ Retry(b, k)

Wire(b) == Dispatch(b) \/ Accept(b) \/ Refuse(b)

Next ==
  \/ \E b \in Boxes : Person(b) \/ Reconnect(b) \/ Wire(b) \/ Settle(b) \/ GiveUp(b)
  \/ \E k \in Keys : AcceptLate(k)
  \/ GoOffline \/ GoOnline

\* The two reads of submitDocRequest are cut off after ten seconds each, and a
\* page handles its events.
Fairness ==
  \A b \in Boxes : WF_vars(Settle(b) \/ GiveUp(b)) /\ WF_vars(Reconnect(b))

Spec == Init /\ [][Next]_vars /\ Fairness

-----------------------------------------------------------------------------
TypeOK ==
  /\ entry \in [Keys -> Kinds]
  /\ body \in [Keys -> Texts \cup {NoText}]
  /\ draft \in Texts \cup {NoText}
  /\ box \in [Boxes -> {"unborn", "open", "stopped"}]
  /\ text \in [Boxes -> Texts \cup {NoText}]
  /\ drain \in [Boxes -> Drain]
  /\ leg \in [Boxes -> [stage : {"idle", "verifying", "sent", "answered"},
                        key : Keys \cup {NoKey}, answer : Answers \cup {"none"}]]
  /\ \A b \in Boxes : leg[b].stage = "idle" <=> leg[b].key = NoKey
  /\ due \subseteq Boxes /\ online \in BOOLEAN
  /\ adrift \subseteq Keys /\ committed \subseteq Keys

\* An ask that a person was told is received is received: no answer to another
\* tab's copy, no failure and no malformed receipt makes it look so.
AcceptedIsTrue ==
  \A k \in Keys : entry[k] = "accepted" => k \in committed

\* Received is the last word: no late outcome of another tab's copy, no retry and
\* no reopening takes it back.
AcceptedForGood ==
  [][\A k \in Keys : entry[k] = "accepted" => entry'[k] = "accepted"]_vars

HasLeft(k) ==
  \/ \E b \in Boxes : leg[b].key = k
  \/ k \in adrift \cup committed

\* An ask that may have left the device is stored, and not as one that waits for
\* a connection, whatever storage refuses and whichever tab sent it.
SentIsStored ==
  \A k \in Keys : HasLeft(k) => entry[k] \notin {"absent", "queued"}

\* What was written once is asked once: two tabs that show the same draft cannot
\* both send it.
AskedOnce ==
  \A j, k \in Keys : body[j] = body[k] /\ body[k] # NoText => j = k

\* "Sending your ask" is said of an ask that some box is sending; the only box
\* that may have stopped on the way is the one that sent it.
SendingIsReal ==
  \A k \in Keys : entry[k] = "submitting" => \E b \in Boxes : leg[b].key = k

\* No queued ask is forgotten while a tab is open and online: a drain is busy that
\* will take it, or a page is about to hear that it is online.
QueuedHasSender ==
  (online /\ \E b \in Boxes : box[b] = "open") =>
    \A k \in Keys : entry[k] = "queued" =>
      \E b \in Boxes : b \in due \/ (drain[b].busy /\ k \notin drain[b].attempted)

\* "Saved asks send when you reconnect": a queued ask is sent as long as the page
\* stays open and online.
SavedAsksSend ==
  \A k \in Keys :
    (entry[k] = "queued" /\ online /\ \E b \in Boxes : box[b] = "open")
      ~> (entry[k] # "queued" \/ ~ online \/ \E b \in Boxes : box[b] = "stopped")

\* A reconnect never sends an ask that was declined or received: a click on "Try
\* again" counts for the drain it was made in and no later one.
NeverUnasked ==
  [][\A b \in Boxes : Reconnect(b) =>
       \A k \in Keys : entry[k] \in {"refused", "accepted"} => entry'[k] = entry[k]]_vars

Tries(b, k) == leg[b].key = k \/ (drain[b].busy /\ k \in Ready(drain[b], entry))

\* A reconnect retries every ask that is queued or whose receipt is not confirmed.
ReconnectRetries ==
  [][\A b \in Boxes : Reconnect(b) /\ online =>
       \A k \in Keys : entry[k] \in {"queued", "unknown"} => Tries(b, k)']_vars

\* What AskOnce calls the stage of an ask.
StageOf(k) ==
  CASE entry[k] = "absent" -> "unsaid"
    [] entry[k] = "queued" -> "kept"
    [] entry[k] = "accepted" -> "told"
    [] OTHER -> IF k \in committed THEN "taken" ELSE "out"

\* The outbox implements the promise of AskOnce: storage is what a person sees of
\* an ask, and the record layer's turn is what Dr. CRE has of it.
Promise == INSTANCE AskOnce WITH
  Asks <- Keys, stage <- [k \in Keys |-> StageOf(k)], text <- body

\* What was written is asked once, kept before it leaves, and received for good.
KeepsPromise == Promise!Spec
================================================================================
