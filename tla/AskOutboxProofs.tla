---------------------------- MODULE AskOutboxProofs ----------------------------
(***************************************************************************)
(* Proofs about AskOutbox, for any number of tabs, asks and texts.         *)
(***************************************************************************)
EXTENDS AskOutbox, TLAPS

USE AskAssumption

-----------------------------------------------------------------------------
(* The run of a box.                                                       *)

EntryType == entry \in [Keys -> Kinds]
RunType ==
  /\ drain \in [Boxes -> Drain]
  /\ leg \in [Boxes -> [stage : {"idle", "verifying", "sent", "answered"},
                        key : Keys \cup {NoKey}, answer : Answers \cup {"none"}]]
  /\ \A b \in Boxes : leg[b].stage = "idle" <=> leg[b].key = NoKey

\* What Carry does, as a relation between the two states: the run of b ends, with
\* nothing left to send unless storage threw, or it sends one more ask.
Ends(b, d, e) ==
  /\ entry' = e /\ drain'[b] = NoDrain /\ leg'[b] = AtRest
  /\ online /\ ~ StorageFails => Ready(d, e) = {}
SendsOne(b, d, e) ==
  \E k \in Ready(d, e) :
    /\ entry' = [e EXCEPT ![k] = "submitting"]
    /\ drain'[b] = [d EXCEPT !.attempted = @ \cup {k}]
    /\ leg'[b] = Sending(k)
OthersAsTheyWere(b) ==
  \A c \in Boxes \ {b} : drain'[c] = drain[c] /\ leg'[c] = leg[c]

LEMMA CarrySteps ==
  ASSUME RunType, NEW b \in Boxes, NEW d \in Drain, NEW e \in [Keys -> Kinds],
         Carry(b, d, e)
  PROVE  /\ EntryType' /\ RunType'
         /\ Ends(b, d, e) \/ SendsOne(b, d, e)
         /\ OthersAsTheyWere(b)
<1> USE DEF RunType, EntryType, Drain, Kinds, Answers
<1>1. NoDrain \in Drain /\ AtRest.stage = "idle" /\ AtRest.key = NoKey
  BY DEF NoDrain, AtRest
<1>2. ASSUME entry' = e, End(b, d), online /\ ~ StorageFails => Ready(d, e) = {}
      PROVE  EntryType' /\ RunType' /\ Ends(b, d, e) /\ OthersAsTheyWere(b)
  BY <1>1, <1>2 DEF End, Ended, NoDrain, AtRest, Ends, OthersAsTheyWere
<1>3. ASSUME NEW k \in Ready(d, e),
             entry' = Put(e, k, "submitting"),
             drain' = [drain EXCEPT ![b] = [d EXCEPT !.attempted = @ \cup {k}]],
             leg' = [leg EXCEPT ![b] = Sending(k)]
      PROVE  EntryType' /\ RunType' /\ SendsOne(b, d, e) /\ OthersAsTheyWere(b)
  <2>1. k \in Keys /\ e[k] # "accepted"
    BY DEF Ready
  <2>2. entry' = [e EXCEPT ![k] = "submitting"]
    BY <1>3, <2>1 DEF Put
  <2>3. [d EXCEPT !.attempted = @ \cup {k}] \in Drain
    BY <2>1
  <2>4. SendsOne(b, d, e)
    BY <1>3, <2>2, ZenonT(30) DEF SendsOne
  <2>5. EntryType'
    BY <2>1, <2>2
  <2>6. OthersAsTheyWere(b)
    BY <1>3 DEF OthersAsTheyWere
  <2>7. RunType'
    BY <1>3, <2>1, <2>3 DEF Sending
  <2> QED BY <2>4, <2>5, <2>6, <2>7
<1>4. CASE (~ online \/ Ready(d, e) = {}) /\ entry' = e /\ End(b, d)
  BY <1>2, <1>4
<1>5. CASE online /\ \E k \in Ready(d, e) :
          /\ entry' = Put(e, k, "submitting")
          /\ drain' = [drain EXCEPT ![b] = [d EXCEPT !.attempted = @ \cup {k}]]
          /\ leg' = [leg EXCEPT ![b] = Sending(k)]
  BY <1>3, <1>5
<1>6. CASE online /\ Ready(d, e) # {} /\ StorageFails /\ NotStored(b, d, e)
  BY <1>2, <1>6 DEF NotStored
<1> QED BY <1>4, <1>5, <1>6 DEF Carry

LEMMA FlushSteps ==
  ASSUME RunType, NEW b \in Boxes, NEW e \in [Keys -> Kinds], Flush(b, e)
  PROVE  /\ EntryType' /\ RunType'
         /\ \/ /\ ~ online \/ drain[b].busy
               /\ entry' = e /\ UNCHANGED <<drain, leg>>
            \/ /\ online /\ ~ drain[b].busy
               /\ Ends(b, Begin(b, FALSE, {}), e) \/ SendsOne(b, Begin(b, FALSE, {}), e)
         /\ OthersAsTheyWere(b)
<1>1. CASE online /\ ~ drain[b].busy
  <2>1. Carry(b, Begin(b, FALSE, {}), e)
    BY <1>1 DEF Flush
  <2>2. Begin(b, FALSE, {}) \in Drain
    BY DEF Begin, Drain, RunType
  <2> QED BY <1>1, <2>1, <2>2, CarrySteps
<1>2. CASE ~ (online /\ ~ drain[b].busy)
  BY <1>2 DEF Flush, EntryType, RunType, OthersAsTheyWere
<1> QED BY <1>1, <1>2

\* What Settle and GiveUp do to the outbox.
LEMMA SettledSteps ==
  ASSUME RunType, EntryType, NEW b \in Boxes,
         NEW kind \in {"unknown", "refused", "accepted"},
         leg[b].stage # "idle", Settled(b, kind)
  PROVE  /\ leg[b].key \in Keys
         /\ EntryType' /\ RunType'
         /\ LET e == Put(entry, leg[b].key, kind)
            IN  \/ Ends(b, drain[b], e) \/ SendsOne(b, drain[b], e)
                \/ /\ StorageFails /\ entry' = entry
                   /\ drain'[b] = NoDrain /\ leg'[b] = AtRest
         /\ OthersAsTheyWere(b)
<1> DEFINE e == Put(entry, leg[b].key, kind)
<1>1. leg[b].key \in Keys /\ drain[b] \in Drain
  BY DEF RunType
<1>2. e \in [Keys -> Kinds]
  BY DEF Put, EntryType, Kinds
<1>3. CASE Carry(b, drain[b], e)
  <2> HIDE DEF e
  <2>1. /\ EntryType' /\ RunType' /\ OthersAsTheyWere(b)
        /\ Ends(b, drain[b], e) \/ SendsOne(b, drain[b], e)
    BY <1>1, <1>2, <1>3, CarrySteps
  <2> QED BY <1>1, <2>1 DEF e
<1>4. CASE StorageFails /\ End(b, drain[b]) /\ UNCHANGED entry
  <2>1. NoDrain \in Drain /\ AtRest.stage = "idle" /\ AtRest.key = NoKey
    BY DEF NoDrain, AtRest, Drain
  <2>2. RunType'
    BY <1>4, <2>1 DEF End, Ended, RunType, NoDrain, AtRest
  <2>3. drain'[b] = NoDrain /\ leg'[b] = AtRest /\ OthersAsTheyWere(b)
    BY <1>4 DEF End, Ended, RunType, OthersAsTheyWere
  <2>4. EntryType'
    BY <1>4 DEF EntryType
  <2> QED BY <1>1, <1>4, <2>2, <2>3, <2>4
<1> QED BY <1>3, <1>4 DEF Settled

LEMMA OutcomeKinds ==
  ASSUME NEW a
  PROVE  Outcome(a) \in {"unknown", "refused", "accepted"}
  BY DEF Outcome

-----------------------------------------------------------------------------
(* Types.                                                                  *)

RestType ==
  /\ body \in [Keys -> Texts \cup {NoText}]
  /\ draft \in Texts \cup {NoText}
  /\ box \in [Boxes -> {"unborn", "open", "stopped"}]
  /\ text \in [Boxes -> Texts \cup {NoText}]
  /\ due \subseteq Boxes /\ online \in BOOLEAN
  /\ adrift \subseteq Keys /\ committed \subseteq Keys

LEMMA TypeParts == TypeOK <=> EntryType /\ RunType /\ RestType
  BY DEF TypeOK, EntryType, RunType, RestType

LEMMA UncertainType ==
  ASSUME EntryType, NEW S PROVE Uncertain(S) \in [Keys -> Kinds]
  BY DEF Uncertain, EntryType, Kinds

LEMMA QueuedType ==
  ASSUME EntryType, NEW k \in Keys PROVE Put(entry, k, "queued") \in [Keys -> Kinds]
  BY DEF Put, EntryType, Kinds

LEMMA TypeNext == TypeOK /\ [Next]_vars => TypeOK'
<1> SUFFICES ASSUME EntryType, RunType, RestType, [Next]_vars
             PROVE  EntryType' /\ RunType' /\ RestType'
  BY TypeParts, PTL
<1>1. ASSUME NEW b \in Boxes, Open(b) PROVE EntryType' /\ RunType' /\ RestType'
  <2>1. Flush(b, Uncertain(Keys))
    BY <1>1 DEF Open
  <2>2. EntryType' /\ RunType'
    BY <2>1, UncertainType, FlushSteps
  <2> QED BY <1>1, <2>2 DEF Open, RestType, record
<1>2. ASSUME NEW b \in Boxes, OpenFails(b) PROVE EntryType' /\ RunType' /\ RestType'
  <2>1. EntryType'
    BY <1>2, UncertainType DEF OpenFails, EntryType
  <2> QED BY <1>2, <2>1 DEF OpenFails, RestType, RunType, pages, record
<1>3. ASSUME NEW b \in Boxes, Stop(b) PROVE EntryType' /\ RunType' /\ RestType'
  BY <1>3 DEF Stop, storage, record, EntryType, RunType, RestType
<1>4. ASSUME NEW b \in Boxes, NEW x \in Texts \cup {NoText}, Type(b, x)
      PROVE  EntryType' /\ RunType' /\ RestType'
  BY <1>4 DEF Type, record, EntryType, RunType, RestType
<1>5. ASSUME NEW b \in Boxes, NEW k \in Keys, Enqueue(b, k)
      PROVE  EntryType' /\ RunType' /\ RestType'
  <2>1. Flush(b, Put(entry, k, "queued"))
    BY <1>5 DEF Enqueue
  <2>2. EntryType' /\ RunType'
    BY <2>1, QueuedType, FlushSteps
  <2> QED BY <1>5, <2>2 DEF Enqueue, RestType, record
<1>6. ASSUME NEW b \in Boxes, NEW k \in Keys, Retry(b, k)
      PROVE  EntryType' /\ RunType' /\ RestType'
  <2>1. CASE drain[b].busy
    BY <1>6, <2>1 DEF Retry, EntryType, RunType, RestType, Drain, record
  <2>2. CASE ~ drain[b].busy
    <3>1. Begin(b, TRUE, {k}) \in Drain
      BY DEF Begin, Drain, RunType
    <3>2. Carry(b, Begin(b, TRUE, {k}), entry)
      BY <1>6, <2>2 DEF Retry
    <3>3. EntryType' /\ RunType'
      BY <3>1, <3>2, CarrySteps DEF EntryType
    <3> QED BY <1>6, <3>3 DEF Retry, RestType, record
  <2> QED BY <2>1, <2>2
<1>7. ASSUME NEW b \in Boxes, Reconnect(b) PROVE EntryType' /\ RunType' /\ RestType'
  <2>1. EntryType' /\ RunType'
    BY <1>7, FlushSteps DEF Reconnect, EntryType
  <2> QED BY <1>7, <2>1 DEF Reconnect, RestType, record
<1>8. ASSUME NEW b \in Boxes, Wire(b) PROVE EntryType' /\ RunType' /\ RestType'
  <2>1. CASE Dispatch(b)
    BY <2>1 DEF Dispatch, storage, record, EntryType, RunType, RestType
  <2>2. CASE Accept(b)
    <3>1. PICK a \in Answers :
            leg' = [leg EXCEPT ![b] = Answered(leg[b].key, a)]
      BY <2>2 DEF Accept
    <3>2. drain' = drain /\ leg[b].stage = "sent"
      BY <2>2 DEF Accept
    <3>3. RunType'
      BY <3>1, <3>2 DEF RunType, Answered
    <3> QED BY <2>2, <3>3 DEF Accept, storage, EntryType, RunType, RestType
  <2>3. CASE Refuse(b)
    <3>1. PICK a \in Answers :
            leg' = [leg EXCEPT ![b] = Answered(leg[b].key, a)]
      BY <2>3 DEF Refuse
    <3>2. drain' = drain /\ leg[b].stage = "sent"
      BY <2>3 DEF Refuse
    <3>3. RunType'
      BY <3>1, <3>2 DEF RunType, Answered
    <3> QED BY <2>3, <3>3 DEF Refuse, storage, record, EntryType, RestType
  <2> QED BY <1>8, <2>1, <2>2, <2>3 DEF Wire
<1>9. ASSUME NEW b \in Boxes, Settle(b) PROVE EntryType' /\ RunType' /\ RestType'
  <2>1. EntryType' /\ RunType'
    BY <1>9, OutcomeKinds, SettledSteps DEF Settle
  <2> QED BY <1>9, <2>1 DEF Settle, RestType, record
<1>10. ASSUME NEW b \in Boxes, GiveUp(b) PROVE EntryType' /\ RunType' /\ RestType'
  <2>1. EntryType' /\ RunType' /\ leg[b].key \in Keys
    BY <1>10, SettledSteps DEF GiveUp, Overdue
  <2> QED BY <1>10, <2>1 DEF GiveUp, RestType
<1>11. ASSUME NEW k \in Keys, AcceptLate(k) PROVE EntryType' /\ RunType' /\ RestType'
  BY <1>11 DEF AcceptLate, storage, pages, EntryType, RunType, RestType
<1>12. CASE GoOffline \/ GoOnline
  BY <1>12 DEF GoOffline, GoOnline, storage, pages, record, EntryType, RunType, RestType
<1>13. CASE UNCHANGED vars
  BY <1>13 DEF vars, EntryType, RunType, RestType
<1> QED BY <1>1, <1>2, <1>3, <1>4, <1>5, <1>6, <1>7, <1>8, <1>9, <1>10, <1>11, <1>12, <1>13
        DEF Next, Person

LEMMA TypeInit == Init => TypeOK
  BY DEF Init, TypeOK, Kinds, Drain, NoDrain, AtRest, Answers

\* Every behaviour keeps the types, for any tabs, asks and texts, whether or not
\* storage throws.
THEOREM TypeCorrect == Spec => []TypeOK
<1>1. Init => TypeOK
  BY TypeInit
<1>2. TypeOK /\ [Next]_vars => TypeOK'
  BY TypeNext
<1> QED BY <1>1, <1>2, PTL DEF Spec

-----------------------------------------------------------------------------
(* What the actions do to the run of their box, all in one form.           *)

\* A box that is not busy has nothing under way, and one that was never opened is
\* not busy.
Legs ==
  \A b \in Boxes :
    /\ leg[b].stage = "idle" <=> ~ drain[b].busy
    /\ ~ drain[b].busy => drain[b] = NoDrain /\ leg[b] = AtRest
    /\ box[b] = "unborn" => ~ drain[b].busy

\* The entries are e, but for what the run of b then does: it goes on waiting, it
\* reaches the head of its loop, or storage throws.
RunWaits(b, e) ==
  /\ entry' = e /\ leg'[b] = leg[b]
  /\ drain'[b].busy = drain[b].busy /\ drain'[b].attempted = drain[b].attempted
  /\ ~ drain[b].busy => drain'[b] = drain[b]
RunMoves(b, e) ==
  \E d \in Drain : /\ d.busy /\ d.attempted \subseteq drain[b].attempted
                   /\ Ends(b, d, e) \/ SendsOne(b, d, e)
RunFails(b, e) ==
  StorageFails /\ entry' = e /\ drain'[b] = NoDrain /\ leg'[b] = AtRest
Flow(b, e) ==
  /\ EntryType' /\ RunType' /\ OthersAsTheyWere(b)
  /\ RunWaits(b, e) \/ RunMoves(b, e) \/ RunFails(b, e)

\* What no rewriting of the entries does: make an ask look as if it never left the
\* device, or take an acceptance back.
Rewrites(e) ==
  /\ e \in [Keys -> Kinds]
  /\ \A k \in Keys :
       /\ e[k] \in {"absent", "queued"} => entry[k] \in {"absent", "queued"}
       /\ entry[k] = "accepted" => e[k] = "accepted"

\* The entries as the answer to the request of b leaves them.
Heard(b, kind) == Put(entry, leg[b].key, kind)

LEMMA FlushFlows ==
  ASSUME RunType, NEW b \in Boxes, NEW e \in [Keys -> Kinds], Flush(b, e)
  PROVE  /\ Flow(b, e)
         /\ (online /\ ~ drain[b].busy) => RunMoves(b, e)
         /\ drain[b].busy => RunWaits(b, e)
<1>1. /\ EntryType' /\ RunType' /\ OthersAsTheyWere(b)
      /\ \/ /\ ~ online \/ drain[b].busy
            /\ entry' = e /\ UNCHANGED <<drain, leg>>
         \/ /\ online /\ ~ drain[b].busy
            /\ Ends(b, Begin(b, FALSE, {}), e) \/ SendsOne(b, Begin(b, FALSE, {}), e)
  BY FlushSteps
<1>2. /\ Begin(b, FALSE, {}) \in Drain /\ Begin(b, FALSE, {}).busy
      /\ Begin(b, FALSE, {}).attempted = {}
  BY DEF Begin, Drain, RunType
<1>3. CASE (~ online \/ drain[b].busy) /\ entry' = e /\ UNCHANGED <<drain, leg>>
  <2>1. RunWaits(b, e)
    BY <1>3 DEF RunWaits
  <2> QED BY <1>1, <1>3, <2>1 DEF Flow
<1>4. CASE /\ online /\ ~ drain[b].busy
           /\ Ends(b, Begin(b, FALSE, {}), e) \/ SendsOne(b, Begin(b, FALSE, {}), e)
  <2>1. RunMoves(b, e)
    BY <1>2, <1>4 DEF RunMoves
  <2> QED BY <1>1, <1>4, <2>1 DEF Flow
<1> QED BY <1>1, <1>3, <1>4

LEMMA SettledFlows ==
  ASSUME RunType, EntryType, Legs, NEW b \in Boxes,
         NEW kind \in {"unknown", "refused", "accepted"},
         leg[b].stage # "idle", Settled(b, kind)
  PROVE  /\ leg[b].key \in Keys /\ Rewrites(Heard(b, kind)) /\ Rewrites(entry)
         /\ Flow(b, Heard(b, kind)) \/ (StorageFails /\ Flow(b, entry))
<1>1. /\ leg[b].key \in Keys
      /\ EntryType' /\ RunType' /\ OthersAsTheyWere(b)
      /\ LET e == Put(entry, leg[b].key, kind)
         IN  \/ Ends(b, drain[b], e) \/ SendsOne(b, drain[b], e)
             \/ /\ StorageFails /\ entry' = entry
                /\ drain'[b] = NoDrain /\ leg'[b] = AtRest
  BY SettledSteps
<1>2. Rewrites(Heard(b, kind)) /\ Rewrites(entry)
  BY <1>1 DEF Rewrites, Heard, Put, EntryType, Kinds
<1>3. drain[b] \in Drain /\ drain[b].busy
  BY DEF RunType, Legs
<1>4. CASE Ends(b, drain[b], Heard(b, kind)) \/ SendsOne(b, drain[b], Heard(b, kind))
  <2>1. RunMoves(b, Heard(b, kind))
    BY <1>3, <1>4 DEF RunMoves
  <2> QED BY <1>1, <1>2, <2>1 DEF Flow
<1>5. CASE /\ StorageFails /\ entry' = entry
           /\ drain'[b] = NoDrain /\ leg'[b] = AtRest
  BY <1>1, <1>2, <1>5 DEF Flow, RunFails
<1> QED BY <1>1, <1>4, <1>5 DEF Heard

LEMMA OpenFlows ==
  ASSUME RunType, EntryType, NEW b \in Boxes, Open(b)
  PROVE  /\ Rewrites(Uncertain(Keys)) /\ Flow(b, Uncertain(Keys))
         /\ (online /\ ~ drain[b].busy) => RunMoves(b, Uncertain(Keys))
<1>1. Flush(b, Uncertain(Keys)) /\ Uncertain(Keys) \in [Keys -> Kinds]
  BY UncertainType DEF Open
<1>2. Rewrites(Uncertain(Keys))
  BY <1>1 DEF Rewrites, Uncertain
<1> QED BY <1>1, <1>2, FlushFlows

LEMMA EnqueueFlows ==
  ASSUME RunType, EntryType, NEW b \in Boxes, NEW k \in Keys, Enqueue(b, k)
  PROVE  /\ Rewrites(Put(entry, k, "queued")) /\ Flow(b, Put(entry, k, "queued"))
         /\ (online /\ ~ drain[b].busy) => RunMoves(b, Put(entry, k, "queued"))
         /\ drain[b].busy => RunWaits(b, Put(entry, k, "queued"))
<1>1. Flush(b, Put(entry, k, "queued")) /\ Put(entry, k, "queued") \in [Keys -> Kinds]
  BY QueuedType DEF Enqueue
<1>2. entry[k] = "absent"
  BY DEF Enqueue
<1>3. Rewrites(Put(entry, k, "queued"))
  BY <1>1, <1>2 DEF Rewrites, Put, EntryType
<1> QED BY <1>1, <1>3, FlushFlows

LEMMA ReconnectFlows ==
  ASSUME RunType, EntryType, NEW b \in Boxes, Reconnect(b)
  PROVE  /\ Rewrites(entry) /\ Flow(b, entry)
         /\ (online /\ ~ drain[b].busy) => RunMoves(b, entry)
         /\ drain[b].busy => RunWaits(b, entry)
<1>1. Flush(b, entry) /\ entry \in [Keys -> Kinds]
  BY DEF Reconnect, EntryType
<1>2. Rewrites(entry)
  BY DEF Rewrites, EntryType
<1> QED BY <1>1, <1>2, FlushFlows

LEMMA RetryFlows ==
  ASSUME RunType, EntryType, NEW b \in Boxes, NEW k \in Keys, Retry(b, k)
  PROVE  /\ Rewrites(entry) /\ Flow(b, entry)
         /\ ~ drain[b].busy => RunMoves(b, entry)
         /\ drain[b].busy => RunWaits(b, entry)
<1>1. Rewrites(entry)
  BY DEF Rewrites, EntryType
<1>2. CASE drain[b].busy
  <2>1. /\ drain' = [drain EXCEPT ![b].retries = @ \cup {k}]
        /\ entry' = entry /\ leg' = leg
    BY <1>2 DEF Retry
  <2>2. EntryType' /\ RunType'
    BY <2>1 DEF RunType, EntryType, Drain
  <2>3. /\ \A c \in Boxes : c # b => drain'[c] = drain[c]
        /\ drain'[b] = [drain[b] EXCEPT !.retries = @ \cup {k}]
    BY <2>1 DEF RunType
  <2>4. OthersAsTheyWere(b)
    BY <2>1, <2>3 DEF OthersAsTheyWere
  <2>5. /\ drain'[b].busy = drain[b].busy /\ drain'[b].attempted = drain[b].attempted
    BY <2>3 DEF RunType, Drain
  <2>6. RunWaits(b, entry)
    BY <1>2, <2>1, <2>5 DEF RunWaits
  <2> QED BY <1>1, <1>2, <2>2, <2>4, <2>6 DEF Flow
<1>3. CASE ~ drain[b].busy
  <2>1. /\ Begin(b, TRUE, {k}) \in Drain /\ Begin(b, TRUE, {k}).busy
        /\ Begin(b, TRUE, {k}).attempted = {}
    BY DEF Begin, Drain, RunType
  <2>2. Carry(b, Begin(b, TRUE, {k}), entry)
    BY <1>3 DEF Retry
  <2>3. /\ EntryType' /\ RunType' /\ OthersAsTheyWere(b)
        /\ Ends(b, Begin(b, TRUE, {k}), entry) \/ SendsOne(b, Begin(b, TRUE, {k}), entry)
    BY <2>1, <2>2, CarrySteps DEF EntryType
  <2>4. RunMoves(b, entry)
    BY <2>1, <2>3 DEF RunMoves
  <2> QED BY <1>1, <1>3, <2>3, <2>4 DEF Flow
<1> QED BY <1>2, <1>3

-----------------------------------------------------------------------------
(* A box that is busy awaits one request.                                  *)

LEMMA FlowLegs ==
  ASSUME RunType, Legs, NEW b \in Boxes, NEW e, Flow(b, e),
         box' = box \/ (box' = [box EXCEPT ![b] = "open"] /\ box[b] \in {"unborn", "open"}),
         box \in [Boxes -> {"unborn", "open", "stopped"}],
         box'[b] # "unborn"
  PROVE  Legs'
<1>1. /\ ~ NoDrain.busy /\ AtRest.stage = "idle"
      /\ \A k : Sending(k).stage # "idle"
  BY DEF NoDrain, AtRest, Sending
<1>2. ASSUME NEW c \in Boxes \ {b}
      PROVE  /\ leg'[c].stage = "idle" <=> ~ drain'[c].busy
             /\ ~ drain'[c].busy => drain'[c] = NoDrain /\ leg'[c] = AtRest
             /\ box'[c] = "unborn" => ~ drain'[c].busy
  BY DEF Flow, OthersAsTheyWere, Legs
<1>3. /\ leg'[b].stage = "idle" <=> ~ drain'[b].busy
      /\ ~ drain'[b].busy => drain'[b] = NoDrain /\ leg'[b] = AtRest
  <2>1. CASE RunWaits(b, e)
    BY <2>1 DEF RunWaits, Legs
  <2>2. CASE RunFails(b, e)
    BY <1>1, <2>2 DEF RunFails
  <2>3. CASE RunMoves(b, e)
    <3>1. PICK d \in Drain : /\ d.busy /\ d.attempted \subseteq drain[b].attempted
                             /\ Ends(b, d, e) \/ SendsOne(b, d, e)
      BY <2>3 DEF RunMoves
    <3>2. CASE Ends(b, d, e)
      BY <1>1, <3>2 DEF Ends
    <3>3. CASE SendsOne(b, d, e)
      BY <1>1, <3>1, <3>3 DEF SendsOne, Drain
    <3> QED BY <3>1, <3>2, <3>3
  <2> QED BY <2>1, <2>2, <2>3 DEF Flow
<1> QED BY <1>2, <1>3 DEF Legs

LEMMA LegsNext == TypeOK /\ Legs /\ [Next]_vars => Legs'
<1> SUFFICES ASSUME EntryType, RunType, RestType, Legs, [Next]_vars
             PROVE  Legs'
  BY TypeParts
<1>1. ASSUME NEW b \in Boxes, Open(b) PROVE Legs'
  BY <1>1, OpenFlows, FlowLegs DEF Open, RestType
<1>2. ASSUME NEW b \in Boxes, OpenFails(b) PROVE Legs'
  BY <1>2 DEF OpenFails, pages, Legs
<1>3. ASSUME NEW b \in Boxes, Stop(b) PROVE Legs'
  BY <1>3 DEF Stop, Legs, RestType
<1>4. ASSUME NEW b \in Boxes, NEW x \in Texts \cup {NoText}, Type(b, x) PROVE Legs'
  BY <1>4 DEF Type, Legs
<1>5. ASSUME NEW b \in Boxes, NEW k \in Keys, Enqueue(b, k) PROVE Legs'
  BY <1>5, EnqueueFlows, FlowLegs DEF Enqueue, RestType
<1>6. ASSUME NEW b \in Boxes, NEW k \in Keys, Retry(b, k) PROVE Legs'
  BY <1>6, RetryFlows, FlowLegs DEF Retry, RestType
<1>7. ASSUME NEW b \in Boxes, Reconnect(b) PROVE Legs'
  BY <1>7, ReconnectFlows, FlowLegs DEF Reconnect, RestType
<1>8. ASSUME NEW b \in Boxes, Wire(b) PROVE Legs'
  <2>1. /\ drain' = drain /\ box' = box /\ leg[b].stage # "idle" /\ leg'[b].stage # "idle"
        /\ \A c \in Boxes \ {b} : leg'[c] = leg[c]
    BY <1>8 DEF Wire, Dispatch, Accept, Refuse, Answered, RunType
  <2> QED BY <2>1 DEF Legs, AtRest
<1>9. ASSUME NEW b \in Boxes, Settle(b) PROVE Legs'
  <2>1. PICK e : Flow(b, e)
    BY <1>9, OutcomeKinds, SettledFlows DEF Settle
  <2> QED BY <1>9, <2>1, FlowLegs DEF Settle, RestType
<1>10. ASSUME NEW b \in Boxes, GiveUp(b) PROVE Legs'
  <2>1. PICK e : Flow(b, e)
    BY <1>10, SettledFlows DEF GiveUp, Overdue
  <2> QED BY <1>10, <2>1, FlowLegs DEF GiveUp, RestType
<1>11. ASSUME NEW k \in Keys, AcceptLate(k) PROVE Legs'
  BY <1>11 DEF AcceptLate, pages, Legs
<1>12. CASE GoOffline \/ GoOnline
  BY <1>12 DEF GoOffline, GoOnline, pages, Legs
<1>13. CASE UNCHANGED vars
  BY <1>13 DEF vars, Legs
<1> QED BY <1>1, <1>2, <1>3, <1>4, <1>5, <1>6, <1>7, <1>8, <1>9, <1>10, <1>11, <1>12, <1>13
        DEF Next, Person

-----------------------------------------------------------------------------
(* What may have left the device is stored as such.                        *)

\* Of an ask that a run of b attempted, or that may have left the device, storage
\* knows it.
Attempted(k) == \E b \in Boxes : k \in drain[b].attempted
Stored ==
  \A k \in Keys : HasLeft(k) \/ Attempted(k) => entry[k] \notin {"absent", "queued"}

LEMMA FlowStored ==
  ASSUME RunType, Stored, NEW b \in Boxes, NEW e, Flow(b, e), Rewrites(e),
         \A k \in adrift' \cup committed' : k \in Keys => HasLeft(k)
  PROVE  Stored'
<1> SUFFICES ASSUME NEW k \in Keys, HasLeft(k)' \/ Attempted(k)'
             PROVE  entry'[k] \notin {"absent", "queued"}
  BY DEF Stored
<1>1. NoDrain.attempted = {} /\ AtRest.key = NoKey /\ \A j : Sending(j).key = j
  BY DEF NoDrain, AtRest, Sending
<1>2. HasLeft(k) \/ Attempted(k) => e[k] \notin {"absent", "queued"}
  BY DEF Stored, Rewrites
<1>3. ASSUME NEW c \in Boxes \ {b}, k \in drain'[c].attempted \/ leg'[c].key = k
      PROVE  HasLeft(k) \/ Attempted(k)
  BY <1>3 DEF Flow, OthersAsTheyWere, HasLeft, Attempted
<1>4. CASE RunWaits(b, e)
  BY <1>2, <1>3, <1>4 DEF RunWaits, HasLeft, Attempted
<1>5. CASE RunFails(b, e)
  BY <1>1, <1>2, <1>3, <1>5 DEF RunFails, HasLeft, Attempted
<1>6. CASE RunMoves(b, e)
  <2>1. PICK d \in Drain : /\ d.busy /\ d.attempted \subseteq drain[b].attempted
                           /\ Ends(b, d, e) \/ SendsOne(b, d, e)
    BY <1>6 DEF RunMoves
  <2>2. CASE Ends(b, d, e)
    BY <1>1, <1>2, <1>3, <2>2 DEF Ends, HasLeft, Attempted
  <2>3. CASE SendsOne(b, d, e)
    <3>1. PICK j \in Ready(d, e) : /\ entry' = [e EXCEPT ![j] = "submitting"]
                                   /\ drain'[b] = [d EXCEPT !.attempted = @ \cup {j}]
                                   /\ leg'[b] = Sending(j)
      BY <2>3 DEF SendsOne
    <3>2. CASE k = j
      BY <3>1, <3>2 DEF Rewrites
    <3>3. CASE k # j
      <4>1. drain'[b].attempted \subseteq drain[b].attempted \cup {j} /\ leg'[b].key = j
        BY <1>1, <2>1, <3>1 DEF Drain
      <4>2. HasLeft(k) \/ Attempted(k)
        BY <1>3, <3>3, <4>1 DEF HasLeft, Attempted
      <4>3. entry'[k] = e[k]
        BY <3>1, <3>3 DEF Rewrites
      <4> QED BY <1>2, <4>2, <4>3
    <3> QED BY <3>2, <3>3
  <2> QED BY <2>1, <2>2, <2>3
<1> QED BY <1>4, <1>5, <1>6 DEF Flow

LEMMA StoredNext == TypeOK /\ Legs /\ Stored /\ [Next]_vars => Stored'
<1> SUFFICES ASSUME EntryType, RunType, RestType, Legs, Stored, [Next]_vars
             PROVE  Stored'
  BY TypeParts
<1>1. ASSUME NEW b \in Boxes, Open(b) PROVE Stored'
  BY <1>1, OpenFlows, FlowStored DEF Open, record, HasLeft
<1>2. ASSUME NEW b \in Boxes, OpenFails(b) PROVE Stored'
  BY <1>2 DEF OpenFails, Uncertain, pages, record, Stored, HasLeft, Attempted
<1>3. ASSUME NEW b \in Boxes, Stop(b) PROVE Stored'
  BY <1>3 DEF Stop, storage, record, Stored, HasLeft, Attempted
<1>4. ASSUME NEW b \in Boxes, NEW x \in Texts \cup {NoText}, Type(b, x) PROVE Stored'
  BY <1>4 DEF Type, record, Stored, HasLeft, Attempted
<1>5. ASSUME NEW b \in Boxes, NEW k \in Keys, Enqueue(b, k) PROVE Stored'
  BY <1>5, EnqueueFlows, FlowStored DEF Enqueue, record, HasLeft
<1>6. ASSUME NEW b \in Boxes, NEW k \in Keys, Retry(b, k) PROVE Stored'
  BY <1>6, RetryFlows, FlowStored DEF Retry, record, HasLeft
<1>7. ASSUME NEW b \in Boxes, Reconnect(b) PROVE Stored'
  BY <1>7, ReconnectFlows, FlowStored DEF Reconnect, record, HasLeft
<1>8. ASSUME NEW b \in Boxes, Wire(b) PROVE Stored'
  <2>1. /\ drain' = drain /\ entry' = entry /\ \A c \in Boxes : leg'[c].key = leg[c].key
        /\ adrift' = adrift /\ committed' \subseteq committed \cup {leg[b].key}
    BY <1>8 DEF Wire, Dispatch, Accept, Refuse, Answered, storage, record, RunType
  <2> QED BY <2>1 DEF Stored, HasLeft, Attempted
<1>9. ASSUME NEW b \in Boxes, Settle(b) PROVE Stored'
  <2>1. PICK e : Flow(b, e) /\ Rewrites(e)
    BY <1>9, OutcomeKinds, SettledFlows DEF Settle
  <2> QED BY <1>9, <2>1, FlowStored DEF Settle, record, HasLeft
<1>10. ASSUME NEW b \in Boxes, GiveUp(b) PROVE Stored'
  <2>1. PICK e : Flow(b, e) /\ Rewrites(e)
    BY <1>10, SettledFlows DEF GiveUp, Overdue
  <2> QED BY <1>10, <2>1, FlowStored DEF GiveUp, HasLeft
<1>11. ASSUME NEW k \in Keys, AcceptLate(k) PROVE Stored'
  BY <1>11 DEF AcceptLate, storage, pages, Stored, HasLeft, Attempted
<1>12. CASE GoOffline \/ GoOnline
  BY <1>12 DEF GoOffline, GoOnline, storage, pages, record, Stored, HasLeft, Attempted
<1>13. CASE UNCHANGED vars
  BY <1>13 DEF vars, Stored, HasLeft, Attempted
<1> QED BY <1>1, <1>2, <1>3, <1>4, <1>5, <1>6, <1>7, <1>8, <1>9, <1>10, <1>11, <1>12, <1>13
        DEF Next, Person

-----------------------------------------------------------------------------
(* What is received stays received, and was received.                      *)

\* How entries change in a step: a stored ask that was received stays so, and
\* becomes so only when the answer of its own request is heard.
LEMMA FlowAccepted ==
  ASSUME EntryType, RunType, NEW b \in Boxes, NEW e \in [Keys -> Kinds], Flow(b, e),
         NEW k \in Keys
  PROVE  entry'[k] = "accepted" <=> e[k] = "accepted"
<1>1. CASE RunWaits(b, e)
  BY <1>1 DEF RunWaits
<1>2. CASE RunFails(b, e)
  BY <1>2 DEF RunFails
<1>3. CASE RunMoves(b, e)
  <2>1. PICK d \in Drain : Ends(b, d, e) \/ SendsOne(b, d, e)
    BY <1>3 DEF RunMoves
  <2>2. CASE Ends(b, d, e)
    BY <2>2 DEF Ends
  <2>3. CASE SendsOne(b, d, e)
    <3>1. PICK j \in Ready(d, e) : entry' = [e EXCEPT ![j] = "submitting"]
      BY <2>3 DEF SendsOne
    <3> QED BY <3>1 DEF Ready
  <2> QED BY <2>1, <2>2, <2>3
<1> QED BY <1>1, <1>2, <1>3 DEF Flow

Receipts ==
  \A b \in Boxes : leg[b].stage = "answered" /\ leg[b].answer = "receipt" =>
                     leg[b].key \in committed

Told == AcceptedIsTrue /\ Receipts

LEMMA FlowReceipts ==
  ASSUME Receipts, NEW b \in Boxes, NEW e, Flow(b, e), committed' = committed
  PROVE  Receipts'
<1>1. AtRest.stage = "idle" /\ \A k : Sending(k).stage = "verifying"
  BY DEF AtRest, Sending
<1>2. leg'[b] = leg[b] \/ leg'[b].stage # "answered"
  BY <1>1 DEF Flow, RunWaits, RunFails, RunMoves, Ends, SendsOne
<1> QED BY <1>2 DEF Receipts, Flow, OthersAsTheyWere

\* A step that only rewrites entries through the run of b keeps what was told,
\* if it makes no ask received that is not.
LEMMA FlowTold ==
  ASSUME EntryType, RunType, Told, NEW b \in Boxes, NEW e \in [Keys -> Kinds], Flow(b, e),
         committed' = committed,
         \A k \in Keys : e[k] = "accepted" => k \in committed
  PROVE  Told'
<1>1. Receipts'
  BY FlowReceipts DEF Told
<1>2. AcceptedIsTrue'
  BY FlowAccepted DEF AcceptedIsTrue
<1> QED BY <1>1, <1>2 DEF Told

LEMMA ToldNext == TypeOK /\ Legs /\ Told /\ [Next]_vars => Told'
<1> SUFFICES ASSUME EntryType, RunType, RestType, Legs, Told, [Next]_vars
             PROVE  Told'
  BY TypeParts
<1> USE DEF Told
<1>1. ASSUME NEW b \in Boxes, Open(b) PROVE Told'
  <2>1. \A k \in Keys : Uncertain(Keys)[k] = "accepted" => k \in committed
    BY DEF Uncertain, AcceptedIsTrue
  <2> QED BY <1>1, <2>1, OpenFlows, FlowTold DEF Open, Rewrites, record
<1>2. ASSUME NEW b \in Boxes, OpenFails(b) PROVE Told'
  BY <1>2 DEF OpenFails, Uncertain, pages, record, AcceptedIsTrue, Receipts
<1>3. ASSUME NEW b \in Boxes, Stop(b) PROVE Told'
  BY <1>3 DEF Stop, storage, record, AcceptedIsTrue, Receipts
<1>4. ASSUME NEW b \in Boxes, NEW x \in Texts \cup {NoText}, Type(b, x) PROVE Told'
  BY <1>4 DEF Type, record, AcceptedIsTrue, Receipts
<1>5. ASSUME NEW b \in Boxes, NEW k \in Keys, Enqueue(b, k) PROVE Told'
  <2>1. \A j \in Keys : Put(entry, k, "queued")[j] = "accepted" => j \in committed
    BY DEF Put, AcceptedIsTrue, EntryType
  <2> QED BY <1>5, <2>1, EnqueueFlows, FlowTold DEF Enqueue, Rewrites, record
<1>6. ASSUME NEW b \in Boxes, NEW k \in Keys, Retry(b, k) PROVE Told'
  BY <1>6, RetryFlows, FlowTold DEF Retry, Rewrites, record, AcceptedIsTrue
<1>7. ASSUME NEW b \in Boxes, Reconnect(b) PROVE Told'
  BY <1>7, ReconnectFlows, FlowTold DEF Reconnect, Rewrites, record, AcceptedIsTrue
<1>8. ASSUME NEW b \in Boxes, Wire(b) PROVE Told'
  <2>1. CASE Dispatch(b)
    BY <2>1 DEF Dispatch, storage, record, AcceptedIsTrue, Receipts, RunType
  <2>2. CASE Accept(b)
    BY <2>2 DEF Accept, Answered, storage, AcceptedIsTrue, Receipts, RunType
  <2>3. CASE Refuse(b)
    <3>1. PICK a \in Answers \ {"receipt"} :
            leg' = [leg EXCEPT ![b] = Answered(leg[b].key, a)]
      BY <2>3 DEF Refuse
    <3>2. entry' = entry /\ committed' = committed
      BY <2>3 DEF Refuse, storage, record
    <3> QED BY <3>1, <3>2 DEF Answered, AcceptedIsTrue, Receipts, RunType
  <2> QED BY <1>8, <2>1, <2>2, <2>3 DEF Wire
<1>9. ASSUME NEW b \in Boxes, Settle(b) PROVE Told'
  <2> DEFINE kind == Outcome(leg[b].answer)
  <2>1. /\ leg[b].key \in Keys
        /\ Rewrites(Heard(b, kind)) /\ Rewrites(entry)
        /\ Flow(b, Heard(b, kind)) \/ Flow(b, entry)
    BY <1>9, OutcomeKinds, SettledFlows DEF Settle
  <2>2. leg[b].stage = "answered" /\ committed' = committed
    BY <1>9 DEF Settle, record
  <2>3. kind = "accepted" => leg[b].key \in committed
    BY <2>2 DEF Outcome, Receipts
  <2>4. \A k \in Keys : Heard(b, kind)[k] = "accepted" => k \in committed
    BY <2>3, <2>1 DEF Heard, Put, AcceptedIsTrue, EntryType
  <2> HIDE DEF kind
  <2> QED BY <2>1, <2>2, <2>4, FlowTold DEF Rewrites, AcceptedIsTrue
<1>10. ASSUME NEW b \in Boxes, GiveUp(b) PROVE Told'
  <2>1. /\ Rewrites(Heard(b, "unknown")) /\ Rewrites(entry)
        /\ Flow(b, Heard(b, "unknown")) \/ Flow(b, entry)
    BY <1>10, SettledFlows DEF GiveUp, Overdue
  <2>2. committed' = committed
    BY <1>10 DEF GiveUp
  <2>3. \A k \in Keys : Heard(b, "unknown")[k] = "accepted" => k \in committed
    BY DEF Heard, Put, AcceptedIsTrue, EntryType
  <2> QED BY <2>1, <2>2, <2>3, FlowTold DEF Rewrites, AcceptedIsTrue
<1>11. ASSUME NEW k \in Keys, AcceptLate(k) PROVE Told'
  BY <1>11 DEF AcceptLate, storage, pages, AcceptedIsTrue, Receipts
<1>12. CASE GoOffline \/ GoOnline
  BY <1>12 DEF GoOffline, GoOnline, storage, pages, record, AcceptedIsTrue, Receipts
<1>13. CASE UNCHANGED vars
  BY <1>13 DEF vars, AcceptedIsTrue, Receipts
<1> QED BY <1>1, <1>2, <1>3, <1>4, <1>5, <1>6, <1>7, <1>8, <1>9, <1>10, <1>11, <1>12, <1>13
        DEF Next, Person

LEMMA AcceptedStays ==
  TypeOK /\ Legs /\ [Next]_vars
    => \A k \in Keys : entry[k] = "accepted" => entry'[k] = "accepted"
<1> SUFFICES ASSUME EntryType, RunType, RestType, Legs, [Next]_vars,
                    NEW k \in Keys, entry[k] = "accepted"
             PROVE  entry'[k] = "accepted"
  BY TypeParts
<1>0. ASSUME NEW b \in Boxes, NEW e, Flow(b, e), Rewrites(e) PROVE entry'[k] = "accepted"
  BY <1>0, FlowAccepted DEF Rewrites
<1>1. ASSUME NEW b \in Boxes, Person(b) PROVE entry'[k] = "accepted"
  <2>1. CASE Open(b)
    BY <1>0, <2>1, OpenFlows
  <2>2. CASE OpenFails(b)
    BY <2>2 DEF OpenFails, Uncertain
  <2>3. CASE Stop(b) \/ \E x \in Texts \cup {NoText} : Type(b, x)
    BY <2>3 DEF Stop, Type, storage
  <2>4. ASSUME NEW j \in Keys, Enqueue(b, j) PROVE entry'[k] = "accepted"
    BY <1>0, <2>4, EnqueueFlows
  <2>5. ASSUME NEW j \in Keys, Retry(b, j) PROVE entry'[k] = "accepted"
    BY <1>0, <2>5, RetryFlows
  <2> QED BY <1>1, <2>1, <2>2, <2>3, <2>4, <2>5 DEF Person
<1>2. ASSUME NEW b \in Boxes, Reconnect(b) PROVE entry'[k] = "accepted"
  BY <1>0, <1>2, ReconnectFlows
<1>3. ASSUME NEW b \in Boxes, Settle(b) \/ GiveUp(b) PROVE entry'[k] = "accepted"
  <2>1. PICK e : Flow(b, e) /\ Rewrites(e)
    BY <1>3, OutcomeKinds, SettledFlows DEF Settle, GiveUp, Overdue
  <2> QED BY <1>0, <2>1
<1>4. ASSUME NEW b \in Boxes, Wire(b) PROVE entry'[k] = "accepted"
  BY <1>4 DEF Wire, Dispatch, Accept, Refuse, storage
<1>5. CASE (\E j \in Keys : AcceptLate(j)) \/ GoOffline \/ GoOnline \/ UNCHANGED vars
  BY <1>5 DEF AcceptLate, GoOffline, GoOnline, vars, storage
<1> QED BY <1>1, <1>2, <1>3, <1>4, <1>5 DEF Next

-----------------------------------------------------------------------------
(* One text, one ask.                                                      *)

Asked ==
  /\ AskedOnce
  /\ draft # NoText => \A k \in Keys : body[k] # draft

LEMMA AskedNext == TypeOK /\ Asked /\ [Next]_vars => Asked'
<1> SUFFICES ASSUME EntryType, RunType, RestType, Asked, [Next]_vars
             PROVE  Asked'
  BY TypeParts
<1>1. ASSUME NEW b \in Boxes, NEW x \in Texts \cup {NoText}, Type(b, x) PROVE Asked'
  BY <1>1 DEF Type, Fresh, Asked, AskedOnce
<1>2. ASSUME NEW b \in Boxes, NEW k \in Keys, Enqueue(b, k) PROVE Asked'
  <2>1. /\ body' = [body EXCEPT ![k] = draft] /\ draft # NoText
        /\ draft' = NoText
    BY <1>2 DEF Enqueue, StillDraft
  <2> QED BY <2>1 DEF Asked, AskedOnce, RestType
<1>3. CASE /\ UNCHANGED <<body, draft>>
  BY <1>3 DEF Asked, AskedOnce
<1>4. ASSUME NEW b \in Boxes, Open(b) \/ OpenFails(b) \/ Stop(b)
      PROVE  UNCHANGED <<body, draft>>
  BY <1>4 DEF Open, OpenFails, Stop, storage
<1>5. ASSUME NEW b \in Boxes, NEW k \in Keys, Retry(b, k) PROVE UNCHANGED <<body, draft>>
  BY <1>5 DEF Retry
<1>6. ASSUME NEW b \in Boxes, Reconnect(b) \/ Wire(b) \/ Settle(b) \/ GiveUp(b)
      PROVE  UNCHANGED <<body, draft>>
  BY <1>6 DEF Reconnect, Wire, Dispatch, Accept, Refuse, Settle, GiveUp, storage
<1>7. CASE (\E k \in Keys : AcceptLate(k)) \/ GoOffline \/ GoOnline \/ UNCHANGED vars
  BY <1>3, <1>7 DEF AcceptLate, GoOffline, GoOnline, vars, storage
<1> QED BY <1>1, <1>2, <1>3, <1>4, <1>5, <1>6, <1>7 DEF Next, Person

-----------------------------------------------------------------------------
(* The inductive invariant, whatever storage does.                         *)

IInv == TypeOK /\ Legs /\ Stored /\ Told /\ Asked

LEMMA InitIInv == Init => IInv
<1> SUFFICES ASSUME Init PROVE IInv
  OBVIOUS
<1>1. TypeOK
  BY TypeInit
<1>2. Legs
  BY DEF Init, Legs, NoDrain, AtRest
<1>3. Stored
  BY DEF Init, Stored, HasLeft, Attempted, NoDrain, AtRest
<1>4. Told
  BY DEF Init, Told, AcceptedIsTrue, Receipts, AtRest
<1>5. Asked
  BY DEF Init, Asked, AskedOnce
<1> QED BY <1>1, <1>2, <1>3, <1>4, <1>5 DEF IInv

LEMMA NextIInv == IInv /\ [Next]_vars => IInv'
  BY TypeNext, LegsNext, StoredNext, ToldNext, AskedNext DEF IInv

THEOREM Invariant == Spec => []IInv
  BY InitIInv, NextIInv, PTL DEF Spec

\* A request that may have left some tab is in storage, not as an ask that waits,
\* even where storage throws at any write.
THEOREM SentIsStoredHolds == Spec => []SentIsStored
<1>1. IInv => SentIsStored
  BY DEF IInv, Stored, SentIsStored
<1> QED BY <1>1, Invariant, PTL

\* What a person was told is received is received.
THEOREM AcceptedIsTrueHolds == Spec => []AcceptedIsTrue
<1>1. IInv => AcceptedIsTrue
  BY DEF IInv, Told
<1> QED BY <1>1, Invariant, PTL

\* No text is asked under two keys, however many tabs show it.
THEOREM AskedOnceHolds == Spec => []AskedOnce
<1>1. IInv => AskedOnce
  BY DEF IInv, Asked
<1> QED BY <1>1, Invariant, PTL

\* No tab takes an acceptance back.
THEOREM AcceptedForGoodHolds == Spec => AcceptedForGood
<1>1. IInv /\ [Next]_vars => [\A k \in Keys : entry[k] = "accepted" => entry'[k] = "accepted"]_vars
  BY AcceptedStays DEF IInv
<1> QED BY <1>1, Invariant, PTL DEF Spec, AcceptedForGood

\* A reconnect leaves what was declined or received alone: the retries of a run
\* do not outlive it.
THEOREM NeverUnaskedHolds == Spec => NeverUnasked
<1>1. ASSUME IInv, NEW b \in Boxes, Reconnect(b), NEW k \in Keys,
             entry[k] \in {"refused", "accepted"}
      PROVE  entry'[k] = entry[k]
  <2>1. RunType /\ EntryType /\ Flush(b, entry)
    BY <1>1, TypeParts DEF IInv, Reconnect
  <2>2. /\ \/ /\ ~ online \/ drain[b].busy
              /\ entry' = entry /\ UNCHANGED <<drain, leg>>
           \/ /\ online /\ ~ drain[b].busy
              /\ \/ Ends(b, Begin(b, FALSE, {}), entry)
                 \/ SendsOne(b, Begin(b, FALSE, {}), entry)
    BY <2>1, FlushSteps DEF EntryType
  <2>3. ~ drain[b].busy => Begin(b, FALSE, {}).retries = {}
    BY <1>1 DEF IInv, Legs, NoDrain, Begin
  <2>4. ~ drain[b].busy => k \notin Ready(Begin(b, FALSE, {}), entry)
    BY <1>1, <2>3 DEF Ready
  <2>5. CASE SendsOne(b, Begin(b, FALSE, {}), entry) /\ ~ drain[b].busy
    <3>1. PICK j \in Ready(Begin(b, FALSE, {}), entry) :
            entry' = [entry EXCEPT ![j] = "submitting"]
      BY <2>5 DEF SendsOne
    <3> QED BY <2>1, <2>4, <2>5, <3>1 DEF EntryType
  <2> QED BY <2>2, <2>5 DEF Ends
<1>2. IInv => [\A b \in Boxes : Reconnect(b) =>
                \A k \in Keys : entry[k] \in {"refused", "accepted"} => entry'[k] = entry[k]]_vars
  BY <1>1
<1> QED BY <1>2, Invariant, PTL DEF NeverUnasked

-----------------------------------------------------------------------------
(* Storage that does not throw: "Sending" is true.                         *)

LEMMA FlowSending ==
  ASSUME ~ StorageFails, RunType, EntryType, NEW b \in Boxes, NEW e \in [Keys -> Kinds],
         Flow(b, e), NEW k \in Keys,
         e[k] = "submitting" => \/ \E c \in Boxes \ {b} : leg[c].key = k
                                \/ leg[b].key = k /\ RunWaits(b, e)
  PROVE  entry'[k] = "submitting" => \E c \in Boxes : leg'[c].key = k
<1>1. CASE RunWaits(b, e)
  BY <1>1 DEF RunWaits, Flow, OthersAsTheyWere
<1>2. CASE RunMoves(b, e) /\ ~ RunWaits(b, e)
  <2>1. PICK d \in Drain : Ends(b, d, e) \/ SendsOne(b, d, e)
    BY <1>2 DEF RunMoves
  <2>2. CASE Ends(b, d, e)
    BY <1>2, <2>2 DEF Ends, Flow, OthersAsTheyWere
  <2>3. CASE SendsOne(b, d, e)
    <3>1. PICK j \in Ready(d, e) : entry' = [e EXCEPT ![j] = "submitting"] /\ leg'[b] = Sending(j)
      BY <2>3 DEF SendsOne
    <3>2. leg'[b].key = j
      BY <3>1 DEF Sending
    <3>3. CASE k = j
      BY <3>2, <3>3
    <3>4. CASE k # j
      BY <1>2, <3>1, <3>4 DEF Flow, OthersAsTheyWere
    <3> QED BY <3>3, <3>4
  <2> QED BY <2>1, <2>2, <2>3
<1> QED BY <1>1, <1>2 DEF Flow, RunFails

\* Of a box that awaits an answer, the run is busy.
LEMMA LegBusy ==
  ASSUME RunType, Legs, NEW b \in Boxes, leg[b].key \in Keys
  PROVE  drain[b].busy
  BY DEF RunType, Legs

LEMMA SendingNext ==
  ~ StorageFails /\ TypeOK /\ Legs /\ SendingIsReal /\ [Next]_vars => SendingIsReal'
<1> SUFFICES ASSUME ~ StorageFails, EntryType, RunType, RestType, Legs, SendingIsReal,
                    [Next]_vars, NEW k \in Keys, entry'[k] = "submitting"
             PROVE  \E c \in Boxes : leg'[c].key = k
  BY TypeParts DEF SendingIsReal
<1>0. ASSUME NEW b \in Boxes, NEW e, Flow(b, e), Rewrites(e),
             e[k] = "submitting" => entry[k] = "submitting",
             drain[b].busy => RunWaits(b, e)
      PROVE  \E c \in Boxes : leg'[c].key = k
  <2>1. e[k] = "submitting" => \E c \in Boxes : leg[c].key = k
    BY <1>0 DEF SendingIsReal
  <2>2. leg[b].key = k => RunWaits(b, e)
    BY <1>0, LegBusy
  <2> QED BY <1>0, <2>1, <2>2, FlowSending DEF Rewrites
<1>1. ASSUME NEW b \in Boxes, Open(b) PROVE \E c \in Boxes : leg'[c].key = k
  <2>1. Flow(b, Uncertain(Keys)) /\ Rewrites(Uncertain(Keys))
    BY <1>1, OpenFlows
  <2>2. Uncertain(Keys)[k] # "submitting"
    BY DEF Uncertain
  <2> QED BY <2>1, <2>2, FlowSending DEF Rewrites
<1>2. ASSUME NEW b \in Boxes, OpenFails(b) PROVE FALSE
  BY <1>2 DEF OpenFails
<1>3. ASSUME NEW b \in Boxes, NEW j \in Keys, Enqueue(b, j)
      PROVE  \E c \in Boxes : leg'[c].key = k
  <2>1. Put(entry, j, "queued")[k] = "submitting" => entry[k] = "submitting"
    BY DEF Put, EntryType
  <2> QED BY <1>0, <1>3, <2>1, EnqueueFlows
<1>4. ASSUME NEW b \in Boxes, NEW j \in Keys, Retry(b, j)
      PROVE  \E c \in Boxes : leg'[c].key = k
  BY <1>0, <1>4, RetryFlows
<1>5. ASSUME NEW b \in Boxes, Reconnect(b) PROVE \E c \in Boxes : leg'[c].key = k
  BY <1>0, <1>5, ReconnectFlows
<1>6. ASSUME NEW b \in Boxes, Settle(b) \/ GiveUp(b)
      PROVE  \E c \in Boxes : leg'[c].key = k
  <2>1. PICK kind \in {"unknown", "refused", "accepted"} :
          Settled(b, kind) /\ leg[b].stage # "idle"
    BY <1>6, OutcomeKinds DEF Settle, GiveUp, Overdue
  <2>2. /\ leg[b].key \in Keys /\ Rewrites(Heard(b, kind)) /\ Flow(b, Heard(b, kind))
    BY <2>1, SettledFlows
  <2>3. Heard(b, kind)[k] = "submitting" => k # leg[b].key /\ entry[k] = "submitting"
    BY <2>2 DEF Heard, Put, EntryType
  <2>4. Heard(b, kind)[k] = "submitting" => \E c \in Boxes \ {b} : leg[c].key = k
    BY <2>3 DEF SendingIsReal
  <2> QED BY <2>2, <2>4, FlowSending DEF Rewrites
<1>7. ASSUME NEW b \in Boxes, Wire(b) PROVE \E c \in Boxes : leg'[c].key = k
  <2>1. entry' = entry /\ \A c \in Boxes : leg'[c].key = leg[c].key
    BY <1>7 DEF Wire, Dispatch, Accept, Refuse, Answered, storage, RunType
  <2> QED BY <2>1 DEF SendingIsReal
<1>8. CASE UNCHANGED <<entry, leg>>
  BY <1>8 DEF SendingIsReal
<1>9. ASSUME NEW b \in Boxes, Stop(b) \/ \E x \in Texts \cup {NoText} : Type(b, x)
      PROVE  UNCHANGED <<entry, leg>>
  BY <1>9 DEF Stop, Type, storage
<1>10. ASSUME (\E j \in Keys : AcceptLate(j)) \/ GoOffline \/ GoOnline \/ UNCHANGED vars
       PROVE  UNCHANGED <<entry, leg>>
  BY <1>10 DEF AcceptLate, GoOffline, GoOnline, vars, storage, pages
<1> QED BY <1>1, <1>2, <1>3, <1>4, <1>5, <1>6, <1>7, <1>8, <1>9, <1>10 DEF Next, Person

\* Where storage does not throw, an ask shown as being sent is being sent by some
\* box, or was by one that stopped on the way.
THEOREM SendingIsRealHolds ==
  ASSUME ~ StorageFails PROVE Spec => []SendingIsReal
<1>1. Init => SendingIsReal
  BY DEF Init, SendingIsReal
<1>2. IInv /\ SendingIsReal /\ [Next]_vars => SendingIsReal'
  BY SendingNext DEF IInv
<1> QED BY <1>1, <1>2, Invariant, PTL DEF Spec

-----------------------------------------------------------------------------
(* Storage that does not throw: no queued ask is forgotten.                *)

LEMMA FlowSender ==
  ASSUME ~ StorageFails, RunType, Stored, NEW b \in Boxes, NEW e,
         Flow(b, e), Rewrites(e), online, ~ drain[b].busy => RunMoves(b, e),
         NEW k \in Keys, entry'[k] = "queued"
  PROVE  drain'[b].busy
<1>1. CASE RunWaits(b, e) /\ drain[b].busy
  BY <1>1 DEF RunWaits
<1>2. CASE RunMoves(b, e)
  <2>1. PICK d \in Drain : /\ d.busy /\ d.attempted \subseteq drain[b].attempted
                           /\ Ends(b, d, e) \/ SendsOne(b, d, e)
    BY <1>2 DEF RunMoves
  <2>2. CASE Ends(b, d, e)
    <3>1. e[k] = "queued" /\ Ready(d, e) = {}
      BY <2>2 DEF Ends
    <3>2. k \notin d.attempted
      BY <2>1, <3>1 DEF Rewrites, Stored, Attempted
    <3> QED BY <3>1, <3>2 DEF Ready
  <2>3. CASE SendsOne(b, d, e)
    BY <2>1, <2>3 DEF SendsOne, Drain
  <2> QED BY <2>1, <2>2, <2>3
<1> QED BY <1>1, <1>2 DEF Flow, RunFails

\* The part of QueuedHasSender that is not already in Stored.
Sender ==
  (online /\ \E b \in Boxes : box[b] = "open") =>
    ((\E k \in Keys : entry[k] = "queued") => \E b \in Boxes : b \in due \/ drain[b].busy)

LEMMA SenderNext ==
  ~ StorageFails /\ TypeOK /\ Legs /\ Stored /\ Sender /\ [Next]_vars => Sender'
<1> SUFFICES ASSUME ~ StorageFails, EntryType, RunType, RestType, Legs, Stored, Sender,
                    [Next]_vars, online', \E b \in Boxes : box'[b] = "open",
                    NEW k \in Keys, entry'[k] = "queued"
             PROVE  \E b \in Boxes : b \in due' \/ drain'[b].busy
  BY TypeParts DEF Sender
<1>1. ASSUME NEW b \in Boxes, Open(b) PROVE drain'[b].busy
  <2>1. online /\ ~ drain[b].busy
    BY <1>1 DEF Open, Legs
  <2> QED BY <1>1, <2>1, OpenFlows, FlowSender
<1>2. ASSUME NEW b \in Boxes, OpenFails(b) PROVE FALSE
  BY <1>2 DEF OpenFails
<1>3. ASSUME NEW b \in Boxes, NEW j \in Keys, Enqueue(b, j) PROVE drain'[b].busy
  BY <1>3, EnqueueFlows, FlowSender DEF Enqueue
<1>4. ASSUME NEW b \in Boxes, NEW j \in Keys, Retry(b, j) PROVE drain'[b].busy
  BY <1>4, RetryFlows, FlowSender DEF Retry
<1>5. ASSUME NEW b \in Boxes, Reconnect(b) PROVE drain'[b].busy
  BY <1>5, ReconnectFlows, FlowSender DEF Reconnect
<1>6. ASSUME NEW b \in Boxes, Settle(b) \/ GiveUp(b) PROVE drain'[b].busy
  <2>1. PICK kind \in {"unknown", "refused", "accepted"} :
          Settled(b, kind) /\ leg[b].stage # "idle" /\ online' = online
    BY <1>6, OutcomeKinds DEF Settle, GiveUp, Overdue
  <2>2. Rewrites(Heard(b, kind)) /\ Flow(b, Heard(b, kind)) /\ drain[b].busy
    BY <2>1, SettledFlows DEF Legs
  <2> QED BY <2>1, <2>2, FlowSender
<1>7. ASSUME /\ entry' = entry /\ drain' = drain /\ due' = due /\ online' = online
             /\ \A c \in Boxes : box'[c] = "open" => box[c] = "open"
      PROVE  \E b \in Boxes : b \in due' \/ drain'[b].busy
  BY <1>7 DEF Sender
<1>8. ASSUME NEW b \in Boxes, Stop(b) PROVE \E c \in Boxes : c \in due' \/ drain'[c].busy
  BY <1>7, <1>8 DEF Stop, storage, RestType
<1>9. ASSUME NEW b \in Boxes, \E x \in Texts \cup {NoText} : Type(b, x)
      PROVE  \E c \in Boxes : c \in due' \/ drain'[c].busy
  BY <1>7, <1>9 DEF Type
<1>10. ASSUME NEW b \in Boxes, Wire(b) PROVE \E c \in Boxes : c \in due' \/ drain'[c].busy
  BY <1>7, <1>10 DEF Wire, Dispatch, Accept, Refuse, storage
<1>11. ASSUME (\E j \in Keys : AcceptLate(j)) \/ UNCHANGED vars
       PROVE  \E c \in Boxes : c \in due' \/ drain'[c].busy
  BY <1>7, <1>11 DEF AcceptLate, vars, storage, pages
<1>12. CASE GoOffline
  BY <1>12 DEF GoOffline
<1>13. CASE GoOnline
  BY <1>13 DEF GoOnline, pages
<1> QED BY <1>1, <1>2, <1>3, <1>4, <1>5, <1>6, <1>8, <1>9, <1>10, <1>11, <1>12, <1>13
        DEF Next, Person

\* Where storage does not throw, an open tab that is online never forgets an ask
\* that is queued, whichever tab queued it.
THEOREM QueuedHasSenderHolds ==
  ASSUME ~ StorageFails PROVE Spec => []QueuedHasSender
<1>1. Init => Sender
  BY DEF Init, Sender
<1>2. IInv /\ Sender /\ [Next]_vars => Sender'
  BY SenderNext DEF IInv
<1>3. IInv /\ Sender => QueuedHasSender
  BY DEF IInv, Sender, Stored, Attempted, QueuedHasSender
<1> QED BY <1>1, <1>2, <1>3, Invariant, PTL DEF Spec

-----------------------------------------------------------------------------
(* The outbox implements AskOnce.                                          *)

\* What AskOnce sees of the asks.
Stage == [k \in Keys |-> StageOf(k)]
Stages == {"unsaid", "kept", "out", "taken", "told"}

\* An ask that storage holds and that is neither waiting nor received.
Underway == {"submitting", "unknown", "refused"}

LEMMA StageFacts ==
  ASSUME EntryType, NEW k \in Keys
  PROVE  /\ Stage[k] \in Stages
         /\ entry[k] = "absent" => Stage[k] = "unsaid"
         /\ entry[k] = "queued" => Stage[k] = "kept"
         /\ entry[k] = "accepted" => Stage[k] = "told"
         /\ entry[k] \in Underway =>
              Stage[k] = IF k \in committed THEN "taken" ELSE "out"
  BY DEF Stage, StageOf, Stages, Underway, EntryType, Kinds

LEMMA StageFactsNext ==
  ASSUME EntryType', NEW k \in Keys
  PROVE  /\ Stage'[k] \in Stages
         /\ entry'[k] = "absent" => Stage'[k] = "unsaid"
         /\ entry'[k] = "queued" => Stage'[k] = "kept"
         /\ entry'[k] = "accepted" => Stage'[k] = "told"
         /\ entry'[k] \in Underway =>
              Stage'[k] = IF k \in committed' THEN "taken" ELSE "out"
  BY DEF Stage, StageOf, Stages, Underway, EntryType, Kinds

\* A step of AskOnce is one of these, for every ask.
LEMMA PageSteps ==
  ASSUME EntryType',
         \A k \in Keys : \/ Promise!Rests(k) \/ Promise!Writes(k)
                         \/ Promise!Leaves(k) \/ Promise!Hears(k)
  PROVE  Promise!Next
<1>1. Stage' \in [Keys -> Stages]
  BY StageFactsNext DEF Stage
<1> QED BY <1>1 DEF Promise!Next, Promise!Page, Stage, Stages

\* What a run does to one entry that was e[k] when it took its turn.
LEMMA FlowEntry ==
  ASSUME EntryType, RunType, NEW b \in Boxes, NEW e \in [Keys -> Kinds], Flow(b, e),
         NEW k \in Keys
  PROVE  \/ entry'[k] = e[k]
         \/ e[k] \in {"queued", "unknown", "refused"} /\ entry'[k] = "submitting"
<1>1. CASE RunWaits(b, e) \/ RunFails(b, e)
  BY <1>1 DEF RunWaits, RunFails
<1>2. CASE RunMoves(b, e)
  <2>1. PICK d \in Drain : Ends(b, d, e) \/ SendsOne(b, d, e)
    BY <1>2 DEF RunMoves
  <2>2. CASE Ends(b, d, e)
    BY <2>2 DEF Ends
  <2>3. CASE SendsOne(b, d, e)
    <3>1. PICK j \in Ready(d, e) : entry' = [e EXCEPT ![j] = "submitting"]
      BY <2>3 DEF SendsOne
    <3> QED BY <3>1 DEF Ready
  <2> QED BY <2>1, <2>2, <2>3
<1> QED BY <1>1, <1>2 DEF Flow

\* An ask whose entry stays, or goes on being under way, or was received, rests,
\* leaves or is heard of.
LEMMA EntryMaps ==
  ASSUME EntryType, EntryType', Stored, AcceptedIsTrue', committed' = committed,
         NEW k \in Keys, body'[k] = body[k],
         \/ entry'[k] = entry[k]
         \/ entry[k] \in Underway /\ entry'[k] \in Underway \cup {"accepted"}
         \/ entry[k] = "queued" /\ entry'[k] \in Underway
  PROVE  Promise!Rests(k) \/ Promise!Leaves(k) \/ Promise!Hears(k)
<1>1. entry'[k] = entry[k] => Stage'[k] = Stage[k]
  BY StageFacts, StageFactsNext DEF EntryType, Kinds, Underway
<1>2. entry[k] = "queued" => k \notin committed
  BY DEF Stored, HasLeft
<1>3. entry'[k] = "accepted" => k \in committed
  BY DEF AcceptedIsTrue
<1>4. \/ Stage'[k] = Stage[k]
      \/ Stage[k] = "kept" /\ Stage'[k] = "out"
      \/ Stage[k] = "taken" /\ Stage'[k] = "told"
  BY <1>1, <1>2, <1>3, StageFacts, StageFactsNext
<1> QED BY <1>4 DEF Promise!Rests, Promise!Leaves, Promise!Hears, Stage

\* A run that takes its turn over the entries e, which are under way where they
\* differ from what was stored.
LEMMA FlowMaps ==
  ASSUME IInv, IInv', NEW b \in Boxes, NEW e \in [Keys -> Kinds], Flow(b, e),
         committed' = committed, NEW k \in Keys, body'[k] = body[k],
         \/ e[k] = entry[k]
         \/ entry[k] \in Underway /\ e[k] \in Underway \cup {"accepted"}
  PROVE  Promise!Rests(k) \/ Promise!Leaves(k) \/ Promise!Hears(k)
<1>1. /\ EntryType /\ RunType /\ Stored
      /\ EntryType' /\ AcceptedIsTrue'
  BY TypeParts DEF IInv, Told, TypeOK, EntryType
<1>2. \/ entry'[k] = e[k]
      \/ e[k] \in {"queued", "unknown", "refused"} /\ entry'[k] = "submitting"
  BY <1>1, FlowEntry
<1>3. \/ entry'[k] = entry[k]
      \/ entry[k] \in Underway /\ entry'[k] \in Underway \cup {"accepted"}
      \/ entry[k] = "queued" /\ entry'[k] \in Underway
  BY <1>2 DEF Underway
<1> QED BY <1>1, <1>3, EntryMaps

\* The answer to a request is about an ask that is under way or received.
LEMMA SettledMaps ==
  ASSUME IInv, IInv', NEW b \in Boxes, NEW kind \in {"unknown", "refused", "accepted"},
         leg[b].stage # "idle", Settled(b, kind), committed' = committed, body' = body
  PROVE  Promise!Next
<1>1. /\ EntryType /\ RunType /\ Legs /\ Stored /\ EntryType'
  BY TypeParts DEF IInv, TypeOK, EntryType
<1>2. /\ leg[b].key \in Keys
      /\ Flow(b, Heard(b, kind)) \/ Flow(b, entry)
      /\ Heard(b, kind) \in [Keys -> Kinds] /\ entry \in [Keys -> Kinds]
  BY <1>1, SettledFlows DEF Rewrites
<1>3. entry[leg[b].key] \in Underway \cup {"accepted"}
  BY <1>1, <1>2 DEF Stored, HasLeft, EntryType, Kinds, Underway
<1>4. ASSUME NEW k \in Keys
      PROVE  \/ Heard(b, kind)[k] = entry[k]
             \/ entry[k] \in Underway /\ Heard(b, kind)[k] \in Underway \cup {"accepted"}
  BY <1>1, <1>2, <1>3 DEF Heard, Put, EntryType, Underway
<1>5. \A k \in Keys : Promise!Rests(k) \/ Promise!Leaves(k) \/ Promise!Hears(k)
  BY <1>2, <1>4, FlowMaps
<1> QED BY <1>1, <1>5, PageSteps

\* What a person does to the outbox.
LEMMA PersonMaps ==
  ASSUME IInv, IInv', NEW b \in Boxes, Person(b)
  PROVE  Promise!Next
<1>1. /\ EntryType /\ RunType /\ RestType /\ Stored
      /\ EntryType' /\ AcceptedIsTrue' /\ Asked'
  BY TypeParts DEF IInv, Told, TypeOK, EntryType
<1>2. CASE Open(b)
  <2>1. Flow(b, Uncertain(Keys)) /\ Uncertain(Keys) \in [Keys -> Kinds]
    BY <1>1, <1>2, OpenFlows DEF Rewrites
  <2>2. \A k \in Keys : \/ Uncertain(Keys)[k] = entry[k]
                        \/ entry[k] \in Underway /\ Uncertain(Keys)[k] \in Underway
    BY DEF Uncertain, Underway
  <2>3. committed' = committed /\ body' = body
    BY <1>2 DEF Open, record
  <2>4. \A k \in Keys : Promise!Rests(k) \/ Promise!Leaves(k) \/ Promise!Hears(k)
    BY <2>1, <2>2, <2>3, FlowMaps
  <2> QED BY <1>1, <2>4, PageSteps
<1>3. CASE OpenFails(b)
  <2>1. committed' = committed /\ body' = body
    BY <1>3 DEF OpenFails, record
  <2>2. \A k \in Keys : \/ entry'[k] = entry[k]
                        \/ entry[k] \in Underway /\ entry'[k] \in Underway
    BY <1>3 DEF OpenFails, Uncertain, Underway
  <2>3. \A k \in Keys : Promise!Rests(k) \/ Promise!Leaves(k) \/ Promise!Hears(k)
    BY <1>1, <2>1, <2>2, EntryMaps
  <2> QED BY <1>1, <2>3, PageSteps
<1>4. CASE Stop(b) \/ \E x \in Texts \cup {NoText} : Type(b, x)
  <2>1. committed' = committed /\ body' = body /\ entry' = entry
    BY <1>4 DEF Stop, Type, storage, record
  <2>2. \A k \in Keys : Promise!Rests(k) \/ Promise!Leaves(k) \/ Promise!Hears(k)
    BY <1>1, <2>1, EntryMaps
  <2> QED BY <1>1, <2>2, PageSteps
<1>5. ASSUME NEW j \in Keys, Enqueue(b, j) PROVE Promise!Next
  <2> DEFINE e == Put(entry, j, "queued")
  <2>1. Flow(b, e) /\ e \in [Keys -> Kinds]
    BY <1>1, <1>5, EnqueueFlows DEF Rewrites
  <2>2. /\ entry[j] = "absent" /\ text[b] # NoText /\ text[b] \in Texts
        /\ body' = [body EXCEPT ![j] = text[b]] /\ committed' = committed
    BY <1>1, <1>5 DEF Enqueue, record, RestType
  <2>3. e[j] = "queued" /\ \A k \in Keys \ {j} : e[k] = entry[k]
    BY <1>1, <2>2 DEF Put, EntryType
  <2> HIDE DEF e
  <2>4. \A k \in Keys \ {j} : Promise!Rests(k) \/ Promise!Leaves(k) \/ Promise!Hears(k)
    BY <1>1, <2>1, <2>2, <2>3, FlowMaps DEF RestType
  <2>5. j \notin committed
    BY <1>1, <2>2 DEF Stored, HasLeft
  <2>6. entry'[j] = "queued" \/ entry'[j] = "submitting"
    BY <1>1, <2>1, <2>3, FlowEntry
  <2>7. Stage[j] = "unsaid" /\ Stage'[j] \in {"kept", "out"}
    BY <1>1, <2>2, <2>5, <2>6, StageFacts, StageFactsNext DEF Underway
  <2>8. body'[j] = text[b]
    BY <1>1, <2>2 DEF RestType
  <2>9. \A k \in Keys \ {j} : body'[k] # body'[j]
    BY <1>1, <2>2, <2>8 DEF Asked, AskedOnce
  <2>10. Promise!Writes(j)
    BY <2>2, <2>7, <2>8, <2>9 DEF Promise!Writes, Stage
  <2> QED BY <1>1, <2>4, <2>10, PageSteps
<1>6. ASSUME NEW j \in Keys, Retry(b, j) PROVE Promise!Next
  <2>1. Flow(b, entry) /\ entry \in [Keys -> Kinds]
    BY <1>1, <1>6, RetryFlows DEF Rewrites
  <2>2. committed' = committed /\ body' = body
    BY <1>6 DEF Retry, record
  <2>3. \A k \in Keys : Promise!Rests(k) \/ Promise!Leaves(k) \/ Promise!Hears(k)
    BY <2>1, <2>2, FlowMaps
  <2> QED BY <1>1, <2>3, PageSteps
<1> QED BY <1>2, <1>3, <1>4, <1>5, <1>6 DEF Person

\* A turn that the record layer appends is that of an ask that left the device.
LEMMA TakeMaps ==
  ASSUME IInv, IInv', NEW k \in Keys, HasLeft(k), committed' = committed \cup {k},
         entry' = entry, body' = body
  PROVE  Promise!Next \/ UNCHANGED Promise!vars
<1>1. EntryType /\ EntryType' /\ Stored /\ AcceptedIsTrue
  BY TypeParts DEF IInv, Told, TypeOK, EntryType
<1>2. entry[k] \in Underway \cup {"accepted"}
  BY <1>1 DEF Stored, EntryType, Kinds, Underway
<1>3. CASE k \in committed
  <2>1. committed' = committed
    BY <1>3
  <2> QED BY <2>1 DEF Promise!vars, StageOf
<1>4. CASE k \notin committed
  <2>1. Stage[k] = "out" /\ Stage'[k] = "taken"
    BY <1>1, <1>2, <1>4, StageFacts, StageFactsNext DEF AcceptedIsTrue
  <2>2. \A j \in Keys \ {k} : Stage'[j] = Stage[j]
    BY <1>1, StageFacts, StageFactsNext DEF EntryType, Kinds, Underway
  <2>3. Stage' = [Stage EXCEPT ![k] = "taken"]
    BY <2>1, <2>2 DEF Stage
  <2>4. Promise!Take(k)
    BY <2>1, <2>3 DEF Promise!Take, Stage
  <2> QED BY <2>4 DEF Promise!Next
<1> QED BY <1>3, <1>4

LEMMA NothingAsked ==
  ASSUME UNCHANGED <<entry, body, committed>>
  PROVE  UNCHANGED Promise!vars
  BY DEF Promise!vars, StageOf

\* What was written is asked once, kept before it leaves, taken at most once and
\* received for good, by any number of tabs over a storage that may throw.
THEOREM ImplementsAskOnce == Spec => KeepsPromise
<1>1. Init => Promise!Init
  BY DEF Init, Promise!Init, StageOf
<1>2. IInv /\ IInv' /\ [Next]_vars => [Promise!Next]_(Promise!vars)
  <2> SUFFICES ASSUME IInv, IInv', [Next]_vars
               PROVE  Promise!Next \/ UNCHANGED Promise!vars
    OBVIOUS
  <2>0. EntryType /\ RunType /\ RestType /\ EntryType'
    BY TypeParts DEF IInv, TypeOK, EntryType
  <2>1. ASSUME NEW b \in Boxes, Reconnect(b) PROVE Promise!Next
    <3>1. Flow(b, entry) /\ entry \in [Keys -> Kinds]
      BY <2>0, <2>1, ReconnectFlows DEF Rewrites
    <3>2. committed' = committed /\ body' = body
      BY <2>1 DEF Reconnect, record
    <3>3. \A k \in Keys : Promise!Rests(k) \/ Promise!Leaves(k) \/ Promise!Hears(k)
      BY <3>1, <3>2, FlowMaps
    <3> QED BY <2>0, <3>3, PageSteps
  <2>2. ASSUME NEW b \in Boxes, Wire(b) PROVE Promise!Next \/ UNCHANGED Promise!vars
    <3>1. CASE Dispatch(b) \/ Refuse(b)
      BY <3>1, NothingAsked DEF Dispatch, Refuse, storage, record
    <3>2. CASE Accept(b)
      <4>1. leg[b].key \in Keys /\ HasLeft(leg[b].key)
        BY <2>0, <3>2 DEF Accept, RunType, HasLeft
      <4> QED BY <3>2, <4>1, TakeMaps DEF Accept, storage
    <3> QED BY <2>2, <3>1, <3>2 DEF Wire
  <2>3. ASSUME NEW b \in Boxes, Settle(b) PROVE Promise!Next
    BY <2>3, OutcomeKinds, SettledMaps DEF Settle, record
  <2>4. ASSUME NEW b \in Boxes, GiveUp(b) PROVE Promise!Next
    BY <2>4, SettledMaps DEF GiveUp, Overdue
  <2>5. ASSUME NEW k \in Keys, AcceptLate(k) PROVE Promise!Next \/ UNCHANGED Promise!vars
    BY <2>5, TakeMaps DEF AcceptLate, HasLeft, storage
  <2>6. CASE GoOffline \/ GoOnline \/ UNCHANGED vars
    BY <2>6, NothingAsked DEF GoOffline, GoOnline, vars, storage, record
  <2> QED BY <2>1, <2>2, <2>3, <2>4, <2>5, <2>6, PersonMaps DEF Next
<1> QED BY <1>1, <1>2, Invariant, PTL DEF Spec, KeepsPromise, Promise!Spec
================================================================================
