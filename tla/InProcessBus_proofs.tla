------------------------ MODULE InProcessBus_proofs ------------------------
(***************************************************************************)
(* Theorems about InProcessBus for every number of topics, handlers,       *)
(* publishes and subscriptions and every buffer size.                      *)
(***************************************************************************)
EXTENDS InProcessBus, TLAPS

(***************************************************************************)
(* The inductive invariant: TypeOK and what ties the buffer, the envelope  *)
(* in dispatch and the history of runs together.                           *)
(***************************************************************************)

\* Buffered events were accepted.
BufferAccepted ==
    \A k \in 1..Len(ch) : ch[k].id <= sent /\ outcome[ch[k].id] = "queued"

\* Neither a buffered event nor any later one has run anything.
BufferUnrun ==
    \A k \in 1..Len(ch) : \A j \in Ids : j >= ch[k].id => ran[j] = <<>>

\* The early subscribers of a buffered event are still at the front.
BufferOwed ==
    \A k \in 1..Len(ch) : IsInitialPart(owed[ch[k].id], handlers[ch[k].topic])

\* The buffer is in the order of acceptance.
BufferOrder ==
    \A k, l \in 1..Len(ch) : k < l => ch[k].id < ch[l].id

\* The event in dispatch is older than the buffered ones, and no later event
\* has run anything.
EnvInv ==
    env # NoEnvelope =>
        /\ env.id <= sent
        /\ outcome[env.id] = "queued"
        /\ \A k \in 1..Len(ch) : env.id < ch[k].id
        /\ \A j \in Ids : j > env.id => ran[j] = <<>>

\* Before the handler map is read nothing ran; after it the handlers that ran
\* are those of the batch before next.
BatchInv ==
    /\ dpc = "rlock" => /\ ran[env.id] = <<>>
                        /\ IsInitialPart(owed[env.id], handlers[env.topic])
    /\ dpc = "run" => /\ Len(ran[env.id]) = next - 1
                      /\ \A k \in 1..(next - 1) : ran[env.id][k] = batch[k]
                      /\ IsInitialPart(owed[env.id], batch)

\* Numbers not given out yet have no history, and only queued events run.
HistoryInv ==
    \A i \in Ids :
        /\ i > sent => outcome[i] = "none"
        /\ outcome[i] # "queued" => ran[i] = <<>>

\* An accepted event is in the buffer, in dispatch, or has served everyone
\* it owed.
NothingLost ==
    \A i \in Ids : outcome[i] = "queued" =>
        \/ \E k \in 1..Len(ch) : ch[k].id = i
        \/ env # NoEnvelope /\ env.id = i
        \/ IsInitialPart(owed[i], ran[i])

\* dispatch ends only on a closed and empty channel; Close only after it.
ExitInv ==
    /\ dpc = "exit" => closer # "open" /\ ch = <<>>
    /\ closer = "returned" => dpc = "exit"

IInv == /\ TypeOK
        /\ BufferAccepted
        /\ BufferUnrun
        /\ BufferOwed
        /\ BufferOrder
        /\ EnvInv
        /\ BatchInv
        /\ HistoryInv
        /\ NothingLost
        /\ ExitInv

-----------------------------------------------------------------------------
(* Type correctness *)

LEMMA InitTypeOK == Init => TypeOK
  BY BusAssumption DEF Init, TypeOK, Ids, Outcomes, IsInitialPart

LEMMA TypeOKStep ==
  ASSUME TypeOK, [Next]_vars
  PROVE  TypeOK'
<1> USE BusAssumption, NoEnvelopeAssumption DEF TypeOK, busVars, histVars, Record
<1>1. ASSUME NEW t \in Topics, PublishQueued(t) PROVE TypeOK'
  <2>1. sent + 1 \in Ids
    BY <1>1 DEF PublishQueued, Ids
  <2>2. [id |-> sent + 1, topic |-> t] \in Envelope
    BY <2>1 DEF Envelope
  <2>3. ch' \in Seq(Envelope) /\ Len(ch') <= Capacity
    BY <1>1, <2>2 DEF PublishQueued
  <2>4. outcome' \in [Ids -> Outcomes] /\ owed' \in [Ids -> Seq(Handlers)]
    BY <1>1, <2>1 DEF PublishQueued, Outcomes
  <2>5. QED
    BY <1>1, <2>1, <2>3, <2>4 DEF PublishQueued, Ids
<1>2. CASE PublishDropped
  BY <1>2 DEF PublishDropped, Ids, Outcomes
<1>3. CASE PublishPanics
  BY <1>3 DEF PublishPanics, Ids, Outcomes
<1>4. ASSUME NEW t \in Topics, NEW h \in Handlers, Subscribe(t, h) PROVE TypeOK'
  BY <1>4 DEF Subscribe
<1>5. CASE CloseChannel
  BY <1>5 DEF CloseChannel
<1>6. CASE CloseReturns
  BY <1>6 DEF CloseReturns
<1>7. CASE Receive
  BY <1>7 DEF Receive
<1>8. CASE ReadHandlers
  <2>1. env \in Envelope /\ env.topic \in Topics
    BY <1>8 DEF ReadHandlers, Envelope
  <2>2. batch' \in Seq(Handlers) /\ next' \in 1..(Len(batch') + 1)
    BY <1>8, <2>1 DEF ReadHandlers
  <2>3. QED
    BY <1>8, <2>2 DEF ReadHandlers
<1>9. CASE RunHandler
  <2>1. env.id \in Ids /\ batch[next] \in Handlers
    BY <1>9 DEF RunHandler, Envelope
  <2>2. ran' \in [Ids -> Seq(Handlers)]
    BY <1>9, <2>1 DEF RunHandler
  <2>3. next' \in 1..(Len(batch') + 1)
    BY <1>9 DEF RunHandler
  <2>4. QED
    BY <1>9, <2>2, <2>3 DEF RunHandler
<1>10. CASE FinishEvent
  BY <1>10 DEF FinishEvent
<1>11. CASE DispatchExits
  BY <1>11 DEF DispatchExits
<1>12. CASE UNCHANGED vars
  BY <1>12 DEF vars
<1>13. QED
  BY <1>1, <1>2, <1>3, <1>4, <1>5, <1>6, <1>7, <1>8, <1>9, <1>10, <1>11, <1>12
     DEF Next, Dispatch, Stopped

\* The bus keeps its types, in particular never buffers more than Capacity
\* envelopes and never indexes its handler slice out of range.
THEOREM TypeCorrect == SafeSpec => []TypeOK
<1>1. Init => TypeOK
  BY InitTypeOK
<1>2. TypeOK /\ [Next]_vars => TypeOK'
  BY TypeOKStep
<1>3. QED
  BY <1>1, <1>2, PTL DEF SafeSpec

-----------------------------------------------------------------------------
(* The inductive invariant *)

LEMMA InitIInv == Init => IInv
<1>1. Init => TypeOK
  BY InitTypeOK
<1>2. Init => /\ BufferAccepted /\ BufferUnrun /\ BufferOwed /\ BufferOrder
              /\ EnvInv /\ BatchInv /\ HistoryInv /\ NothingLost /\ ExitInv
  BY DEF Init, BufferAccepted, BufferUnrun, BufferOwed, BufferOrder, EnvInv, BatchInv,
         HistoryInv, NothingLost, ExitInv
<1>3. QED
  BY <1>1, <1>2 DEF IInv

\* What TypeOK says of the numbers and envelopes a step reads.
LEMMA TypeFacts ==
  ASSUME TypeOK
  PROVE  /\ sent \in Nat /\ Len(ch) \in Nat /\ MaxPublishes \in Nat
         /\ \A k \in 1..Len(ch) : /\ ch[k].id \in Ids /\ ch[k].id \in Nat
                                  /\ ch[k].topic \in Topics
         /\ \A i \in Ids : i \in Nat /\ i >= 1 /\ i <= MaxPublishes
         /\ env # NoEnvelope => env.id \in Ids /\ env.topic \in Topics
         /\ env # NoEnvelope <=> dpc \in {"rlock", "run"}
<1>1. sent \in Nat /\ Len(ch) \in Nat /\ MaxPublishes \in Nat
  BY BusAssumption DEF TypeOK
<1>2. \A k \in 1..Len(ch) : ch[k] \in Envelope
  BY DEF TypeOK
<1>3. \A i \in Ids : i \in Nat /\ i >= 1 /\ i <= MaxPublishes
  BY <1>1 DEF Ids
<1>4. QED
  BY <1>1, <1>2, <1>3 DEF TypeOK, Envelope

LEMMA PublishQueuedStep ==
  ASSUME IInv, NEW t \in Topics, PublishQueued(t), TypeOK'
  PROVE  IInv'
<1> DEFINE n == sent + 1
           e == [id |-> n, topic |-> t]
<1>0. TypeOK
  BY DEF IInv
<1>1. /\ sent \in Nat /\ Len(ch) \in Nat /\ n \in Ids /\ n \in Nat
      /\ sent' = n /\ sent < MaxPublishes
      /\ \A i \in Ids : i \in Nat /\ (i > n => i > sent)
      /\ \A k \in 1..Len(ch) : ch[k].id \in Ids /\ ch[k].topic \in Topics /\ ch[k].id <= sent
  BY <1>0, TypeFacts DEF PublishQueued, Record, Ids, IInv, BufferAccepted
<1>2. /\ Len(ch') = Len(ch) + 1
      /\ ch'[Len(ch) + 1] = e
      /\ \A k \in 1..Len(ch) : ch'[k] = ch[k]
      /\ \A k \in 1..Len(ch') : k \in 1..Len(ch) \/ k = Len(ch) + 1
  BY <1>0, <1>1 DEF PublishQueued, TypeOK
<1>3. /\ outcome'[n] = "queued" /\ owed'[n] = handlers[t]
      /\ \A i \in Ids : i # n => outcome'[i] = outcome[i] /\ owed'[i] = owed[i]
      /\ outcome[n] = "none" /\ \A i \in Ids : i >= n => ran[i] = <<>>
  BY <1>0, <1>1 DEF PublishQueued, Record, TypeOK, IInv, HistoryInv
<1>4. UNCHANGED <<handlers, closer, dpc, env, batch, next, ran>>
  BY DEF PublishQueued
<1>5. handlers[t] \in Seq(Handlers) /\ \A s \in Seq(Handlers) : IsInitialPart(s, s)
  BY <1>0 DEF TypeOK, IsInitialPart
<1>6. \A k \in 1..Len(ch) : ch[k].id # n
  BY <1>1
<1>7. BufferAccepted'
  <2> SUFFICES ASSUME NEW k \in 1..Len(ch')
               PROVE  ch'[k].id <= sent' /\ outcome'[ch'[k].id] = "queued"
    BY DEF BufferAccepted
  <2>1. CASE k \in 1..Len(ch)
    BY <1>1, <1>2, <1>3, <1>6, <2>1 DEF IInv, BufferAccepted, Ids
  <2>2. CASE k = Len(ch) + 1
    BY <1>1, <1>2, <1>3, <2>2
  <2>3. QED
    BY <1>2, <2>1, <2>2
<1>8. BufferUnrun'
  <2> SUFFICES ASSUME NEW k \in 1..Len(ch'), NEW j \in Ids, j >= ch'[k].id
               PROVE  ran[j] = <<>>
    BY <1>4 DEF BufferUnrun
  <2>1. CASE k \in 1..Len(ch)
    BY <1>2, <2>1 DEF IInv, BufferUnrun
  <2>2. CASE k = Len(ch) + 1
    BY <1>2, <1>3, <2>2
  <2>3. QED
    BY <1>2, <2>1, <2>2
<1>9. BufferOwed'
  <2> SUFFICES ASSUME NEW k \in 1..Len(ch')
               PROVE  IsInitialPart(owed'[ch'[k].id], handlers[ch'[k].topic])
    BY <1>4 DEF BufferOwed, IsInitialPart
  <2>1. CASE k \in 1..Len(ch)
    BY <1>1, <1>2, <1>3, <1>6, <2>1 DEF IInv, BufferOwed
  <2>2. CASE k = Len(ch) + 1
    BY <1>2, <1>3, <1>5, <2>2
  <2>3. QED
    BY <1>2, <2>1, <2>2
<1>10. BufferOrder'
  <2> SUFFICES ASSUME NEW k \in 1..Len(ch'), NEW l \in 1..Len(ch'), k < l
               PROVE  ch'[k].id < ch'[l].id
    BY DEF BufferOrder
  <2>1. k \in 1..Len(ch) /\ ch[k].id < n /\ ch'[k] = ch[k]
    BY <1>1, <1>2 DEF Ids
  <2>2. CASE l \in 1..Len(ch)
    BY <1>2, <2>1, <2>2 DEF IInv, BufferOrder
  <2>3. CASE l = Len(ch) + 1
    BY <1>2, <2>1, <2>3
  <2>4. QED
    BY <1>2, <2>2, <2>3
<1>11. EnvInv'
  <2> SUFFICES ASSUME env # NoEnvelope
               PROVE  /\ env.id <= sent' /\ outcome'[env.id] = "queued"
                      /\ \A k \in 1..Len(ch') : env.id < ch'[k].id
                      /\ \A j \in Ids : j > env.id => ran[j] = <<>>
    BY <1>4 DEF EnvInv
  <2>1. /\ env.id <= sent /\ env.id \in Ids /\ outcome[env.id] = "queued"
        /\ \A k \in 1..Len(ch) : env.id < ch[k].id
        /\ \A j \in Ids : j > env.id => ran[j] = <<>>
    BY <1>0, TypeFacts DEF IInv, EnvInv
  <2>2. env.id < n /\ env.id <= sent' /\ env.id # n
    BY <1>1, <2>1
  <2>3. \A k \in 1..Len(ch') : env.id < ch'[k].id
    BY <1>2, <2>1, <2>2
  <2>4. QED
    BY <1>3, <2>1, <2>2, <2>3
<1>12. BatchInv'
  <2>1. env # NoEnvelope => owed'[env.id] = owed[env.id]
    BY <1>0, <1>1, <1>3, TypeFacts DEF IInv, EnvInv
  <2>2. dpc \in {"rlock", "run"} => env # NoEnvelope
    BY <1>0, TypeFacts
  <2>3. QED
    BY <1>4, <2>1, <2>2 DEF IInv, BatchInv, IsInitialPart
<1>13. HistoryInv'
  BY <1>1, <1>3, <1>4 DEF IInv, HistoryInv
<1>14. NothingLost'
  <2> SUFFICES ASSUME NEW i \in Ids, outcome'[i] = "queued"
               PROVE  \/ \E k \in 1..Len(ch') : ch'[k].id = i
                      \/ env # NoEnvelope /\ env.id = i
                      \/ IsInitialPart(owed'[i], ran[i])
    BY <1>4 DEF NothingLost, IsInitialPart
  <2>1. CASE i = n
    BY <1>1, <1>2, <2>1
  <2>2. CASE i # n
    <3>1. outcome[i] = "queued" /\ owed'[i] = owed[i]
      BY <1>3, <2>2
    <3>2. (\E k \in 1..Len(ch) : ch[k].id = i) => \E k \in 1..Len(ch') : ch'[k].id = i
      BY <1>1, <1>2
    <3>3. QED
      BY <3>1, <3>2 DEF IInv, NothingLost
  <2>3. QED
    BY <2>1, <2>2
<1>15. ExitInv'
  BY <1>4 DEF PublishQueued, IInv, ExitInv
<1>16. QED
  BY <1>7, <1>8, <1>9, <1>10, <1>11, <1>12, <1>13, <1>14, <1>15 DEF IInv

LEMMA PublishLostStep ==
  ASSUME IInv, PublishDropped \/ PublishPanics, TypeOK'
  PROVE  IInv'
<1> DEFINE n == sent + 1
<1>0. TypeOK
  BY DEF IInv
<1>1. /\ sent' = n /\ sent \in Nat /\ n \in Ids
      /\ \A i \in Ids : i \in Nat /\ i # n => outcome'[i] = outcome[i]
      /\ outcome'[n] # "queued" /\ outcome'[n] # "none" /\ outcome[n] = "none"
      /\ UNCHANGED <<busVars, owed, ran>>
  BY <1>0, TypeFacts
     DEF PublishDropped, PublishPanics, Record, TypeOK, IInv, HistoryInv, Ids
<1>2. UNCHANGED <<handlers, ch, closer, dpc, env, batch, next, owed, ran>>
  BY <1>1 DEF busVars
<1>3. BufferAccepted'
  BY <1>0, <1>1, <1>2, TypeFacts DEF IInv, BufferAccepted
<1>4. BufferUnrun' /\ BufferOwed' /\ BufferOrder' /\ BatchInv' /\ ExitInv'
  BY <1>2 DEF IInv, BufferUnrun, BufferOwed, BufferOrder, BatchInv, ExitInv, IsInitialPart
<1>5. EnvInv'
  BY <1>0, <1>1, <1>2, TypeFacts DEF IInv, EnvInv
<1>6. HistoryInv'
  <2>1. \A i \in Ids : i > n => i > sent /\ i # n
    BY <1>1, <1>0, TypeFacts
  <2>2. ran[n] = <<>>
    BY <1>1 DEF IInv, HistoryInv
  <2>3. QED
    BY <1>0, <1>1, <1>2, <2>1, <2>2, TypeFacts DEF IInv, HistoryInv
<1>7. NothingLost'
  BY <1>0, <1>1, <1>2, TypeFacts DEF IInv, NothingLost, IsInitialPart
<1>8. QED
  BY <1>3, <1>4, <1>5, <1>6, <1>7 DEF IInv

LEMMA SubscribeStep ==
  ASSUME IInv, NEW t \in Topics, NEW h \in Handlers, Subscribe(t, h), TypeOK'
  PROVE  IInv'
<1>0. TypeOK
  BY DEF IInv
<1>1. UNCHANGED <<ch, closer, dpc, env, batch, next, sent, outcome, owed, ran>>
  BY DEF Subscribe, histVars
<1>2. \A u \in Topics : \A s \in Seq(Handlers) :
        IsInitialPart(s, handlers[u]) => IsInitialPart(s, handlers'[u])
  BY <1>0 DEF Subscribe, TypeOK, IsInitialPart
<1>3. \A i \in Ids : owed[i] \in Seq(Handlers)
  BY <1>0 DEF TypeOK
<1>4. BufferOwed'
  BY <1>0, <1>1, <1>2, <1>3, TypeFacts DEF IInv, BufferOwed
<1>5. BatchInv'
  <2>1. dpc = "rlock" => IsInitialPart(owed[env.id], handlers'[env.topic])
    BY <1>0, <1>2, <1>3, TypeFacts DEF IInv, BatchInv
  <2>2. QED
    BY <1>1, <2>1 DEF IInv, BatchInv, IsInitialPart
<1>6. /\ BufferAccepted' /\ BufferUnrun' /\ BufferOrder' /\ EnvInv'
      /\ HistoryInv' /\ NothingLost' /\ ExitInv'
  BY <1>1 DEF IInv, BufferAccepted, BufferUnrun, BufferOrder, EnvInv, HistoryInv,
              NothingLost, ExitInv, IsInitialPart
<1>7. QED
  BY <1>4, <1>5, <1>6 DEF IInv

LEMMA CloseStep ==
  ASSUME IInv, CloseChannel \/ CloseReturns \/ DispatchExits, TypeOK'
  PROVE  IInv'
<1>1. UNCHANGED <<handlers, ch, env, batch, next, sent, outcome, owed, ran>>
  BY DEF CloseChannel, CloseReturns, DispatchExits, histVars
<1>2. BatchInv'
  <2>1. dpc' \in {"rlock", "run"} => dpc' = dpc
    BY DEF CloseChannel, CloseReturns, DispatchExits
  <2>2. QED
    BY <1>1, <2>1 DEF IInv, BatchInv, IsInitialPart
<1>3. ExitInv'
  BY DEF CloseChannel, CloseReturns, DispatchExits, IInv, ExitInv
<1>4. /\ BufferAccepted' /\ BufferUnrun' /\ BufferOwed' /\ BufferOrder' /\ EnvInv'
      /\ HistoryInv' /\ NothingLost'
  BY <1>1 DEF IInv, BufferAccepted, BufferUnrun, BufferOwed, BufferOrder, EnvInv,
              HistoryInv, NothingLost, IsInitialPart
<1>5. QED
  BY <1>2, <1>3, <1>4 DEF IInv

LEMMA ReceiveStep ==
  ASSUME IInv, Receive, TypeOK'
  PROVE  IInv'
<1>0. TypeOK
  BY DEF IInv
<1>1. UNCHANGED <<handlers, closer, batch, next, sent, outcome, owed, ran>>
  BY DEF Receive, histVars
<1>2. /\ env = NoEnvelope /\ env' = ch[1] /\ env' # NoEnvelope
      /\ dpc = "recv" /\ dpc' = "rlock"
  BY <1>0, NoEnvelopeAssumption DEF Receive, TypeOK
<1>3. /\ Len(ch) \in Nat \ {0} /\ Len(ch') = Len(ch) - 1
      /\ \A k \in 1..Len(ch') : ch'[k] = ch[k + 1]
  BY <1>0 DEF Receive, TypeOK
<1>4. /\ 1 \in 1..Len(ch)
      /\ \A k \in 1..Len(ch') : k \in Nat /\ k + 1 \in 1..Len(ch) /\ 1 < k + 1
  BY <1>3
<1>5. /\ ch[1].id \in Ids /\ \A i \in Ids : i \in Nat
      /\ ch[1].id <= sent /\ outcome[ch[1].id] = "queued"
      /\ \A j \in Ids : j >= ch[1].id => ran[j] = <<>>
      /\ IsInitialPart(owed[ch[1].id], handlers[ch[1].topic])
  BY <1>0, <1>4, TypeFacts DEF IInv, BufferAccepted, BufferUnrun, BufferOwed
<1>6. BufferAccepted' /\ BufferUnrun' /\ BufferOwed'
  <2>1. BufferAccepted'
    BY <1>1, <1>3, <1>4 DEF IInv, BufferAccepted
  <2>2. BufferUnrun'
    BY <1>1, <1>3, <1>4 DEF IInv, BufferUnrun
  <2>3. BufferOwed'
    <3> SUFFICES ASSUME NEW k \in 1..Len(ch')
                 PROVE  IsInitialPart(owed[ch'[k].id], handlers[ch'[k].topic])
      BY <1>1 DEF BufferOwed, IsInitialPart
    <3>1. QED
      BY <1>3, <1>4 DEF IInv, BufferOwed
  <2>4. QED
    BY <2>1, <2>2, <2>3
<1>7. BufferOrder'
  <2> SUFFICES ASSUME NEW k \in 1..Len(ch'), NEW l \in 1..Len(ch'), k < l
               PROVE  ch'[k].id < ch'[l].id
    BY DEF BufferOrder
  <2>1. k + 1 < l + 1
    BY <1>4
  <2>2. QED
    BY <1>3, <1>4, <2>1 DEF IInv, BufferOrder
<1>8. EnvInv'
  <2>1. \A k \in 1..Len(ch') : env'.id < ch'[k].id
    BY <1>2, <1>3, <1>4 DEF IInv, BufferOrder
  <2>2. QED
    BY <1>1, <1>2, <1>5, <2>1 DEF EnvInv
<1>9. BatchInv'
  BY <1>1, <1>2, <1>5 DEF BatchInv, IsInitialPart
<1>10. NothingLost'
  <2> SUFFICES ASSUME NEW i \in Ids, outcome[i] = "queued",
                      ~ IsInitialPart(owed[i], ran[i])
               PROVE  (\E k \in 1..Len(ch') : ch'[k].id = i) \/ env'.id = i
    BY <1>1, <1>2 DEF NothingLost, IsInitialPart
  <2>1. PICK k \in 1..Len(ch) : ch[k].id = i
    BY <1>2 DEF IInv, NothingLost
  <2>2. CASE k = 1
    BY <1>2, <2>1, <2>2
  <2>3. CASE k # 1
    <3>1. k - 1 \in 1..Len(ch') /\ (k - 1) + 1 = k
      BY <1>3, <2>3
    <3>2. ch'[k - 1] = ch[k]
      BY <1>3, <3>1
    <3>3. QED
      BY <2>1, <3>1, <3>2
  <2>4. QED
    BY <2>2, <2>3
<1>11. HistoryInv' /\ ExitInv'
  BY <1>1, <1>2 DEF Receive, IInv, HistoryInv, ExitInv
<1>12. QED
  BY <1>6, <1>7, <1>8, <1>9, <1>10, <1>11 DEF IInv

LEMMA ReadHandlersStep ==
  ASSUME IInv, ReadHandlers, TypeOK'
  PROVE  IInv'
<1>1. UNCHANGED <<handlers, ch, closer, env, sent, outcome, owed, ran>>
  BY DEF ReadHandlers, histVars
<1>2. BatchInv'
  <2>1. /\ dpc = "rlock" /\ dpc' = "run" /\ next' = 1 /\ batch' = handlers[env.topic]
        /\ ran[env.id] = <<>> /\ IsInitialPart(owed[env.id], handlers[env.topic])
    BY DEF ReadHandlers, IInv, BatchInv
  <2>2. QED
    BY <1>1, <2>1 DEF BatchInv, IsInitialPart
<1>3. /\ BufferAccepted' /\ BufferUnrun' /\ BufferOwed' /\ BufferOrder' /\ EnvInv'
      /\ HistoryInv' /\ NothingLost'
  BY <1>1 DEF IInv, BufferAccepted, BufferUnrun, BufferOwed, BufferOrder, EnvInv,
              HistoryInv, NothingLost, IsInitialPart
<1>4. ExitInv'
  BY <1>1 DEF ReadHandlers, IInv, ExitInv
<1>5. QED
  BY <1>2, <1>3, <1>4 DEF IInv

LEMMA RunHandlerStep ==
  ASSUME IInv, RunHandler, TypeOK'
  PROVE  IInv'
<1>0. TypeOK
  BY DEF IInv
<1>1. UNCHANGED <<handlers, ch, closer, dpc, env, batch, sent, outcome, owed>>
  BY DEF RunHandler
<1>2. /\ env # NoEnvelope /\ env.id \in Ids /\ dpc = "run"
      /\ outcome[env.id] = "queued"
      /\ \A j \in Ids : j \in Nat
      /\ \A k \in 1..Len(ch) : env.id < ch[k].id /\ ch[k].id \in Nat
  BY <1>0, TypeFacts DEF RunHandler, IInv, EnvInv
<1>3. /\ ran[env.id] \in Seq(Handlers) /\ Len(ran[env.id]) = next - 1
      /\ next \in Nat \ {0} /\ next <= Len(batch) /\ next' = next + 1
      /\ \A k \in 1..(next - 1) : ran[env.id][k] = batch[k]
      /\ ran'[env.id] = Append(ran[env.id], batch[next])
  BY <1>0, <1>2 DEF RunHandler, TypeOK, IInv, BatchInv
<1>4. \A j \in Ids : j # env.id => ran'[j] = ran[j]
  BY <1>0, <1>2 DEF RunHandler, TypeOK
<1>5. /\ Len(ran'[env.id]) = next
      /\ \A k \in 1..next : ran'[env.id][k] = batch[k]
  BY <1>3
<1>6. BufferUnrun'
  BY <1>1, <1>2, <1>4 DEF IInv, BufferUnrun
<1>7. EnvInv'
  BY <1>1, <1>2, <1>4 DEF IInv, EnvInv
<1>8. BatchInv'
  <2>1. next = next' - 1
    BY <1>3
  <2>2. QED
    BY <1>1, <1>2, <1>5, <2>1 DEF IInv, BatchInv, IsInitialPart
<1>9. HistoryInv'
  BY <1>1, <1>2, <1>4 DEF IInv, HistoryInv
<1>10. NothingLost'
  BY <1>1, <1>2, <1>4 DEF IInv, NothingLost, IsInitialPart
<1>11. BufferAccepted' /\ BufferOwed' /\ BufferOrder' /\ ExitInv'
  BY <1>1 DEF IInv, BufferAccepted, BufferOwed, BufferOrder, ExitInv, IsInitialPart
<1>12. QED
  BY <1>6, <1>7, <1>8, <1>9, <1>10, <1>11 DEF IInv

LEMMA FinishEventStep ==
  ASSUME IInv, FinishEvent, TypeOK'
  PROVE  IInv'
<1>0. TypeOK
  BY DEF IInv
<1>1. UNCHANGED <<handlers, ch, closer, sent, outcome, owed, ran>>
  BY DEF FinishEvent, histVars
<1>2. IsInitialPart(owed[env.id], ran[env.id])
  <2>1. /\ next = Len(batch) + 1 /\ Len(batch) \in Nat
        /\ Len(ran[env.id]) = next - 1
        /\ \A k \in 1..(next - 1) : ran[env.id][k] = batch[k]
        /\ IsInitialPart(owed[env.id], batch)
    BY <1>0 DEF FinishEvent, TypeOK, IInv, BatchInv
  <2>2. env.id \in Ids
    BY <1>0, TypeFacts DEF FinishEvent
  <2>3. owed[env.id] \in Seq(Handlers)
    BY <1>0, <2>2 DEF TypeOK
  <2>4. QED
    BY <2>1, <2>3 DEF IsInitialPart
<1>3. NothingLost'
  BY <1>1, <1>2 DEF FinishEvent, IInv, NothingLost, IsInitialPart
<1>4. EnvInv' /\ BatchInv'
  BY DEF FinishEvent, EnvInv, BatchInv
<1>7. ExitInv'
  BY <1>1 DEF FinishEvent, IInv, ExitInv
<1>5. BufferAccepted' /\ BufferUnrun' /\ BufferOwed' /\ BufferOrder' /\ HistoryInv'
  BY <1>1 DEF IInv, BufferAccepted, BufferUnrun, BufferOwed, BufferOrder, HistoryInv,
              IsInitialPart
<1>6. QED
  BY <1>3, <1>4, <1>5, <1>7 DEF IInv

LEMMA IInvStep ==
  ASSUME IInv, [Next]_vars
  PROVE  IInv'
<1>0. TypeOK'
  BY TypeOKStep DEF IInv
<1>1. CASE UNCHANGED vars
  BY <1>0, <1>1 DEF vars, busVars, histVars, IInv, BufferAccepted, BufferUnrun, BufferOwed,
     BufferOrder, EnvInv, BatchInv, HistoryInv, NothingLost, ExitInv, IsInitialPart
<1>2. CASE Next
  BY <1>0, <1>1, <1>2, PublishQueuedStep, PublishLostStep, SubscribeStep, CloseStep,
     ReceiveStep, ReadHandlersStep, RunHandlerStep, FinishEventStep
     DEF Next, Dispatch, Stopped
<1>3. QED
  BY <1>1, <1>2

LEMMA IInvCorrect == SafeSpec => []IInv
<1>1. Init => IInv
  BY InitIInv
<1>2. IInv /\ [Next]_vars => IInv'
  BY IInvStep
<1>3. QED
  BY <1>1, <1>2, PTL DEF SafeSpec

-----------------------------------------------------------------------------
(* The safety properties of the bus follow from the invariant *)

\* The entries of InFlight are the envelope in dispatch and the buffered ones.
LEMMA InFlightEntries ==
  ASSUME TypeOK
  PROVE  /\ env = NoEnvelope => InFlight = ch
         /\ env # NoEnvelope =>
              /\ Len(InFlight) = Len(ch) + 1
              /\ InFlight[1] = env
              /\ \A k \in 2..(Len(ch) + 1) : InFlight[k] = ch[k - 1]
<1>1. ch \in Seq(Envelope)
  BY DEF TypeOK
<1>2. CASE env = NoEnvelope
  BY <1>1, <1>2 DEF InFlight
<1>3. CASE env # NoEnvelope
  <2>1. env \in Envelope
    BY <1>3 DEF TypeOK
  <2>2. InFlight = <<env>> \o ch
    BY <1>3 DEF InFlight
  <2>3. <<env>> \in Seq(Envelope) /\ Len(<<env>>) = 1
    BY <2>1
  <2>4. QED
    BY <1>1, <1>3, <2>2, <2>3
<1>4. QED
  BY <1>2, <1>3

\* An event number is in flight iff it is in dispatch or in the buffer.
LEMMA InFlightIdsSplit ==
  ASSUME TypeOK, NEW i
  PROVE  i \in InFlightIds <=> \/ env # NoEnvelope /\ env.id = i
                               \/ \E k \in 1..Len(ch) : ch[k].id = i
<1>0. Len(ch) \in Nat
  BY TypeFacts
<1>1. CASE env = NoEnvelope
  BY <1>1, InFlightEntries DEF InFlightIds
<1>2. CASE env # NoEnvelope
  <2>1. /\ Len(InFlight) = Len(ch) + 1
        /\ InFlight[1] = env
        /\ \A k \in 2..(Len(ch) + 1) : InFlight[k] = ch[k - 1]
    BY <1>2, InFlightEntries
  <2>2. \A k \in 1..Len(ch) : k + 1 \in 1..Len(InFlight) /\ InFlight[k + 1] = ch[k]
    <3> SUFFICES ASSUME NEW k \in 1..Len(ch)
                 PROVE  k + 1 \in 1..Len(InFlight) /\ InFlight[k + 1] = ch[k]
      OBVIOUS
    <3>1. k + 1 \in 2..(Len(ch) + 1) /\ (k + 1) - 1 = k
      BY <1>0
    <3>2. QED
      BY <1>0, <2>1, <3>1
  <2>3. \A k \in 1..Len(InFlight) : k = 1 \/ (k - 1 \in 1..Len(ch) /\ InFlight[k] = ch[k - 1])
    BY <1>0, <2>1
  <2>4. 1 \in 1..Len(InFlight)
    BY <1>0, <2>1
  <2>5. QED
    BY <1>2, <2>1, <2>2, <2>3, <2>4 DEF InFlightIds
<1>3. QED
  BY <1>1, <1>2

\* Events reach the handlers in the order Publish accepted them.
THEOREM FIFOCorrect == SafeSpec => []FIFO
<1>1. ASSUME IInv PROVE FIFO
  <2>0. TypeOK
    BY <1>1 DEF IInv
  <2>1. \A k, l \in 1..Len(InFlight) : k < l => InFlight[k].id < InFlight[l].id
    <3>1. CASE env = NoEnvelope
      BY <1>1, <2>0, <3>1, InFlightEntries DEF IInv, BufferOrder
    <3>2. CASE env # NoEnvelope
      <4> SUFFICES ASSUME NEW k \in 1..Len(InFlight), NEW l \in 1..Len(InFlight), k < l
                   PROVE  InFlight[k].id < InFlight[l].id
        OBVIOUS
      <4>1. /\ Len(ch) \in Nat /\ Len(InFlight) = Len(ch) + 1 /\ InFlight[1] = env
            /\ \A m \in 2..(Len(ch) + 1) : InFlight[m] = ch[m - 1]
        BY <2>0, <3>2, InFlightEntries, TypeFacts
      <4>2. l - 1 \in 1..Len(ch) /\ InFlight[l] = ch[l - 1]
        BY <4>1
      <4>3. CASE k = 1
        BY <1>1, <3>2, <4>1, <4>2, <4>3 DEF IInv, EnvInv
      <4>4. CASE k # 1
        <5>1. k - 1 \in 1..Len(ch) /\ InFlight[k] = ch[k - 1] /\ k - 1 < l - 1
          BY <4>1, <4>4
        <5>2. QED
          BY <1>1, <4>2, <5>1 DEF IInv, BufferOrder
      <4>5. QED
        BY <4>3, <4>4
    <3>3. QED
      BY <3>1, <3>2
  <2>2. \A i \in InFlightIds, j \in Ids : j > i => ran[j] = <<>>
    <3> SUFFICES ASSUME NEW i \in InFlightIds, NEW j \in Ids, j > i
                 PROVE  ran[j] = <<>>
      OBVIOUS
    <3>1. CASE env # NoEnvelope /\ env.id = i
      BY <1>1, <3>1 DEF IInv, EnvInv
    <3>2. CASE \E k \in 1..Len(ch) : ch[k].id = i
      BY <1>1, <2>0, <3>2, TypeFacts DEF IInv, BufferUnrun
    <3>3. QED
      BY <2>0, <3>1, <3>2, InFlightIdsSplit
  <2>3. QED
    BY <2>1, <2>2 DEF FIFO
<1>2. QED
  BY <1>1, IInvCorrect, PTL

\* Every handler subscribed before an event was accepted runs for it.
THEOREM NoSubscriberMissedCorrect == SafeSpec => []NoSubscriberMissed
<1>1. ASSUME IInv PROVE NoSubscriberMissed
  <2>0. TypeOK
    BY <1>1 DEF IInv
  <2>1. QED
    BY <1>1, <2>0, InFlightIdsSplit DEF IInv, NothingLost, NoSubscriberMissed, Finished
<1>2. QED
  BY <1>1, IInvCorrect, PTL

\* A dropped event, or one published on a closed bus, never runs a handler.
THEOREM LostEventsStayLostCorrect == SafeSpec => []LostEventsStayLost
<1>1. IInv => LostEventsStayLost
  BY DEF IInv, HistoryInv, LostEventsStayLost
<1>2. QED
  BY <1>1, IInvCorrect, PTL

\* Close returns only after every accepted event has been handled.
THEOREM CloseDrainsCorrect == SafeSpec => []CloseDrains
<1>1. ASSUME IInv PROVE CloseDrains
  <2>0. TypeOK
    BY <1>1 DEF IInv
  <2>1. closer = "returned" => ch = <<>> /\ env = NoEnvelope
    BY <1>1, <2>0, TypeFacts DEF IInv, ExitInv
  <2>2. QED
    BY <2>0, <2>1, InFlightIdsSplit DEF CloseDrains, Finished
<1>2. QED
  BY <1>1, IInvCorrect, PTL

\* Nothing is accepted and no handler runs after Close has returned.
THEOREM QuietAfterCloseCorrect == SafeSpec => QuietAfterClose
<1>1. IInv /\ [Next]_vars => [closer = "returned" => UNCHANGED <<ran, ch>>]_vars
  BY DEF IInv, ExitInv, Next, Dispatch, Stopped, PublishQueued, PublishDropped, PublishPanics,
         Subscribe, CloseChannel, CloseReturns, Receive, ReadHandlers, RunHandler,
         FinishEvent, DispatchExits, vars, busVars, histVars
<1>2. QED
  BY <1>1, IInvCorrect, PTL DEF SafeSpec, QuietAfterClose

-----------------------------------------------------------------------------
(* Every behaviour of the bus is one of EventDelivery, fairness aside *)

\* A finished or unfinished batch shows in Received as its whole batch.
LEMMA BatchComplete ==
  ASSUME IInv, dpc = "run", next > Len(batch)
  PROVE  ran[env.id] = batch
<1>1. /\ env.id \in Ids /\ ran[env.id] \in Seq(Handlers) /\ batch \in Seq(Handlers)
      /\ next = Len(batch) + 1 /\ Len(batch) \in Nat
  BY TypeFacts DEF IInv, TypeOK
<1>2. Len(ran[env.id]) = Len(batch) /\ \A k \in 1..Len(batch) : ran[env.id][k] = batch[k]
  BY <1>1 DEF IInv, BatchInv
<1>3. QED
  BY <1>1, <1>2

LEMMA UndeliveredType ==
  ASSUME TypeOK
  PROVE  /\ Undelivered \in Seq(Envelope)
         /\ dpc # "rlock" => Undelivered = ch
         /\ dpc = "rlock" => /\ env \in Envelope
                             /\ Undelivered = <<env>> \o ch
                             /\ Len(Undelivered) = Len(ch) + 1
                             /\ Undelivered # <<>>
                             /\ Head(Undelivered) = env
                             /\ Tail(Undelivered) = ch
         /\ Len(ch) <= Len(Undelivered) /\ Len(Undelivered) <= Len(ch) + 1
<1>1. ch \in Seq(Envelope) /\ (dpc = "rlock" => env \in Envelope)
  BY DEF TypeOK
<1>2. CASE dpc = "rlock"
  <2>1. Undelivered = <<env>> \o ch /\ <<env>> \in Seq(Envelope)
    BY <1>1, <1>2 DEF Undelivered
  <2>2. QED
    BY <1>1, <1>2, <2>1
<1>3. CASE dpc # "rlock"
  <2>1. Undelivered = ch
    BY <1>1, <1>3 DEF Undelivered
  <2>2. QED
    BY <1>1, <1>3, <2>1
<1>4. QED
  BY <1>2, <1>3

LEMMA RefinementStep ==
  ASSUME IInv, [Next]_vars
  PROVE  [Delivery!Next]_(Delivery!vars)
<1>0. TypeOK /\ TypeOK'
  BY TypeOKStep DEF IInv
<1> DEFINE stutter == /\ UNCHANGED <<handlers, sent, closer = "open">>
                      /\ Undelivered' = Undelivered
                      /\ Received' = Received
<1>1. stutter => UNCHANGED Delivery!vars
  BY DEF Delivery!vars
<1> HIDE DEF stutter
<1>2. ASSUME NEW t \in Topics, PublishQueued(t) PROVE Delivery!Accept(t)
  <2>1. UNCHANGED <<handlers, closer, dpc, env, batch, ran>>
    BY <1>2 DEF PublishQueued
  <2>2. Len(Undelivered) <= Capacity
    BY <1>0, <1>2, BusAssumption, UndeliveredType DEF PublishQueued, TypeOK
  <2>3. Undelivered' = Append(Undelivered, [id |-> sent + 1, topic |-> t])
    <3>1. ch \in Seq(Envelope) /\ ch' = Append(ch, [id |-> sent + 1, topic |-> t])
      BY <1>0, <1>2 DEF PublishQueued, TypeOK
    <3>2. [id |-> sent + 1, topic |-> t] \in Envelope
      BY <1>0, <1>2 DEF PublishQueued, Record, TypeOK, Envelope, Ids
    <3>3. CASE dpc = "rlock"
      <4>1. <<env>> \in Seq(Envelope)
        BY <1>0, <3>3 DEF TypeOK
      <4>2. Undelivered' = <<env>> \o ch' /\ Undelivered = <<env>> \o ch
        BY <2>1, <3>3 DEF Undelivered
      <4>3. QED
        BY <3>1, <3>2, <4>1, <4>2
    <3>4. CASE dpc # "rlock"
      <4>1. Undelivered' = ch' /\ Undelivered = ch
        BY <1>0, <2>1, <3>1, <3>2, <3>4 DEF Undelivered, TypeOK
      <4>2. QED
        BY <3>1, <4>1
    <3>5. QED
      BY <3>3, <3>4
  <2>4. Received' = Received
    BY <2>1 DEF Received
  <2>5. QED
    BY <1>2, <2>1, <2>2, <2>3, <2>4 DEF PublishQueued, Record, Delivery!Accept
<1>3. ASSUME PublishDropped \/ PublishPanics PROVE Delivery!Refuse
  <2>1. UNCHANGED <<handlers, ch, closer, dpc, env, batch, ran>>
    BY <1>3 DEF PublishDropped, PublishPanics, busVars
  <2>2. Undelivered' = Undelivered /\ Received' = Received
    BY <2>1 DEF Undelivered, Received
  <2>3. closer = "open" => Len(Undelivered) >= Capacity
    BY <1>0, <1>3, BusAssumption, UndeliveredType DEF PublishDropped, PublishPanics, TypeOK
  <2>4. QED
    BY <1>3, <2>1, <2>2, <2>3
       DEF PublishDropped, PublishPanics, Record, Delivery!Refuse
<1>4. ASSUME NEW t \in Topics, NEW h \in Handlers, Subscribe(t, h)
      PROVE  Delivery!Subscribe(t, h)
  <2>1. UNCHANGED <<ch, closer, dpc, env, batch, sent, ran>>
    BY <1>4 DEF Subscribe, histVars
  <2>2. Undelivered' = Undelivered /\ Received' = Received
    BY <2>1 DEF Undelivered, Received
  <2>3. QED
    BY <1>4, <2>1, <2>2 DEF Subscribe, Delivery!Subscribe
<1>5. ASSUME CloseChannel PROVE Delivery!Close
  <2>1. UNCHANGED <<handlers, ch, dpc, env, batch, sent, ran>>
    BY <1>5 DEF CloseChannel, histVars
  <2>2. Undelivered' = Undelivered /\ Received' = Received
    BY <2>1 DEF Undelivered, Received
  <2>3. closer = "open" /\ closer' # "open"
    BY <1>5 DEF CloseChannel
  <2>4. QED
    BY <2>1, <2>2, <2>3 DEF Delivery!Close
<1>6. ASSUME CloseReturns \/ DispatchExits PROVE stutter
  <2>1. /\ UNCHANGED <<handlers, ch, env, batch, sent, ran>>
        /\ closer = "open" <=> closer' = "open"
        /\ dpc # "rlock" /\ dpc' # "rlock" /\ dpc # "run" /\ dpc' # "run"
    BY <1>6 DEF CloseReturns, DispatchExits, histVars
  <2>2. Undelivered' = Undelivered /\ Received' = Received
    BY <2>1 DEF Undelivered, Received
  <2>3. QED
    BY <2>1, <2>2 DEF stutter
<1>7. ASSUME Receive PROVE stutter
  <2>1. /\ UNCHANGED <<handlers, closer, sent, ran>>
        /\ dpc = "recv" /\ dpc' = "rlock"
        /\ ch \in Seq(Envelope) /\ ch # <<>>
        /\ env' = Head(ch) /\ ch' = Tail(ch)
    BY <1>0, <1>7 DEF Receive, histVars, TypeOK
  <2>2. Undelivered = ch
    BY <1>0, <2>1, UndeliveredType
  <2>3. Undelivered' = <<Head(ch)>> \o Tail(ch)
    BY <2>1 DEF Undelivered
  <2>4. Undelivered' = Undelivered
    BY <2>1, <2>2, <2>3
  <2>5. Received' = Received
    BY <2>1 DEF Received
  <2>6. QED
    BY <2>1, <2>4, <2>5 DEF stutter
<1>8. ASSUME ReadHandlers PROVE Delivery!Deliver
  <2>1. /\ UNCHANGED <<handlers, ch, closer, env, sent, ran>>
        /\ dpc = "rlock" /\ dpc' = "run" /\ batch' = handlers[env.topic]
    BY <1>8 DEF ReadHandlers, histVars
  <2>2. Undelivered # <<>> /\ Head(Undelivered) = env /\ Tail(Undelivered) = ch
    BY <1>0, <2>1, UndeliveredType
  <2>3. Undelivered' = ch
    BY <1>0, <2>1, UndeliveredType DEF Undelivered, TypeOK
  <2>4. Received = ran /\ Received' = [ran EXCEPT ![env.id] = handlers[env.topic]]
    BY <2>1 DEF Received
  <2>5. QED
    BY <2>1, <2>2, <2>3, <2>4 DEF Delivery!Deliver
<1>9. ASSUME RunHandler PROVE stutter
  <2>1. /\ UNCHANGED <<handlers, ch, closer, dpc, env, batch, sent>>
        /\ dpc = "run" /\ env.id \in Ids /\ ran \in [Ids -> Seq(Handlers)]
        /\ ran' = [ran EXCEPT ![env.id] = Append(@, batch[next])]
    BY <1>0, <1>9, TypeFacts DEF RunHandler, TypeOK
  <2>2. [ran' EXCEPT ![env.id] = batch] = [ran EXCEPT ![env.id] = batch]
    BY <2>1
  <2>3. Undelivered' = Undelivered /\ Received' = Received
    BY <2>1, <2>2 DEF Undelivered, Received
  <2>4. QED
    BY <2>1, <2>3 DEF stutter
<1>10. ASSUME FinishEvent PROVE stutter
  <2>1. /\ UNCHANGED <<handlers, ch, closer, sent, ran>>
        /\ dpc = "run" /\ dpc' = "recv" /\ next > Len(batch)
    BY <1>10 DEF FinishEvent, histVars
  <2>2. /\ ran[env.id] = batch /\ env.id \in Ids
        /\ ran \in [Ids -> Seq(Handlers)]
    BY <1>0, <2>1, BatchComplete, TypeFacts DEF TypeOK
  <2>3. Received' = ran /\ Received = [ran EXCEPT ![env.id] = batch]
    BY <2>1 DEF Received
  <2>4. Received' = Received
    BY <2>2, <2>3
  <2>5. Undelivered' = Undelivered
    BY <2>1 DEF Undelivered
  <2>6. QED
    BY <2>1, <2>4, <2>5 DEF stutter
<1>11. ASSUME UNCHANGED vars PROVE stutter
  <2>1. UNCHANGED <<handlers, ch, closer, dpc, env, batch, sent, ran>>
    BY <1>11 DEF vars, busVars, histVars
  <2>2. QED
    BY <2>1 DEF stutter, Undelivered, Received
<1>12. QED
  BY <1>1, <1>2, <1>3, <1>4, <1>5, <1>6, <1>7, <1>8, <1>9, <1>10, <1>11
     DEF Next, Dispatch, Stopped, Delivery!Next

\* InProcessBus implements EventDelivery: its initial state is one of
\* EventDelivery and each of its steps is a step of it or changes nothing.
THEOREM Refinement == SafeSpec => Delivery!SafeSpec
<1>1. Init => Delivery!Init
  <2>1. Init => Undelivered = <<>> /\ Received = [i \in Ids |-> <<>>]
    BY DEF Init, Undelivered, Received
  <2>2. QED
    BY <2>1 DEF Init, Delivery!Init, Ids, Delivery!Ids
<1>2. IInv /\ [Next]_vars => [Delivery!Next]_(Delivery!vars)
  BY RefinementStep
<1>3. QED
  BY <1>1, <1>2, IInvCorrect, PTL DEF SafeSpec, Delivery!SafeSpec
=============================================================================
