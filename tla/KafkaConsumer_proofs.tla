------------------------ MODULE KafkaConsumer_proofs ------------------------
(***************************************************************************)
(* Theorems about KafkaConsumer for any number of partitions, handlers,    *)
(* messages and processes, with Start before or after Subscribe.           *)
(***************************************************************************)
EXTENDS KafkaConsumer, TLAPS

(***************************************************************************)
(* The inductive invariant.                                                *)
(***************************************************************************)

\* There is a goroutine that may still fetch.
Live == loop \in {"fetch", "run", "commit"}

\* The runs of the message in hand that are still to come.
Ahead(p, o, h) == loop = "run" /\ p = part /\ o = off /\ h >= next

\* A process that has not called Start has run nothing yet, and a goroutine was
\* given all handlers.
StartInv ==
    /\ (phase = "boot" /\ ~started) =>
         /\ loop = "none"
         /\ StartFirst => handlers = 0
         /\ \A run \in Runs : tried[run] < session
    /\ Live => copied = NumHandlers

\* The group's offset, the message in hand, the reader and the end of the
\* partition follow each other.
PosInv ==
    /\ \A p \in Partitions : committed[p] <= Len(log[p])
    /\ Live => \A p \in Partitions :
                 committed[p] <= pos[p] /\ pos[p] <= Len(log[p])
    /\ loop \in {"run", "commit"} => pos[part] = off + 1 /\ committed[part] <= off
    /\ loop = "run" => Readable(part, off) /\ next <= NumHandlers

\* Only what was published has been tried.
TriedLog ==
    \A p \in Partitions, o \in Offsets, h \in HandlerIds :
        tried[<<p, o, h>>] > 0 => o < Len(log[p])

\* What the reader has passed was tried, what is ahead is left to come.
TriedBelow ==
    Live => \A p \in Partitions, o \in Offsets, h \in HandlerIds :
              (o < pos[p] /\ Readable(p, o) /\ ~Ahead(p, o, h))
                  => tried[<<p, o, h>>] > 0

\* This process has not yet run what is ahead of the reader.
FreshInv ==
    Live => \A p \in Partitions, o \in Offsets, h \in HandlerIds :
              (o >= pos[p] \/ Ahead(p, o, h)) => tried[<<p, o, h>>] < session

IInv == /\ TypeOK
        /\ StartInv
        /\ PosInv
        /\ TriedLog
        /\ TriedBelow
        /\ FreshInv
        /\ NothingSkipped
        /\ TriedInOrder
        /\ OncePerProcess

-----------------------------------------------------------------------------
(* The initial states and the types *)

\* What TypeOK says of single values, in terms of Nat.
LEMMA Types ==
  ASSUME TypeOK
  PROVE  /\ \A p \in Partitions : /\ log[p] \in Seq(Kinds)
                                  /\ Len(log[p]) \in Nat
                                  /\ Len(log[p]) <= MaxLog
         /\ \A p \in Partitions : /\ committed[p] \in Nat /\ committed[p] <= MaxLog
                                  /\ pos[p] \in Nat /\ pos[p] <= MaxLog
         /\ \A o \in Offsets : o \in Nat /\ o < MaxLog
         /\ \A h \in HandlerIds : h \in Nat /\ 1 <= h /\ h <= NumHandlers
         /\ session \in Nat /\ part \in Partitions /\ off \in Nat
         /\ next \in Nat /\ next >= 1
<1> USE ConsumerAssumption
<1>1. \A p \in Partitions : log[p] \in Seq(Kinds) /\ Len(log[p]) <= MaxLog
  BY DEF TypeOK
<1>2. ASSUME NEW p \in Partitions PROVE Len(log[p]) \in Nat
  <2>1. log[p] \in Seq(Kinds)
    BY <1>1
  <2>2. QED
    BY <2>1
<1>3. \A p \in Partitions : committed[p] \in 0..MaxLog /\ pos[p] \in 0..MaxLog
  BY DEF TypeOK
<1>4. \A o \in Offsets : o \in Nat /\ o < MaxLog
  BY DEF Offsets
<1>5. \A h \in HandlerIds : h \in Nat /\ 1 <= h /\ h <= NumHandlers
  BY DEF HandlerIds
<1>6. session \in Nat /\ part \in Partitions /\ off \in Nat /\ next \in Nat /\ next >= 1
  BY DEF TypeOK
<1>7. QED
  BY <1>1, <1>2, <1>3, <1>4, <1>5, <1>6

LEMMA InitIInv == Init => IInv
<1> SUFFICES ASSUME Init PROVE IInv
  OBVIOUS
<1> USE ConsumerAssumption DEF Init
<1>1. TypeOK
  <2>1. log \in [Partitions -> Seq(Kinds)] /\ \A p \in Partitions : Len(log[p]) <= MaxLog
    OBVIOUS
  <2>2. /\ committed \in [Partitions -> 0..MaxLog] /\ pos \in [Partitions -> 0..MaxLog]
        /\ session \in 0..MaxSessions
    OBVIOUS
  <2>3. tried \in [Runs -> Nat] /\ done \subseteq Runs
    OBVIOUS
  <2>4. QED
    BY <2>1, <2>2, <2>3, 1 \in 1..(NumHandlers + 1), 0 \in 0..NumHandlers DEF TypeOK
<1>2. StartInv /\ PosInv /\ TriedBelow /\ FreshInv
  BY DEF StartInv, PosInv, TriedBelow, FreshInv, Live
<1>3. \A p \in Partitions, o \in Offsets, h \in HandlerIds : tried[<<p, o, h>>] = 0
  BY DEF Runs
<1>4. TriedLog /\ TriedInOrder
  BY <1>3 DEF TriedLog, TriedInOrder
<1>5. NothingSkipped
  BY DEF NothingSkipped, Readable, Offsets
<1>6. OncePerProcess
  BY DEF OncePerProcess
<1>7. QED
  BY <1>1, <1>2, <1>4, <1>5, <1>6 DEF IInv

\* The message in hand has an offset the model counts.
LEMMA InHand ==
  ASSUME IInv, loop \in {"run", "commit"}
  PROVE  /\ part \in Partitions /\ off \in Offsets /\ off + 1 \in 0..MaxLog
         /\ off < Len(log[part])
<1>1. part \in Partitions /\ off \in Nat /\ Len(log[part]) \in Nat
      /\ Len(log[part]) <= MaxLog /\ pos[part] \in Nat
  BY DEF IInv, TypeOK
<1>2. pos[part] = off + 1 /\ pos[part] <= Len(log[part])
  BY <1>1 DEF IInv, PosInv, Live
<1>3. QED
  BY <1>1, <1>2, ConsumerAssumption DEF Offsets

LEMMA TypeOKStep ==
  ASSUME IInv, [Next]_vars
  PROVE  TypeOK'
<1>1. TypeOK
  BY DEF IInv
<1> USE ConsumerAssumption DEF kafkaVars, processVars, loopVars, histVars
<1>2. ASSUME NEW p \in Partitions, Publish(p) PROVE TypeOK'
  <2>1. PICK kind \in Kinds : log' = [log EXCEPT ![p] = Append(@, kind)]
    BY <1>2 DEF Publish, Kinds
  <2>2. log' \in [Partitions -> Seq(Kinds)]
    BY <1>1, <2>1 DEF TypeOK
  <2>3. \A q \in Partitions : Len(log'[q]) <= MaxLog
    BY <1>1, <1>2, <2>1 DEF TypeOK, Publish
  <2>4. QED
    BY <1>1, <1>2, <2>2, <2>3 DEF TypeOK, Publish
<1>3. CASE Boot
  <2>1. session' \in 0..MaxSessions
    BY <1>1, <1>3 DEF TypeOK, Boot
  <2>2. handlers' \in 0..NumHandlers /\ copied' \in 0..NumHandlers
    BY <1>3 DEF Boot
  <2>3. QED
    BY <1>1, <1>3, <2>1, <2>2 DEF TypeOK, Boot
<1>4. CASE Subscribe
  BY <1>1, <1>4 DEF TypeOK, Subscribe
<1>5. CASE Start
  BY <1>1, <1>5 DEF TypeOK, Start
<1>6. CASE Cancel
  BY <1>1, <1>6 DEF TypeOK, Cancel
<1>7. CASE CloseReturns
  BY <1>1, <1>7 DEF TypeOK, CloseReturns
<1>8. CASE Crash
  BY <1>1, <1>8 DEF TypeOK, Crash
<1>9. ASSUME NEW p \in Partitions, Fetch(p) PROVE TypeOK'
  <2>1. pos[p] + 1 \in 0..MaxLog
    BY <1>1, <1>9 DEF TypeOK, Fetch
  <2>2. pos' \in [Partitions -> 0..MaxLog]
    BY <1>1, <1>9, <2>1 DEF TypeOK, Fetch
  <2>3. off' \in Nat /\ next' \in 1..(NumHandlers + 1) /\ part' \in Partitions
    BY <1>1, <1>9, Types DEF Fetch
  <2>4. loop' \in {"run", "commit"} /\ failed' \in BOOLEAN
    BY <1>9 DEF Fetch
  <2>5. UNCHANGED <<log, committed, session, phase, handlers, started, copied, tried, done>>
    BY <1>9 DEF Fetch
  <2>6. QED
    BY <1>1, <2>2, <2>3, <2>4, <2>5 DEF TypeOK
<1>10. CASE FetchCancelled
  BY <1>1, <1>10 DEF TypeOK, FetchCancelled
<1>11. ASSUME NEW ok \in BOOLEAN, RunHandler(ok) PROVE TypeOK'
  <2>1. next <= NumHandlers /\ next \in HandlerIds
    BY <1>1, <1>11 DEF RunHandler, IInv, PosInv, TypeOK, HandlerIds
  <2>2. <<part, off, next>> \in Runs
    BY <1>11, <2>1, InHand DEF RunHandler, Runs
  <2>3. tried' \in [Runs -> Nat] /\ done' \subseteq Runs
    <3>1. tried \in [Runs -> Nat] /\ done \subseteq Runs
      BY <1>1 DEF TypeOK
    <3>2. tried[<<part, off, next>>] + 1 \in Nat
      BY <2>2, <3>1
    <3>3. tried' \in [Runs -> Nat]
      BY <1>11, <2>2, <3>1, <3>2 DEF RunHandler
    <3>4. done' \subseteq Runs
      BY <1>11, <2>2, <3>1 DEF RunHandler
    <3>5. QED
      BY <3>3, <3>4
  <2>4. next' \in 1..(NumHandlers + 1) /\ failed' \in BOOLEAN
    BY <1>1, <1>11, <2>1 DEF TypeOK, RunHandler
  <2>5. QED
    BY <1>1, <1>11, <2>3, <2>4 DEF TypeOK, RunHandler
<1>12. CASE Commit
  <2>1. committed' \in [Partitions -> 0..MaxLog]
    BY <1>1, <1>12, InHand DEF TypeOK, Commit
  <2>2. QED
    BY <1>1, <1>12, <2>1 DEF TypeOK, Commit
<1>13. CASE UNCHANGED vars
  BY <1>1, <1>13 DEF TypeOK, vars
<1>14. QED
  BY <1>2, <1>3, <1>4, <1>5, <1>6, <1>7, <1>8, <1>9, <1>10, <1>11, <1>12, <1>13
     DEF Next, Loop, Idle

-----------------------------------------------------------------------------
(* The inductive invariant *)

\* A longer partition moves no message.
LEMMA PublishStep ==
  ASSUME IInv, TypeOK', NEW q \in Partitions, Publish(q)
  PROVE  IInv'
<1> USE DEF IInv
<1>1. PICK kind \in Kinds : log' = [log EXCEPT ![q] = Append(@, kind)]
  BY DEF Publish, Kinds
<1>2. UNCHANGED <<committed, session, phase, handlers, started, copied, loop, pos,
                  part, off, next, failed, tried, done>>
  BY DEF Publish, processVars, loopVars, histVars
<1>3. \A p \in Partitions :
        /\ Len(log[p]) \in Nat /\ Len(log'[p]) \in Nat
        /\ Len(log[p]) <= Len(log'[p])
        /\ \A o \in Nat : o < Len(log[p]) => log'[p][o + 1] = log[p][o + 1]
  <2>1. /\ log'[q] = Append(log[q], kind)
        /\ \A p \in Partitions \ {q} : log'[p] = log[p]
    BY <1>1 DEF TypeOK
  <2>2. \A p \in Partitions : log[p] \in Seq(Kinds)
    BY DEF TypeOK
  <2>3. kind \in Kinds
    BY <1>1
  <2>4. /\ Len(log'[q]) = Len(log[q]) + 1 /\ Len(log[q]) \in Nat
        /\ \A i \in 1..Len(log[q]) : log'[q][i] = log[q][i]
    BY <2>1, <2>2, <2>3
  <2>5. \A o \in Nat : o < Len(log[q]) => log'[q][o + 1] = log[q][o + 1]
    BY <2>4
  <2>6. \A p \in Partitions : Len(log[p]) \in Nat
    BY Types
  <2>7. SUFFICES ASSUME NEW p \in Partitions
                 PROVE  /\ Len(log[p]) \in Nat /\ Len(log'[p]) \in Nat
                        /\ Len(log[p]) <= Len(log'[p])
                        /\ \A o \in Nat : o < Len(log[p]) => log'[p][o + 1] = log[p][o + 1]
    OBVIOUS
  <2>8. CASE p = q
    BY <2>4, <2>5, <2>8
  <2>9. CASE p # q
    BY <2>1, <2>6, <2>9
  <2>10. QED
    BY <2>8, <2>9
<1>4. \A o \in Offsets : o \in Nat
  BY ConsumerAssumption DEF Offsets
<1>5. \A p \in Partitions, o \in Nat :
        o < Len(log[p]) => (Readable(p, o)' <=> Readable(p, o))
  BY <1>3 DEF Readable
<1>6. \A p \in Partitions : committed[p] \in Nat /\ pos[p] \in Nat
  BY ConsumerAssumption DEF TypeOK
<1>7. StartInv'
  BY <1>2 DEF StartInv, Live
<1>8. PosInv'
  <2>1. \A p \in Partitions : committed[p] <= Len(log'[p])
    BY <1>3, <1>6 DEF PosInv
  <2>2. Live => \A p \in Partitions : committed[p] <= pos[p] /\ pos[p] <= Len(log'[p])
    BY <1>3, <1>6 DEF PosInv
  <2>3. loop = "run" => Readable(part, off)'
    <3>1. SUFFICES ASSUME loop = "run" PROVE Readable(part, off)'
      OBVIOUS
    <3>2. part \in Partitions /\ off \in Nat /\ off < Len(log[part])
      BY <3>1, <1>4, InHand
    <3>3. Readable(part, off)
      BY <3>1 DEF PosInv
    <3>4. log'[part][off + 1] = "envelope" /\ off < Len(log'[part])
      BY <3>2, <3>3, <1>3 DEF Readable
    <3>5. QED
      BY <3>4, <1>2 DEF Readable
  <2>4. QED
    BY <1>2, <2>1, <2>2, <2>3 DEF PosInv, Live
<1>9. TriedLog'
  BY <1>2, <1>3, <1>4 DEF TriedLog
<1>10. TriedBelow'
  <2>1. SUFFICES ASSUME Live, NEW p \in Partitions, NEW o \in Offsets,
                        NEW h \in HandlerIds, o < pos[p], Readable(p, o)',
                        ~Ahead(p, o, h)
                 PROVE  tried[<<p, o, h>>] > 0
    BY <1>2 DEF TriedBelow, Live, Ahead
  <2>2. o < Len(log[p])
    BY <2>1, <1>3, <1>4, <1>6 DEF PosInv
  <2>3. QED
    BY <2>1, <2>2, <1>4, <1>5 DEF TriedBelow
<1>11. FreshInv'
  BY <1>2 DEF FreshInv, Live, Ahead
<1>12. NothingSkipped'
  <2>1. SUFFICES ASSUME NEW p \in Partitions, NEW o \in Offsets, NEW h \in HandlerIds,
                        o < committed[p], Readable(p, o)'
                 PROVE  tried[<<p, o, h>>] > 0
    BY <1>2 DEF NothingSkipped
  <2>2. o < Len(log[p])
    BY <2>1, <1>3, <1>4, <1>6 DEF PosInv
  <2>3. QED
    BY <2>1, <2>2, <1>4, <1>5 DEF NothingSkipped
<1>13. TriedInOrder'
  <2>1. SUFFICES ASSUME NEW p \in Partitions, NEW o \in Offsets, NEW h \in HandlerIds,
                        tried[<<p, o, h>>] > 0,
                        NEW e \in 0..(o - 1), Readable(p, e)'
                 PROVE  tried[<<p, e, h>>] > 0
    BY <1>2 DEF TriedInOrder
  <2>2. e \in Nat /\ e < Len(log[p])
    BY <2>1, <1>3, <1>4 DEF TriedLog
  <2>3. QED
    BY <2>1, <2>2, <1>5 DEF TriedInOrder
<1>14. OncePerProcess'
  BY <1>2 DEF OncePerProcess
<1>15. QED
  BY <1>7, <1>8, <1>9, <1>10, <1>11, <1>12, <1>13, <1>14

\* Steps of the process that leave Kafka, the history and the reader alone and
\* start no goroutine.
LEMMA QuietStep ==
  ASSUME IInv, TypeOK',
         UNCHANGED <<log, committed, session, started, copied,
                     pos, part, off, next, failed, tried, done>>,
         loop' = loop \/ loop' \in {"none", "exited"},
         phase' = "boot" => phase = "boot" /\ loop' = loop,
         handlers' = handlers \/ (StartFirst => started)
  PROVE  IInv'
<1> USE DEF IInv
<1>1. \A p, o : Readable(p, o)' <=> Readable(p, o)
  BY DEF Readable
<1>2. Live' => Live /\ loop' = loop
  BY DEF Live
<1>3. StartInv'
  BY <1>2 DEF StartInv
<1>4. PosInv'
  BY <1>1, <1>2 DEF PosInv, Live
<1>5. TriedLog' /\ OncePerProcess'
  BY DEF TriedLog, OncePerProcess
<1>6. TriedBelow'
  BY <1>1, <1>2 DEF TriedBelow, Ahead
<1>7. FreshInv'
  BY <1>2 DEF FreshInv, Ahead
<1>8. NothingSkipped' /\ TriedInOrder'
  BY <1>1 DEF NothingSkipped, TriedInOrder
<1>9. QED
  BY <1>3, <1>4, <1>5, <1>6, <1>7, <1>8

\* A new process has run nothing.
LEMMA BootStep ==
  ASSUME IInv, TypeOK', Boot
  PROVE  IInv'
<1> USE DEF IInv
<1>1. /\ UNCHANGED <<log, committed, tried>>
      /\ session' = session + 1 /\ handlers' = 0 /\ loop' = "none"
  BY DEF Boot, kafkaVars, histVars
<1>2. session \in Nat /\ \A run \in Runs : tried[run] \in Nat
  BY ConsumerAssumption DEF TypeOK
<1>3. \A run \in Runs : tried[run] < session'
  BY <1>1, <1>2 DEF OncePerProcess
<1>4. \A p, o : Readable(p, o)' <=> Readable(p, o)
  BY <1>1 DEF Readable
<1>5. StartInv' /\ TriedBelow' /\ FreshInv'
  BY <1>1, <1>3 DEF StartInv, TriedBelow, FreshInv, Live
<1>6. PosInv'
  BY <1>1 DEF PosInv, Live
<1>7. OncePerProcess'
  BY <1>1, <1>2, <1>3 DEF OncePerProcess
<1>8. TriedLog' /\ NothingSkipped' /\ TriedInOrder'
  BY <1>1, <1>4 DEF TriedLog, NothingSkipped, TriedInOrder
<1>9. QED
  BY <1>5, <1>6, <1>7, <1>8

\* The reader begins at the group's offsets.
LEMMA StartStep ==
  ASSUME IInv, TypeOK', Start
  PROVE  IInv'
<1> USE DEF IInv
<1>1. /\ UNCHANGED <<log, committed, session, handlers, tried>>
      /\ phase = "boot" /\ ~started /\ started'
      /\ copied' = handlers /\ pos' = committed
      /\ loop' = IF handlers > 0 THEN "fetch" ELSE "none"
      /\ StartFirst \/ handlers = NumHandlers
  BY DEF Start, kafkaVars, histVars
<1>2. \A p, o : Readable(p, o)' <=> Readable(p, o)
  BY <1>1 DEF Readable
<1>3. \A run \in Runs : tried[run] < session
  BY <1>1 DEF StartInv
<1>4. StartInv'
  BY <1>1, ConsumerAssumption DEF StartInv, Live
<1>5. PosInv'
  <2>1. \A p \in Partitions : committed[p] <= committed[p]
    BY ConsumerAssumption DEF TypeOK
  <2>2. QED
    BY <1>1, <2>1 DEF PosInv, Live
<1>6. TriedBelow'
  BY <1>1, <1>2 DEF TriedBelow, NothingSkipped
<1>7. FreshInv'
  BY <1>1, <1>3 DEF FreshInv, Runs
<1>8. TriedLog' /\ NothingSkipped' /\ TriedInOrder' /\ OncePerProcess'
  BY <1>1, <1>2 DEF TriedLog, NothingSkipped, TriedInOrder, OncePerProcess
<1>9. QED
  BY <1>4, <1>5, <1>6, <1>7, <1>8

\* The message taken moves from ahead of the reader into hand.
LEMMA FetchStep ==
  ASSUME IInv, TypeOK', NEW q \in Partitions, Fetch(q)
  PROVE  IInv'
<1> USE DEF IInv
<1>1. /\ UNCHANGED <<log, committed, session, phase, handlers, started, copied, tried>>
      /\ loop = "fetch" /\ part' = q /\ off' = pos[q] /\ next' = 1
      /\ pos[q] < Len(log[q])
      /\ loop' = IF log[q][off' + 1] = "garbage" THEN "commit" ELSE "run"
  BY DEF Fetch, kafkaVars, processVars, histVars
<1>2. \A p, o : Readable(p, o)' <=> Readable(p, o)
  BY <1>1 DEF Readable
<1>3. pos'[q] = pos[q] + 1 /\ \A p \in Partitions \ {q} : pos'[p] = pos[p]
  BY DEF Fetch, TypeOK
<1>4. /\ \A p \in Partitions :
           pos[p] \in Nat /\ committed[p] \in Nat /\ Len(log[p]) \in Nat
      /\ \A o \in Offsets : o \in Nat
      /\ \A h \in HandlerIds : h \in Nat /\ h >= 1
  BY Types
<1>5. log[q][pos[q] + 1] \in Kinds
  BY <1>1, <1>4 DEF TypeOK
<1>6. loop' = "run" <=> Readable(q, pos[q])
  BY <1>1, <1>5 DEF Readable, Kinds
<1>7. Live /\ Live' /\ \A p, o, h : ~Ahead(p, o, h)
  BY <1>1 DEF Live, Ahead
<1>8. StartInv'
  BY <1>1, <1>7 DEF StartInv
<1>9. PosInv'
  <2>1. \A p \in Partitions : committed[p] <= pos'[p] /\ pos'[p] <= Len(log[p])
    BY <1>1, <1>3, <1>4, <1>7 DEF PosInv
  <2>2. pos'[q] = off' + 1 /\ committed[q] <= off'
    BY <1>1, <1>3, <1>7 DEF PosInv
  <2>3. next' <= NumHandlers
    BY <1>1, ConsumerAssumption
  <2>4. QED
    BY <1>1, <1>2, <1>6, <2>1, <2>2, <2>3 DEF PosInv
<1>10. TriedBelow'
  <2>1. SUFFICES ASSUME NEW p \in Partitions, NEW o \in Offsets, NEW h \in HandlerIds,
                        o < pos'[p], Readable(p, o), ~Ahead(p, o, h)'
                 PROVE  tried[<<p, o, h>>] > 0
    BY <1>1, <1>2 DEF TriedBelow
  <2>2. ~(p = q /\ o = pos[q])
    BY <2>1, <1>1, <1>4, <1>6 DEF Ahead
  <2>3. o < pos[p]
    BY <2>1, <2>2, <1>3, <1>4
  <2>4. QED
    BY <2>1, <2>3, <1>7 DEF TriedBelow
<1>11. FreshInv'
  <2>1. SUFFICES ASSUME NEW p \in Partitions, NEW o \in Offsets, NEW h \in HandlerIds,
                        o >= pos'[p] \/ Ahead(p, o, h)'
                 PROVE  tried[<<p, o, h>>] < session
    BY <1>1 DEF FreshInv
  <2>2. o >= pos[p]
    BY <2>1, <1>1, <1>3, <1>4 DEF Ahead
  <2>3. QED
    BY <2>2, <1>7 DEF FreshInv
<1>12. TriedLog' /\ NothingSkipped' /\ TriedInOrder' /\ OncePerProcess'
  BY <1>1, <1>2 DEF TriedLog, NothingSkipped, TriedInOrder, OncePerProcess
<1>13. QED
  BY <1>8, <1>9, <1>10, <1>11, <1>12

\* A handler runs for the first time in this process on the message in hand.
LEMMA RunHandlerStep ==
  ASSUME IInv, TypeOK', NEW ok \in BOOLEAN, RunHandler(ok)
  PROVE  IInv'
<1> USE DEF IInv
<1> DEFINE cur == <<part, off, next>>
<1>1. /\ UNCHANGED <<log, committed, session, phase, handlers, started, copied,
                     pos, part, off>>
      /\ loop = "run" /\ next' = next + 1
      /\ tried' = [tried EXCEPT ![cur] = @ + 1]
      /\ loop' = IF next < copied THEN "run" ELSE IF failed' THEN "fetch" ELSE "commit"
  BY DEF RunHandler, kafkaVars, processVars
<1>2. Live /\ Live' /\ copied = NumHandlers
  BY <1>1 DEF Live, StartInv
<1>3. /\ part \in Partitions /\ off \in Offsets /\ next \in HandlerIds
      /\ off < Len(log[part])
      /\ \A h \in HandlerIds : h \in Nat /\ h <= NumHandlers
      /\ \A o \in Offsets : o \in Nat
      /\ NumHandlers \in Nat
  BY <1>1, InHand, ConsumerAssumption DEF PosInv, TypeOK, HandlerIds, Offsets
<1>4. cur \in Runs /\ \A run \in Runs : tried[run] \in Nat
  BY <1>3 DEF Runs, TypeOK
<1>5. tried'[cur] = tried[cur] + 1 /\ \A run \in Runs \ {cur} : tried'[run] = tried[run]
  BY <1>1, <1>4 DEF TypeOK
<1>6. \A p, o : Readable(p, o)' <=> Readable(p, o)
  BY <1>1 DEF Readable
<1>7. \A p \in Partitions, o \in Offsets, h \in HandlerIds :
        /\ <<p, o, h>> \in Runs
        /\ <<p, o, h>> = cur <=> (p = part /\ o = off /\ h = next)
        /\ tried[<<p, o, h>>] > 0 => tried'[<<p, o, h>>] > 0
  BY <1>4, <1>5 DEF Runs
<1>8. \A p \in Partitions, o \in Offsets, h \in HandlerIds :
        /\ Ahead(p, o, h)' => Ahead(p, o, h) /\ <<p, o, h>> # cur
        /\ Ahead(p, o, h) => Ahead(p, o, h)' \/ <<p, o, h>> = cur
  BY <1>1, <1>2, <1>3, <1>7 DEF Ahead
<1>9. session \in Nat /\ Ahead(part, off, next)
  BY <1>1, <1>3, ConsumerAssumption DEF TypeOK, Ahead
<1> HIDE DEF cur
<1>10. StartInv'
  BY <1>1, <1>2 DEF StartInv
<1>11. PosInv'
  BY <1>1, <1>2, <1>3, <1>6 DEF PosInv
<1>12. TriedLog'
  BY <1>1, <1>3, <1>5, <1>7 DEF TriedLog
<1>13. TriedBelow'
  <2>1. SUFFICES ASSUME NEW p \in Partitions, NEW o \in Offsets, NEW h \in HandlerIds,
                        o < pos[p], Readable(p, o), ~Ahead(p, o, h)'
                 PROVE  tried'[<<p, o, h>>] > 0
    BY <1>1, <1>6 DEF TriedBelow
  <2>2. CASE <<p, o, h>> = cur
    BY <2>2, <1>4, <1>5
  <2>3. CASE <<p, o, h>> # cur
    BY <2>1, <2>3, <1>2, <1>7, <1>8 DEF TriedBelow
  <2>4. QED
    BY <2>2, <2>3
<1>14. FreshInv'
  <2>1. SUFFICES ASSUME NEW p \in Partitions, NEW o \in Offsets, NEW h \in HandlerIds,
                        o >= pos[p] \/ Ahead(p, o, h)'
                 PROVE  tried'[<<p, o, h>>] < session
    BY <1>1 DEF FreshInv
  <2>2. <<p, o, h>> # cur
    <3>1. off < pos[part]
      BY <1>1, <1>3 DEF PosInv
    <3>2. ~(off >= pos[part])
      BY <3>1, <1>3, Types
    <3>3. QED
      BY <2>1, <3>2, <1>7, <1>8
  <2>3. tried[<<p, o, h>>] < session
    BY <2>1, <1>2, <1>8 DEF FreshInv
  <2>4. QED
    BY <2>2, <2>3, <1>5, <1>7
<1>15. NothingSkipped'
  BY <1>1, <1>6, <1>7 DEF NothingSkipped
<1>16. TriedInOrder'
  <2>1. SUFFICES ASSUME NEW p \in Partitions, NEW o \in Offsets, NEW h \in HandlerIds,
                        tried'[<<p, o, h>>] > 0,
                        NEW e \in 0..(o - 1), Readable(p, e)
                 PROVE  tried'[<<p, e, h>>] > 0
    BY <1>6 DEF TriedInOrder
  <2>2. e \in Offsets /\ e < o /\ e \in Nat /\ o \in Nat
    BY ConsumerAssumption DEF Offsets
  <2>3. CASE <<p, o, h>> = cur
    <3>1. p = part /\ o = off /\ e < pos[p] /\ ~Ahead(p, e, h)
      BY <2>2, <2>3, <1>1, <1>7 DEF Ahead, PosInv
    <3>2. tried[<<p, e, h>>] > 0
      BY <2>1, <2>2, <3>1, <1>2 DEF TriedBelow
    <3>3. QED
      BY <2>2, <3>2, <1>7
  <2>4. CASE <<p, o, h>> # cur
    <3>1. tried[<<p, o, h>>] > 0
      BY <2>1, <2>4, <1>5, <1>7
    <3>2. tried[<<p, e, h>>] > 0
      BY <2>1, <3>1 DEF TriedInOrder
    <3>3. QED
      BY <2>2, <3>2, <1>7
  <2>5. QED
    BY <2>3, <2>4
<1>17. OncePerProcess'
  <2>1. tried[cur] < session
    BY <1>2, <1>3, <1>9 DEF FreshInv, cur
  <2>2. QED
    BY <2>1, <1>1, <1>4, <1>5, <1>9 DEF OncePerProcess
<1>18. QED
  BY <1>10, <1>11, <1>12, <1>13, <1>14, <1>15, <1>16, <1>17

\* The group's offset moves past the message in hand, which was tried by all.
LEMMA CommitStep ==
  ASSUME IInv, TypeOK', Commit
  PROVE  IInv'
<1> USE DEF IInv
<1>1. /\ UNCHANGED <<log, session, phase, handlers, started, copied,
                     pos, part, off, next, failed, tried>>
      /\ loop = "commit" /\ loop' = "fetch"
      /\ \/ committed' = [committed EXCEPT ![part] = off + 1]
         \/ committed' = committed
  BY DEF Commit, processVars, histVars
<1>2. \A p, o : Readable(p, o)' <=> Readable(p, o)
  BY <1>1 DEF Readable
<1>3. /\ \A p \in Partitions : pos[p] \in Nat /\ committed[p] \in Nat /\ Len(log[p]) \in Nat
      /\ \A o \in Offsets : o \in Nat
      /\ part \in Partitions /\ off \in Nat
  BY ConsumerAssumption DEF TypeOK, Offsets
<1>4. Live /\ Live' /\ (\A p, o, h : ~Ahead(p, o, h) /\ ~Ahead(p, o, h)')
  BY <1>1 DEF Live, Ahead
<1>5. pos[part] = off + 1
  BY <1>1 DEF PosInv
<1>6. \A p \in Partitions : committed'[p] = committed[p] \/ committed'[p] = pos[p]
  BY <1>1, <1>3, <1>5 DEF TypeOK
<1>7. \A p \in Partitions : committed'[p] <= pos[p] /\ pos[p] <= Len(log[p])
  BY <1>3, <1>4, <1>6 DEF PosInv
<1>8. StartInv'
  BY <1>1, <1>4 DEF StartInv
<1>9. PosInv'
  <2>1. \A p \in Partitions : committed'[p] <= Len(log[p])
    BY <1>3, <1>6, <1>7 DEF PosInv
  <2>2. QED
    BY <1>1, <1>7, <2>1 DEF PosInv
<1>10. TriedBelow' /\ FreshInv'
  BY <1>1, <1>2, <1>4 DEF TriedBelow, FreshInv
<1>11. NothingSkipped'
  <2>1. SUFFICES ASSUME NEW p \in Partitions, NEW o \in Offsets, NEW h \in HandlerIds,
                        o < committed'[p], Readable(p, o)
                 PROVE  tried[<<p, o, h>>] > 0
    BY <1>1, <1>2 DEF NothingSkipped
  <2>2. CASE committed'[p] = committed[p]
    BY <2>1, <2>2 DEF NothingSkipped
  <2>3. CASE committed'[p] = pos[p]
    BY <2>1, <2>3, <1>4 DEF TriedBelow
  <2>4. QED
    BY <2>2, <2>3, <1>6
<1>12. TriedLog' /\ TriedInOrder' /\ OncePerProcess'
  BY <1>1, <1>2 DEF TriedLog, TriedInOrder, OncePerProcess
<1>13. QED
  BY <1>8, <1>9, <1>10, <1>11, <1>12

LEMMA IInvStep ==
  ASSUME IInv, [Next]_vars
  PROVE  IInv'
<1>1. TypeOK'
  BY TypeOKStep
<1> USE DEF kafkaVars, processVars, loopVars, histVars
<1>2. CASE Subscribe
  BY <1>1, <1>2, QuietStep DEF Subscribe
<1>3. CASE Cancel
  BY <1>1, <1>3, QuietStep DEF Cancel
<1>4. CASE CloseReturns
  BY <1>1, <1>4, QuietStep DEF CloseReturns
<1>5. CASE Crash
  BY <1>1, <1>5, QuietStep DEF Crash
<1>6. CASE FetchCancelled
  BY <1>1, <1>6, QuietStep DEF FetchCancelled
<1>7. CASE UNCHANGED vars
  BY <1>1, <1>7, QuietStep DEF vars
<1>8. QED
  BY <1>1, <1>2, <1>3, <1>4, <1>5, <1>6, <1>7,
     PublishStep, BootStep, StartStep, FetchStep, RunHandlerStep, CommitStep
     DEF Next, Loop, Idle

LEMMA IInvCorrect == SafeSpec => []IInv
<1>1. Init => IInv
  BY InitIInv
<1>2. IInv /\ [Next]_vars => IInv'
  BY IInvStep
<1>3. QED
  BY <1>1, <1>2, PTL DEF SafeSpec

-----------------------------------------------------------------------------
(* What follows from it *)

\* The types hold: no handler index, offset or commit leaves its range.
THEOREM TypeCorrect == SafeSpec => []TypeOK
<1>1. IInv => TypeOK
  BY DEF IInv
<1>2. QED
  BY <1>1, IInvCorrect, PTL

\* What the group has committed was given to every handler (consumeLoop).
THEOREM NothingSkippedCorrect == SafeSpec => []NothingSkipped
<1>1. IInv => NothingSkipped
  BY DEF IInv
<1>2. QED
  BY <1>1, IInvCorrect, PTL

\* A handler meets the envelopes of a partition in order (consumeLoop).
THEOREM TriedInOrderCorrect == SafeSpec => []TriedInOrder
<1>1. IInv => TriedInOrder
  BY DEF IInv
<1>2. QED
  BY <1>1, IInvCorrect, PTL

\* One process gives an envelope to a handler at most once (consumeLoop).
THEOREM OncePerProcessCorrect == SafeSpec => []OncePerProcess
<1>1. IInv => OncePerProcess
  BY DEF IInv
<1>2. QED
  BY <1>1, IInvCorrect, PTL

\* A step from the inductive invariant commits forward and runs nothing that
\* is committed.
LEMMA CommittedIsPastStep ==
  ASSUME IInv, [Next]_vars
  PROVE  \A p \in Partitions :
           /\ committed'[p] >= committed[p]
           /\ \A o \in Offsets, h \in HandlerIds :
                tried'[<<p, o, h>>] # tried[<<p, o, h>>] => o >= committed[p]
<1> USE DEF IInv
<1>1. \A p \in Partitions : committed[p] \in Nat
  BY ConsumerAssumption DEF TypeOK
<1>2. CASE UNCHANGED <<committed, tried>>
  BY <1>1, <1>2
<1>3. CASE Commit
  <2>1. tried' = tried /\ loop = "commit"
    BY <1>3 DEF Commit, histVars
  <2>2. committed[part] <= off /\ off \in Nat
    BY <2>1 DEF PosInv, TypeOK
  <2>3. \A p \in Partitions : committed'[p] >= committed[p]
    <3>1. committed' = [committed EXCEPT ![part] = off + 1] \/ committed' = committed
      BY <1>3 DEF Commit
    <3>2. \A p \in Partitions :
            committed'[p] = committed[p] \/ (p = part /\ committed'[p] = off + 1)
      BY <3>1 DEF TypeOK
    <3>3. QED
      BY <1>1, <2>2, <3>2
  <2>4. QED
    BY <2>1, <2>3
<1>4. ASSUME NEW ok \in BOOLEAN, RunHandler(ok)
      PROVE  \A p \in Partitions :
               /\ committed'[p] >= committed[p]
               /\ \A o \in Offsets, h \in HandlerIds :
                    tried'[<<p, o, h>>] # tried[<<p, o, h>>] => o >= committed[p]
  <2>1. /\ committed' = committed /\ loop = "run"
        /\ tried' = [tried EXCEPT ![<<part, off, next>>] = @ + 1]
    BY <1>4 DEF RunHandler, kafkaVars
  <2>2. committed[part] <= off /\ off \in Nat /\ part \in Partitions
    BY <2>1 DEF PosInv, TypeOK
  <2>3. ASSUME NEW p \in Partitions, NEW o \in Offsets, NEW h \in HandlerIds,
               tried'[<<p, o, h>>] # tried[<<p, o, h>>]
        PROVE  o >= committed[p]
    <3>1. <<p, o, h>> \in Runs
      BY DEF Runs
    <3>2. <<p, o, h>> = <<part, off, next>>
      BY <2>1, <2>3, <3>1 DEF TypeOK
    <3>3. QED
      BY <2>2, <3>2, <1>1
  <2>4. QED
    BY <1>1, <2>1, <2>3
<1>5. QED
  BY <1>2, <1>3, <1>4
     DEF Next, Loop, Publish, Boot, Subscribe, Start, Cancel, CloseReturns, Crash,
         Fetch, FetchCancelled, Idle, vars, kafkaVars, histVars

\* The group's offset never moves back, and no handler runs behind it
\* (consumeLoop and the restart of its reader).
THEOREM CommittedIsPastCorrect == SafeSpec => CommittedIsPast
<1>1. IInv /\ [Next]_vars => 
        [\A p \in Partitions :
           /\ committed'[p] >= committed[p]
           /\ \A o \in Offsets, h \in HandlerIds :
                tried'[<<p, o, h>>] # tried[<<p, o, h>>] => o >= committed[p]]_vars
  BY CommittedIsPastStep
<1>2. QED
  BY <1>1, IInvCorrect, PTL DEF SafeSpec, CommittedIsPast
=============================================================================
