---------------------------- MODULE KafkaConsumer ----------------------------
(***************************************************************************)
(* The Kafka event bus of internal/infrastructure/kafka (bus.go,           *)
(* consumer.go, producer.go) and its use by cmd/server/main.go: one topic, *)
(* its partitions, the offsets the consumer group has committed, and one   *)
(* server process after another that consumes it.                          *)
(*                                                                         *)
(* Each topic has its own reader, handlers and goroutine; two topics share *)
(* nothing but Start and Close, so one topic stands for all.  Fetching,    *)
(* each handler call and the commit are steps; publishers (this process    *)
(* and others), Close and crashes interleave with them.  A fetch that      *)
(* fails is retried and changes nothing; a failed publish changes nothing  *)
(* either, since every caller ignores it.                                  *)
(***************************************************************************)
EXTENDS Naturals, Sequences

CONSTANTS Partitions,
          NumHandlers,  \* Subscribe calls for the topic
          StartFirst,   \* whether Start precedes Subscribe, as in main.go
          Foreign,      \* partitions others write to, envelopes or not
          MaxLog,       \* bound: messages per partition
          MaxSessions   \* bound: processes, the last of which stays up

ASSUME ConsumerAssumption ==
    /\ NumHandlers \in Nat \ {0}
    /\ StartFirst \in BOOLEAN
    /\ Foreign \subseteq Partitions
    /\ MaxLog \in Nat
    /\ MaxSessions \in Nat

HandlerIds == 1..NumHandlers
Offsets    == 0..(MaxLog - 1)
Kinds      == {"envelope", "garbage"}

VARIABLES
    log,        \* Kafka: the messages of each partition
    committed,  \* Kafka: the next offset of the group in each partition
    session,    \* how many processes have been started
    phase,      \* the process: down, booting, up or closing
    handlers,   \* Consumer.handlers: how many are registered
    started,    \* whether Start has been called
    copied,     \* topicHandlers: how many the goroutine was given
    loop,       \* where consumeLoop is, "none" without a goroutine
    pos,        \* the reader: next offset to fetch in each partition
    part, off,  \* msg: where the message in hand comes from
    next,       \* the handler to be called next
    failed,     \* handlerErr # nil
    tried,      \* history: runs of each handler on each message
    done        \* history: the runs that returned nil

kafkaVars   == <<log, committed>>
processVars == <<session, phase, handlers, started, copied>>
loopVars    == <<loop, pos, part, off, next, failed>>
histVars    == <<tried, done>>
vars        == <<kafkaVars, processVars, loopVars, histVars>>

Runs == Partitions \X Offsets \X HandlerIds

TypeOK ==
    /\ log \in [Partitions -> Seq(Kinds)]
    /\ \A p \in Partitions : Len(log[p]) <= MaxLog
    /\ committed \in [Partitions -> 0..MaxLog]
    /\ session \in 0..MaxSessions
    /\ phase \in {"down", "boot", "up", "closing"}
    /\ handlers \in 0..NumHandlers
    /\ started \in BOOLEAN
    /\ copied \in 0..NumHandlers
    /\ loop \in {"none", "fetch", "run", "commit", "exited"}
    /\ pos \in [Partitions -> 0..MaxLog]
    /\ part \in Partitions
    /\ off \in Nat
    /\ next \in 1..(NumHandlers + 1)
    /\ failed \in BOOLEAN
    /\ tried \in [Runs -> Nat]
    /\ done \subseteq Runs

Init ==
    /\ log = [p \in Partitions |-> <<>>]
    /\ committed = [p \in Partitions |-> 0]
    /\ session = 0
    /\ phase = "down"
    /\ handlers = 0
    /\ started = FALSE
    /\ copied = 0
    /\ loop = "none"
    /\ pos = [p \in Partitions |-> 0]
    /\ part \in Partitions
    /\ off = 0
    /\ next = 1
    /\ failed = FALSE
    /\ tried = [run \in Runs |-> 0]
    /\ done = {}

-----------------------------------------------------------------------------
(* The topic *)

\* Producer.Publish writes an envelope; the LeastBytes balancer picks the
\* partition, whatever the key.  Foreign writers may write anything.
Publish(p) ==
    /\ Len(log[p]) < MaxLog
    /\ \E kind \in IF p \in Foreign THEN Kinds ELSE {"envelope"} :
         log' = [log EXCEPT ![p] = Append(@, kind)]
    /\ UNCHANGED <<committed, processVars, loopVars, histVars>>

-----------------------------------------------------------------------------
(* The process *)

\* NewBus in initEventBus.
Boot ==
    /\ phase = "down"
    /\ session < MaxSessions
    /\ session' = session + 1
    /\ phase' = "boot"
    /\ handlers' = 0
    /\ started' = FALSE
    /\ copied' = 0
    /\ loop' = "none"
    /\ UNCHANGED <<kafkaVars, pos, part, off, next, failed, histVars>>

\* Consumer.Subscribe, called by buildDependencies.
Subscribe ==
    /\ phase = "boot"
    /\ handlers < NumHandlers
    /\ StartFirst => started
    /\ handlers' = handlers + 1
    /\ phase' = IF started /\ handlers' = NumHandlers THEN "up" ELSE phase
    /\ UNCHANGED <<kafkaVars, session, started, copied, loopVars, histVars>>

\* Mutant: the reader begins at the first offset, ignoring the group.
Start_NoGroup ==
    /\ phase = "boot"
    /\ ~started
    /\ StartFirst \/ handlers = NumHandlers
    /\ started' = TRUE
    /\ phase' = IF handlers = NumHandlers THEN "up" ELSE phase
    /\ copied' = handlers
    /\ loop' = IF handlers > 0 THEN "fetch" ELSE "none"
    /\ pos' = [p \in Partitions |-> 0]
    /\ UNCHANGED <<kafkaVars, session, handlers, part, off, next, failed, histVars>>

\* Consumer.Start: a reader at the group's offsets and a goroutine with a copy
\* of the handlers, if the topic has any.
Start ==
    /\ phase = "boot"
    /\ ~started
    /\ StartFirst \/ handlers = NumHandlers
    /\ started' = TRUE
    /\ phase' = IF handlers = NumHandlers THEN "up" ELSE phase
    /\ copied' = handlers
    /\ loop' = IF handlers > 0 THEN "fetch" ELSE "none"
    /\ pos' = committed
    /\ UNCHANGED <<kafkaVars, session, handlers, part, off, next, failed, histVars>>

\* Consumer.Close cancels the context.
Cancel ==
    /\ phase = "up"
    /\ session < MaxSessions
    /\ phase' = "closing"
    /\ UNCHANGED <<kafkaVars, session, handlers, started, copied, loopVars, histVars>>

\* wg.Wait returns when the goroutine has ended; the process exits.
CloseReturns ==
    /\ phase = "closing"
    /\ loop \in {"none", "exited"}
    /\ phase' = "down"
    /\ UNCHANGED <<kafkaVars, session, handlers, started, copied, loopVars, histVars>>

Crash ==
    /\ phase # "down"
    /\ session < MaxSessions
    /\ phase' = "down"
    /\ loop' = "none"
    /\ UNCHANGED <<kafkaVars, session, handlers, started, copied,
                   pos, part, off, next, failed, histVars>>

-----------------------------------------------------------------------------
(* consumeLoop *)

\* Mutant: the reader prefetches: a message is skipped when two are there.
Fetch_Skips(p) ==
    /\ loop = "fetch"
    /\ pos[p] < Len(log[p])
    /\ part' = p
    /\ off' = Len(log[p]) - 1
    /\ pos' = [pos EXCEPT ![p] = Len(log[p])]
    /\ next' = 1
    /\ failed' = FALSE
    /\ loop' = IF log[p][off' + 1] = "garbage" THEN "commit" ELSE "run"
    /\ UNCHANGED <<kafkaVars, processVars, histVars>>

\* FetchMessage returns the next message of some partition, even when the
\* context is already cancelled; a message that is no envelope is committed at
\* once.
Fetch(p) ==
    /\ loop = "fetch"
    /\ pos[p] < Len(log[p])
    /\ part' = p
    /\ off' = pos[p]
    /\ pos' = [pos EXCEPT ![p] = @ + 1]
    /\ next' = 1
    /\ failed' = FALSE
    /\ loop' = IF log[p][off' + 1] = "garbage" THEN "commit" ELSE "run"
    /\ UNCHANGED <<kafkaVars, processVars, histVars>>

\* Mutant: a failed fetch is retried without a look at the context.
FetchCancelled_Retries ==
    /\ loop = "fetch"
    /\ phase = "closing"
    /\ UNCHANGED vars

\* FetchMessage fails because the context is cancelled.
FetchCancelled ==
    /\ loop = "fetch"
    /\ phase = "closing"
    /\ loop' = "exited"
    /\ UNCHANGED <<kafkaVars, processVars, pos, part, off, next, failed, histVars>>

\* Mutant: the first handler that fails ends the dispatch, and the commit is
\* guarded by the last result only.
RunHandler_Breaks(ok) ==
    /\ loop = "run"
    /\ tried' = [tried EXCEPT ![<<part, off, next>>] = @ + 1]
    /\ done' = IF ok THEN done \cup {<<part, off, next>>} ELSE done
    /\ failed' = ~ok
    /\ next' = next + 1
    /\ loop' = IF ok /\ next < copied THEN "run"
               ELSE IF failed' THEN "fetch" ELSE "commit"
    /\ UNCHANGED <<kafkaVars, processVars, pos, part, off>>

\* One handler runs; its error is kept but the others run as well.
RunHandler(ok) ==
    /\ loop = "run"
    /\ tried' = [tried EXCEPT ![<<part, off, next>>] = @ + 1]
    /\ done' = IF ok THEN done \cup {<<part, off, next>>} ELSE done
    /\ failed' = (failed \/ ~ok)
    /\ next' = next + 1
    /\ loop' = IF next < copied THEN "run"
               ELSE IF failed' THEN "fetch" ELSE "commit"
    /\ UNCHANGED <<kafkaVars, processVars, pos, part, off>>

\* Mutant: after a failed commit the message is handled again.
Commit_Redoes ==
    /\ loop = "commit"
    /\ \/ /\ committed' = [committed EXCEPT ![part] = off + 1]
          /\ loop' = "fetch"
          /\ UNCHANGED next
       \/ /\ log[part][off + 1] = "envelope"
          /\ loop' = "run"
          /\ next' = 1
          /\ UNCHANGED committed
    /\ UNCHANGED <<log, processVars, pos, part, off, failed, histVars>>

\* CommitMessages, or its failure, which is only logged.
Commit ==
    /\ loop = "commit"
    /\ \/ committed' = [committed EXCEPT ![part] = off + 1]
       \/ UNCHANGED committed
    /\ loop' = "fetch"
    /\ UNCHANGED <<log, processVars, pos, part, off, next, failed, histVars>>

Loop == \/ \E p \in Partitions : Fetch(p)
        \/ FetchCancelled
        \/ \E ok \in BOOLEAN : RunHandler(ok)
        \/ Commit

\* The last process runs on when the topic is full and read to its end.
Idle ==
    /\ session = MaxSessions
    /\ phase = "up"
    /\ loop \in {"none", "fetch"}
    /\ \A p \in Partitions : Len(log[p]) = MaxLog
    /\ UNCHANGED vars

Next == \/ \E p \in Partitions : Publish(p)
        \/ Boot \/ Subscribe \/ Start \/ Cancel \/ CloseReturns \/ Crash
        \/ Loop
        \/ Idle

\* A process that is down is started again and boots, Close goes on, and the
\* goroutine runs: it takes messages of every partition, and sees the cancelled
\* context although it may take a message instead.
Fairness ==
    /\ WF_vars(Boot \/ Subscribe \/ Start)
    /\ WF_vars(CloseReturns)
    /\ \A p \in Partitions : SF_vars(Fetch(p))
    /\ WF_vars(\E ok \in BOOLEAN : RunHandler(ok))
    /\ WF_vars(Commit)
    /\ SF_vars(FetchCancelled)

SafeSpec == Init /\ [][Next]_vars
Spec     == SafeSpec /\ Fairness

-----------------------------------------------------------------------------
(* Properties *)

Readable(p, o) == o < Len(log[p]) /\ log[p][o + 1] = "envelope"

\* What a commit guarantees, across crashes, failed commits and restarts: every
\* envelope before the group's offset was given to every handler.
NothingSkipped ==
    \A p \in Partitions, o \in Offsets, h \in HandlerIds :
        (o < committed[p] /\ Readable(p, o)) => tried[<<p, o, h>>] > 0

\* Each handler meets the envelopes of a partition in their order: when one has
\* been tried, all before it have.
TriedInOrder ==
    \A p \in Partitions, o \in Offsets, h \in HandlerIds :
        tried[<<p, o, h>>] > 0 =>
            \A earlier \in 0..(o - 1) :
                Readable(p, earlier) => tried[<<p, earlier, h>>] > 0

\* An envelope is handled again only by another process: no more often than
\* there have been processes, however commits fail.
OncePerProcess ==
    \A run \in Runs : tried[run] <= session

\* Once the group has committed past a message no handler runs on it again, and
\* the offset never moves back.
CommittedIsPast ==
    [][\A p \in Partitions :
         /\ committed'[p] >= committed[p]
         /\ \A o \in Offsets, h \in HandlerIds :
              tried'[<<p, o, h>>] # tried[<<p, o, h>>] => o >= committed[p]]_vars

\* Every envelope written so far has been tried by every handler.
CaughtUp ==
    \A p \in Partitions, o \in Offsets, h \in HandlerIds :
        Readable(p, o) => tried[<<p, o, h>>] > 0

\* Through crashes, failed commits and restarts the group catches up with the
\* writers, who stop at MaxLog: every envelope is eventually tried by every
\* handler (not: handled, see AtLeastOnce).
EventuallyTried == []<>CaughtUp

\* Close returns: the goroutine sees the cancelled context.
CloseTerminates == phase = "closing" ~> phase = "down"

\* consumer.go: "Only commit if all handlers succeeded (at-least-once
\* delivery)": what the group has committed was handled successfully.
AtLeastOnce ==
    \A p \in Partitions, o \in Offsets, h \in HandlerIds :
        (o < committed[p] /\ Readable(p, o)) => <<p, o, h>> \in done

\* main.go: "Start consuming (after subscriptions are registered in
\* buildDependencies)": a process that is up consumes the topic.
UpMeansConsuming == phase = "up" => loop # "none"
=============================================================================
