------------------------------- MODULE Broker -------------------------------
(***************************************************************************)
(* The RabbitMQ topology as the services set it up.  Each consumer         *)
(* declares its queues and bindings when it connects, one after the other; *)
(* a declaration is idempotent, and what it made stays.                    *)
(*                                                                         *)
(* A message goes to the work queue bound to its routing key, if there is  *)
(* one by then, and the publisher gets its confirmation either way:        *)
(* neither publisher sets the mandatory flag.  A rejected message goes to  *)
(* the dead-letter exchange, a fanout: to every dead-letter queue bound to *)
(* it by then.                                                             *)
(*                                                                         *)
(* Where a message goes depends on the bindings alone, so exchanges and    *)
(* queues are left out: a service declares them before it binds them.  The *)
(* contents of the work queues are part of Fixture and Ledger.             *)
(***************************************************************************)
EXTENDS Integers, Sequences

CONSTANT Messages   \* what may be published

SeqsExt == INSTANCE SequencesExt

Services == {"fixture", "ledger"}

\* A binding is named for its queue.
PickLockedQueue == "fixture.pick-locked"
MatchSettledQueue == "ledger.match-settled"
DeadLetterQueue(s) ==
    IF s = "fixture" THEN "fixture.pick-locked.dlq" ELSE "ledger.match-settled.dlq"

\* Defect: nobody binds Fixture's dead-letter queue.
FixtureWithoutDeadLetters == << PickLockedQueue >>

\* rabbit.declare_topology.
FixtureDeclarations == << DeadLetterQueue("fixture"), PickLockedQueue >>

\* The Binding beans of RabbitConfig, declared by RabbitAdmin.
LedgerDeclarations == << MatchSettledQueue, DeadLetterQueue("ledger") >>

Declarations(s) == IF s = "fixture" THEN FixtureDeclarations ELSE LedgerDeclarations

-----------------------------------------------------------------------------
VARIABLES
    bound,       \* queues bound to their exchange
    declared,    \* how many of its bindings each consumer has declared since it connected
    unrouted,    \* messages that were confirmed and went to no queue
    deadLetters  \* messages in each service's dead-letter queue

vars == <<bound, declared, unrouted, deadLetters>>

TypeOK ==
    /\ bound \subseteq {PickLockedQueue, MatchSettledQueue} \cup {DeadLetterQueue(s) : s \in Services}
    /\ \A s \in Services : declared[s] \in 0..Len(Declarations(s))
    /\ unrouted \subseteq Messages
    /\ deadLetters \in [Services -> SUBSET Messages]

Init ==
    /\ bound = {}
    /\ declared = [s \in Services |-> 0]
    /\ unrouted = {}
    /\ deadLetters = [s \in Services |-> {}]

\* Only then does a service consume.
Connected(s) == declared[s] = Len(Declarations(s))

Declare(s) ==
    /\ ~Connected(s)
    /\ declared' = [declared EXCEPT ![s] = @ + 1]
    /\ bound' = bound \cup {Declarations(s)[declared[s] + 1]}
    /\ UNCHANGED <<unrouted, deadLetters>>

\* A consumer that comes back declares everything again.
Disconnect(s) ==
    /\ declared' = [declared EXCEPT ![s] = 0]
    /\ UNCHANGED <<bound, unrouted, deadLetters>>

\* The exchange confirms a message; unless its queue is bound, it is gone.
\* lock_match declares no queue before it publishes.
PublishPickLocked(message) ==
    /\ unrouted' = IF PickLockedQueue \in bound THEN unrouted ELSE unrouted \cup {message}
    /\ UNCHANGED <<bound, declared, deadLetters>>

\* The outbox job declares Fixture's topology, never the ledger's, on its own
\* connection before it publishes.  Failing between the two leaves the bindings that
\* the declarations of Fixture's consumer may leave.
PublishMatchSettled(message) ==
    /\ bound' = bound \cup SeqsExt!ToSet(FixtureDeclarations)
    /\ unrouted' = IF MatchSettledQueue \in bound THEN unrouted ELSE unrouted \cup {message}
    /\ UNCHANGED <<declared, deadLetters>>

\* A consumer rejects a message without requeueing it.
Reject(message) ==
    /\ deadLetters' = [s \in Services |->
          IF DeadLetterQueue(s) \in bound THEN deadLetters[s] \cup {message} ELSE deadLetters[s]]
    /\ UNCHANGED <<bound, declared, unrouted>>

=============================================================================
