--------------------------- MODULE KafkaPartition ---------------------------
(***************************************************************************)
(* One partition of a topic as a member of a consumer group sees it        *)
(* through kafka-go's Reader (a library, external): messages are fetched   *)
(* in order; a commit overwrites the group's offset, also with a smaller   *)
(* one; whoever joins the group anew reads from that offset.               *)
(***************************************************************************)
EXTENDS Naturals, FiniteSets

CONSTANT Last      \* the offset of the last message; the first one is 1

ASSUME PartitionAssumption == Last \in Nat

VARIABLES
    position,   \* the offset FetchMessage returns next
    committed   \* where the group resumes

partitionVars == <<position, committed>>

Offsets == 1..Last

PartitionTypeOK == position \in 1..Last + 1 /\ committed \in 1..Last + 1

PartitionInit == position = 1 /\ committed = 1

FetchMessage ==
    /\ position <= Last
    /\ position' = position + 1
    /\ UNCHANGED committed

\* CommitMessages of a nonempty set of messages: the largest one counts.
CommitMessages(msgs) ==
    /\ committed' \in {o + 1 : o \in {m \in msgs : \A n \in msgs : n <= m}}
    /\ UNCHANGED position

\* The group's next generation, or a new process.
Rejoin ==
    /\ position' = committed
    /\ UNCHANGED committed

=============================================================================
