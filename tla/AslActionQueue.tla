--------------------------- MODULE AslActionQueue ---------------------------
(***************************************************************************)
(* asl_action_queue_*: the ring of letters between the classifier and the  *)
(* player.  Initialisation leaves the entries as they were in memory.      *)
(***************************************************************************)
EXTENDS AslClasses

CONSTANT Capacity       \* ASL_ACTION_QUEUE_CAPACITY, 8

ASSUME CapacityAssumption == Capacity \in Nat \ {0}

VARIABLES entries, read_index, write_index, count

queueVars == <<entries, read_index, write_index, count>>

Slots == 0 .. Capacity - 1

QueueInit ==
    /\ entries = [slot \in Slots |-> INVALID]
    /\ read_index = 0
    /\ write_index = 0
    /\ count = 0

\* A mutant: the capacity test is off by one.
HasRoomForOneMore == count <= Capacity

HasRoom == count < Capacity

NextIndex(index) == (index + 1) % Capacity

\* asl_action_queue_push returning true
Push(class) ==
    /\ HasRoom /\ asl_class_has_static_action(class)
    /\ entries' = [entries EXCEPT ![write_index] = class]
    /\ write_index' = NextIndex(write_index)
    /\ count' = count + 1
    /\ UNCHANGED read_index

\* asl_action_queue_pop returning true and the class
Pop(class) ==
    /\ count > 0
    /\ class = entries[read_index]
    /\ read_index' = NextIndex(read_index)
    /\ count' = count - 1
    /\ UNCHANGED <<entries, write_index>>

QueueNext == \E class \in Classes : Push(class) \/ Pop(class)

QueueSpec == QueueInit /\ [][QueueNext]_queueVars

-----------------------------------------------------------------------------

\* The letters waiting, oldest first.
Waiting == [i \in 1 .. count |-> entries[(read_index + i - 1) % Capacity]]

\* Types of the ring; the indices stay in the array and the count follows them.
QueueTypeOK ==
    /\ entries \in [Slots -> Letters \cup {INVALID}]
    /\ read_index \in Slots
    /\ write_index \in Slots
    /\ count \in 0 .. Capacity

\* The slots from the read index on hold letters that were pushed, never the
\* memory initialisation left, and the write index is where they end.
RingInv ==
    /\ write_index = (read_index + count) % Capacity
    /\ \A i \in 1 .. count : Waiting[i] \in Letters

Fifo == INSTANCE LetterFifo WITH pending <- Waiting

\* The ring loses, repeats and reorders no letter, at any fill level and across
\* any number of turns, and delivers nothing that was not pushed.
ImplementsFifo == Fifo!Spec

=============================================================================
