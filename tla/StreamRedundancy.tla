--------------------------- MODULE StreamRedundancy ---------------------------
(***************************************************************************)
(* Frame replication and elimination (protocolelement/redundancy): what      *)
(* StreamIdentifier, StreamSplitter and the coders make of an outgoing       *)
(* packet, and how StreamMerger tells the copies that come in from packets   *)
(* it has not seen.                                                          *)
(*                                                                         *)
(* The mappings are the modules' parameters, functions on streams.  A        *)
(* history maps each output stream to the sequence numbers seen last.        *)
(***************************************************************************)
EXTENDS Integers, Sequences

CONSTANT BufferSize     \* bufferSize of StreamMerger

ASSUME BufferSizeAssumption == BufferSize \in Nat \ {0}

(* StreamSplitter::pushPacket: one copy per output stream; a stream without  *)
(* a mapping is passed on as it is.                                          *)
SplitStreams(splitting, stream) ==
    IF stream \in DOMAIN splitting THEN splitting[stream] ELSE {stream}

(* Faulty Matches: only the last sequence number is compared.                *)
MatchesLast(history, merging, stream, number) ==
    stream \in DOMAIN merging =>
        LET seen == history[merging[stream]]
        IN  Len(seen) > 0 => seen[Len(seen)] # number

(* StreamMerger::matchesPacket: the packet is no copy of one in the history. *)
Matches(history, merging, stream, number) ==
    stream \in DOMAIN merging =>
        LET seen == history[merging[stream]]
        IN  \A i \in DOMAIN seen : seen[i] # number

(* Faulty Merge: room is made before a number is added, and one too many is  *)
(* erased.                                                                   *)
MergeShort(history, merging, stream, number) ==
    IF stream \notin DOMAIN merging THEN history
    ELSE [history EXCEPT ![merging[stream]] =
            IF Len(@) + 1 >= BufferSize THEN Append(Tail(@), number)
            ELSE Append(@, number)]

(* StreamMerger::processPacket: the number joins the history, whose oldest   *)
(* number leaves it when there are more than bufferSize.                     *)
Merge(history, merging, stream, number) ==
    IF stream \notin DOMAIN merging THEN history
    ELSE [history EXCEPT ![merging[stream]] =
            IF Len(@) + 1 > BufferSize THEN Append(Tail(@), number)
            ELSE Append(@, number)]

=============================================================================
