----------------------------- MODULE PriorityPort -----------------------------
(***************************************************************************)
(* What an egress port promises, whatever drives it: a line that takes one   *)
(* frame at a time with a gap behind it, windows of the traffic classes, and *)
(* no time lost.  At any instant at which the line is free, the most urgent  *)
(* class with a frame that ends within its window sends it; frames of a      *)
(* class leave in the order in which they arrived.                           *)
(*                                                                         *)
(* There is no server, no timer and no notification here.  EgressPort, which *)
(* has them, implements this specification.                                  *)
(***************************************************************************)
EXTENDS Integers, Sequences

CONSTANTS
    Classes,        \* traffic classes, numbers, the highest is urgent
    Lengths,        \* line times of the frames
    PacketCapacity, \* frames a class can hold
    Gap             \* silence between two frames

Forever == -1

VARIABLES
    queue,          \* per class: the frames that wait, head first
    window,         \* per class: time until its window ends, 0 when it is over
    busy            \* time until the line is free, the gap included

vars == <<queue, window, busy>>

(* The classes whose first frame ends within the window.                     *)
Sendable ==
    {c \in Classes :
        /\ queue[c] # <<>>
        /\ window[c] = Forever \/ Head(queue[c]) <= window[c]}

Init ==
    /\ queue = [c \in Classes |-> <<>>]
    /\ window \in [Classes -> Nat \cup {Forever}]
    /\ busy = 0

(* A frame arrives; it is lost if the class is full.                         *)
Arrive(c, frame) ==
    /\ queue' = IF Len(queue[c]) < PacketCapacity
                THEN [queue EXCEPT ![c] = Append(@, frame)]
                ELSE queue
    /\ UNCHANGED <<window, busy>>

(* The most urgent frame that can be sent is put on the free line.           *)
Send(c) ==
    /\ busy = 0
    /\ c \in Sendable
    /\ \A d \in Sendable : d <= c
    /\ queue' = [queue EXCEPT ![c] = Tail(@)]
    /\ busy' = Head(queue[c]) + Gap
    /\ UNCHANGED window

(* A window begins, of any length; it is not closed before its end.          *)
BeginWindow(c) ==
    /\ window[c] = 0
    /\ window'[c] \in Nat \ {0}
    /\ window' = [window EXCEPT ![c] = window'[c]]
    /\ UNCHANGED <<queue, busy>>

(* Time passes, while the line is in use or nothing can be sent.             *)
Elapse ==
    /\ busy = 0 => Sendable = {}
    /\ busy' = IF busy = 0 THEN 0 ELSE busy - 1
    /\ window' = [c \in Classes |-> IF window[c] > 0 THEN window[c] - 1
                                    ELSE window[c]]
    /\ UNCHANGED queue

Next ==
    \/ \E c \in Classes, frame \in Lengths : Arrive(c, frame)
    \/ \E c \in Classes : Send(c) \/ BeginWindow(c)
    \/ Elapse

Spec == Init /\ [][Next]_vars

=============================================================================
