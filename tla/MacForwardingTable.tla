-------------------------- MODULE MacForwardingTable --------------------------
(***************************************************************************)
(* The unicast table of inet::MacForwardingTable                             *)
(* (linklayer/ethernet/common/MacForwardingTable.cc), as operators on a      *)
(* table: a function from keys, pairs of a VLAN and an address, to entries.  *)
(*                                                                         *)
(* Time is counted in seconds.  An entry has an age in place of its          *)
(* insertion time, up to AgingTime, at which it no longer answers; the entry *)
(* of a key that the table does not contain is NoEntry.                      *)
(***************************************************************************)
EXTENDS Integers

CONSTANT AgingTime      \* agingTime

ASSUME AgingTimeAssumption == AgingTime \in Nat \ {0}

NoInterface == -1
Entries ==
    [interface : Nat \cup {NoInterface}, age : 0..AgingTime, manual : BOOLEAN]

NoEntry == [interface |-> NoInterface, age |-> 0, manual |-> FALSE]
Entry(interface, age) == [interface |-> interface, age |-> age, manual |-> FALSE]

Older(age) == IF age < AgingTime THEN age + 1 ELSE AgingTime

(* An insertion time of SimTime::getMaxTime() marks a manual entry, which    *)
(* has no age.                                                               *)
Aged(e) == ~e.manual /\ e.age >= AgingTime

(* Faulty Lookup: aged entries answer until they are purged.                 *)
LookupIgnoringAge(table, key) == table[key].interface

(* getUnicastAddressForwardingInterface                                      *)
Lookup(table, key) ==
    IF Aged(table[key]) THEN NoInterface ELSE table[key].interface

(* setUnicastAddressForwardingInterface: the insertion time of a new entry   *)
(* is -1 s of simulation time, whatever the time is; an entry that is        *)
(* already there becomes a manual one.                                       *)
SetInterface(table, key, interface, now) ==
    IF table[key] = NoEntry
    THEN [table EXCEPT ![key] = Entry(interface, Older(now))]
    ELSE [table EXCEPT ![key].interface = interface, ![key].manual = TRUE]

(* Faulty Learn: an address that is known is not moved to another interface. *)
LearnOnce(table, key, interface) ==
    IF table[key] # NoEntry
    THEN [table EXCEPT ![key].age = 0]
    ELSE [table EXCEPT ![key] = Entry(interface, 0)]

(* learnUnicastAddressForwardingInterface.  The purge that precedes it is    *)
(* left out: it removes entries that do not answer any more, and learning    *)
(* treats them as it does absent ones.                                       *)
Learn(table, key, interface) ==
    IF table[key].manual THEN table
    ELSE [table EXCEPT ![key] = Entry(interface, 0)]

(* clearTable                                                                *)
Cleared(table) == [key \in DOMAIN table |-> NoEntry]

(* Faulty Initialized: the parameter forwardingTable is not read again.      *)
InitializedEmpty(table, configured, now) == Cleared(table)

(* initializeTable with parseForwardingTableParameter, which refuses a key   *)
(* given twice: every key is set once, in the empty table.                   *)
Initialized(table, configured, now) ==
    [key \in DOMAIN table |->
        IF key \in DOMAIN configured
        THEN SetInterface(Cleared(table), key, configured[key], now)[key]
        ELSE NoEntry]

(* Time passes.                                                              *)
AgedByTick(table) ==
    [key \in DOMAIN table |->
        IF table[key] = NoEntry THEN NoEntry
        ELSE [table[key] EXCEPT !.age = Older(@)]]

=============================================================================
