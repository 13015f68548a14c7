----------------------------- MODULE BlockStore -----------------------------
(***************************************************************************)
(* What the disk driver promises to the file system driver: blocks that    *)
(* keep what was written to them.  A block is stored before the device has *)
(* it for good, but never two at a time: a machine that stops loses at     *)
(* most the block that was stored last.  AtaDisk implements this module.   *)
(***************************************************************************)
EXTENDS Integers, Sequences

CONSTANTS
    Addresses,  \* the block addresses of the disk
    Contents    \* what a block may hold

VARIABLES
    store,      \* what a read will give
    durable,    \* what the device has for good
    answer      \* what the last read gave

Init ==
    /\ store \in [Addresses -> Contents]
    /\ durable = store
    /\ answer = <<>>

WriteBlock(a, content) ==
    /\ durable = store
    /\ store' = [store EXCEPT ![a] = content]
    /\ UNCHANGED <<durable, answer>>

Settle == durable' = store /\ UNCHANGED <<store, answer>>

ReadBlocks(a, count) ==
    /\ answer' = [i \in 1 .. count |-> store[a + i - 1]]
    /\ UNCHANGED <<store, durable>>

Ask == answer' = <<>> /\ UNCHANGED <<store, durable>>

Crash ==
    /\ store' = durable
    /\ answer' = <<>>
    /\ UNCHANGED durable

Next ==
    \/ Settle \/ Ask \/ Crash
    \/ \E a \in Addresses, content \in Contents : WriteBlock(a, content)
    \/ \E a \in Addresses : \E count \in {n \in 1 .. 255 : a + n - 1 \in Addresses} :
         ReadBlocks(a, count)

Spec == Init /\ [][Next]_<<store, durable, answer>>

=============================================================================
