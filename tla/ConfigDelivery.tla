--------------------------- MODULE ConfigDelivery ---------------------------
(***************************************************************************)
(* What the configuration push promises to the service that sends it,      *)
(* without threads, queues or handlers: a plugin only ever moves to a newer*)
(* configuration, and a push is answered with result 0 only when the plugin*)
(* has accepted a configuration at least as new as the one pushed.         *)
(***************************************************************************)
EXTENDS Integers

CONSTANTS Nodes, MaxVersion

VARIABLES
    db,       \* node -> version of the stored configuration
    applied,  \* node -> version the plugin accepted, 0 for none
    acked     \* the last positive answer: <<node, version>>, or NoAck

vars == <<db, applied, acked>>

NoAck == <<>>

Init ==
    /\ db = [n \in Nodes |-> 1]
    /\ applied = [n \in Nodes |-> 0]
    /\ acked = NoAck

\* The stored configuration changes.
Store(n) ==
    /\ db[n] < MaxVersion
    /\ db' = [db EXCEPT ![n] = @ + 1]
    /\ UNCHANGED <<applied, acked>>

\* The plugin accepts a stored configuration, never an older one than it has.
Apply(n) ==
    /\ \E v \in applied[n] .. db[n] : applied' = [applied EXCEPT ![n] = v]
    /\ UNCHANGED <<db, acked>>

\* A push of version v is answered with success.
Ack(n, v) ==
    /\ v <= applied[n]
    /\ acked' = <<n, v>>
    /\ UNCHANGED <<db, applied>>

\* An answer that reports no success replaces the last one.
Nack ==
    /\ acked' = NoAck
    /\ UNCHANGED <<db, applied>>

\* The process goes away, and with it what the plugins had accepted.
Exit ==
    /\ applied' = [n \in Nodes |-> 0]
    /\ acked' = NoAck
    /\ UNCHANGED db

Next ==
    \/ \E n \in Nodes : Store(n) \/ Apply(n)
    \/ \E n \in Nodes, v \in 0 .. MaxVersion : Ack(n, v)
    \/ Nack
    \/ Exit

Spec == Init /\ [][Next]_vars
=============================================================================
