-------------------------- MODULE ConsumerPromise --------------------------
(***************************************************************************)
(* What the consumers of this system promise of a topic they acknowledge by *)
(* hand, with no batches, queues, transactions or crashes: what a message    *)
(* asks for is done before the message is acknowledged, is never undone, and *)
(* the acknowledged offset never goes back.                                 *)
(*                                                                          *)
(* The raw archive implements this when compactions do not share an output  *)
(* key; so do the normalizer, the serving consumers and the inference        *)
(* worker.                                                                  *)
(***************************************************************************)
EXTENDS Integers

VARIABLES length,    \* messages in the topic
          kept,      \* offsets of the messages whose effect is there to stay
          promised   \* messages acknowledged to the broker

vars == <<length, kept, promised>>

Init == length \in Nat /\ kept = {} /\ promised = 0

\* More messages; one may ask for nothing, or for what another did.
Grow == /\ length' \in Nat
        /\ length' > length
        /\ kept' \in SUBSET (1..length')
        /\ kept \subseteq kept'
        /\ UNCHANGED promised

\* More messages are kept; a second copy of one changes nothing.
Keep == /\ kept' \in SUBSET (1..length)
        /\ kept \subseteq kept'
        /\ UNCHANGED <<length, promised>>

Promise == /\ promised' \in promised..length
           /\ 1..promised' \subseteq kept
           /\ UNCHANGED <<length, kept>>

Next == Grow \/ Keep \/ Promise

Spec == Init /\ [][Next]_vars
=============================================================================
