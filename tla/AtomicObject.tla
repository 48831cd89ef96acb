---------------------------- MODULE AtomicObject ----------------------------
(***************************************************************************)
(* What smoothfs promises of an object, whichever tier holds it: a single  *)
(* atomic copy.  A change is applied once, and reported done only when it  *)
(* is applied; nothing else alters the contents.  There are no tiers, no   *)
(* descriptors and no movement here, so a movement must be invisible.      *)
(***************************************************************************)
EXTENDS Naturals

CONSTANT Changes          \* the changes users may make

VARIABLES contents,       \* the changes the object holds
          acked           \* the changes reported done

Init == contents = {} /\ acked = {}

Apply(n) ==
    /\ contents' = contents \union {n}
    /\ UNCHANGED acked

Ack(n) ==
    /\ n \in contents
    /\ acked' = acked \union {n}
    /\ UNCHANGED contents

Next == \E n \in Changes : Apply(n) \/ Ack(n)

Spec == Init /\ [][Next]_<<contents, acked>>
=============================================================================
