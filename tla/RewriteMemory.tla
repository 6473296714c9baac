---------------------------- MODULE RewriteMemory ----------------------------
(***************************************************************************)
(* What the semantic cache promises to those that use it: a rewrite is     *)
(* known as soon as it was remembered, and stays known until everything is *)
(* forgotten.  Damage takes the first half of it away, for good: what is   *)
(* remembered then may not be known.  Callers that do not wait for one     *)
(* another get less: to remember a rewrite may overwrite what others       *)
(* remembered and bring back what was forgotten, but it never invents one. *)
(***************************************************************************)
CONSTANT Rewrite

VARIABLES
    known,      \* the rewrites that can be found
    ever,       \* the rewrites that were remembered at some time
    damaged,    \* what is remembered may not be found
    exclusive   \* callers wait for one another

Init == known = {} /\ ever = {} /\ damaged = FALSE /\ exclusive \in BOOLEAN

Remember(d) ==
    /\ ~damaged
    /\ known' = known \cup {d}
    /\ ever' = ever \cup {d}
    /\ UNCHANGED damaged

Misfile(d) ==
    /\ damaged
    /\ known' \in {known, known \cup {d}}
    /\ ever' = ever \cup {d}
    /\ UNCHANGED damaged

Overwrite(d) ==
    /\ ~exclusive
    /\ ever' = ever \cup {d}
    /\ known' \in SUBSET ever'
    /\ damaged' \in BOOLEAN

Damage == damaged' = TRUE /\ UNCHANGED <<known, ever>>

Forget == known' = {} /\ damaged' = FALSE /\ UNCHANGED ever

Next ==
    /\ (\E d \in Rewrite : Remember(d) \/ Misfile(d) \/ Overwrite(d)) \/ Damage \/ Forget
    /\ UNCHANGED exclusive

Spec == Init /\ [][Next]_<<known, ever, damaged, exclusive>>
=============================================================================
