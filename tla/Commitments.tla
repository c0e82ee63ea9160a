----------------------------- MODULE Commitments -----------------------------
(***************************************************************************)
(* What the provably-fair service promises its callers (apps/backend,      *)
(* contracts/provably-fair.contract.ts): a player has one active seed at a *)
(* time, whose hash is committed to; each draw takes its next nonce; a     *)
(* reveal retires it and tells it, and a told seed is never drawn from     *)
(* again.  Every operation is one step here.  Seeds implements this with   *)
(* requests that are several SQL statements each; Verify builds on it.     *)
(***************************************************************************)
EXTENDS Sequences, Naturals

CONSTANT Player

VARIABLES seeds,      \* the seed pairs, in the order they were made
          handed,     \* the draws answered: pairs of a seed and a nonce
          told        \* the seeds revealed to their player

seedVars == <<seeds, handed, told>>

Fresh(p) == [player |-> p, nonce |-> 0, status |-> "active"]

Active(p) == {s \in DOMAIN seeds : seeds[s].player = p /\ seeds[s].status = "active"}

Init == seeds = <<>> /\ handed = {} /\ told = {}

\* A commitment of a player who has none.
Commit(p) ==
    /\ Active(p) = {}
    /\ seeds' = Append(seeds, Fresh(p))
    /\ UNCHANGED <<handed, told>>

\* A draw's answer may be lost; its nonce is used up all the same.
Draw(p) ==
    \E s \in Active(p) :
        /\ seeds' = [seeds EXCEPT ![s].nonce = @ + 1]
        /\ handed' \in {handed, handed \cup {<<s, seeds[s].nonce>>}}
        /\ UNCHANGED told

\* A rotation, or a reveal whose answer is lost, retires the seed untold.
Retire(p) ==
    \E s \in Active(p) :
        /\ seeds' = [seeds EXCEPT ![s].status = "revealed"]
        /\ told' \in {told, told \cup {s}}
        /\ UNCHANGED handed

Next == \E p \in Player : Commit(p) \/ Draw(p) \/ Retire(p)

Spec == Init /\ [][Next]_seedVars
=============================================================================
