----------------------------- MODULE AtLeastOnce -----------------------------
(* What the delivery of blocks promises: a block that a queue has accepted is  *)
(* computed at least once, unless somebody deletes the queue.  Before a queue   *)
(* has accepted it, it may get lost without a word.                             *)
EXTENDS FiniteSets

CONSTANT Blocks
VARIABLES accepted,   \* blocks that are in somebody's care
          done,       \* blocks computed at least once
          lost

avars == <<accepted, done, lost>>

AInit == accepted = {} /\ done = {} /\ lost = {}

Fresh == Blocks \ (accepted \union done \union lost)

Accept == \E m \in Fresh : accepted' = accepted \union {m} /\ UNCHANGED <<done, lost>>
Lose == \E M \in SUBSET Fresh : lost' = lost \union M /\ UNCHANGED <<accepted, done>>
Compute == \E m \in accepted \union lost :
  accepted' = accepted \ {m} /\ lost' = lost \ {m} /\ done' = done \union {m}
\* Deleting a queue gives up what was in it, what is being computed may end all the same.
Purge == \E M \in SUBSET accepted :
  accepted' = accepted \ M /\ lost' = lost \union M /\ done' = done

ASpec == AInit /\ [][Accept \/ Lose \/ Compute \/ Purge]_avars
=============================================================================
