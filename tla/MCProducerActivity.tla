------------------------- MODULE MCProducerActivity -------------------------
(* Instance of ProducerActivity for TLC. *)
EXTENDS ProducerActivity

\* What the next steps read: not the entries nobody holds, nor the age of those the cache
\* does not have.
WithoutGarbage ==
  <<head, cache, overview, overlapped, shortened,
    IF cache = None THEN 0 ELSE entries[cache].age,
    [e \in Held \ {None} |-> <<entries[e].head, entries[e].stats>>]>>
=============================================================================
