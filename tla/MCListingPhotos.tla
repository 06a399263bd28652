----------------------------- MODULE MCListingPhotos -----------------------------
(* ListingPhotos on small instances, for TLC.                                *)
EXTENDS ListingPhotos

MCSymmetry == Permutations(Processes)

\* Staff requests race over three photos while no gallery is listed, and then time
\* does not matter; galleries of two photos are listed for one process, while one
\* staff request of either process is at work.
MCFocus ==
    LET busy == {p \in Processes : ~At(p, "idle")}
        shows == {p \in Processes : cache[p] # None \/ Listing(p) # {}}
    IN \/ shows = {} /\ Cardinality(busy) <= 1
       \/ shows = {} /\ (quiet = 0 \/ stored \cup ToSet(order) = {})
       \/ /\ Cardinality(shows) = 1 /\ Cardinality(busy) <= 1
          /\ stored \cup ToSet(order) \cup UNION {staff[p].photos : p \in busy} \subseteq {1, 2}
================================================================================
