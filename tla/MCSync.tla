------------------------------- MODULE MCSync -------------------------------
(* Jobs that sync one source beside one another, for TLC: the CronJob's, the
   next one, which nothing makes wait for it, and one made by hand.  Two legacy
   entries are listed and one comes; two of the provider become one item. *)
EXTENDS CatalogueSync, TLC

JobSymmetry == Permutations(Runs)

MCTarget  == [e1 |-> "i1", e2 |-> "i2", e3 |-> "i3", p1 |-> "q1", p2 |-> "q1"]
MCAtFirst == <<"e1", "e2">>
MCEvents  == <<[old |-> FALSE, of |-> {"p1", "p2"}]>>
=============================================================================
