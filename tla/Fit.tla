-------------------------------- MODULE Fit --------------------------------
(***************************************************************************)
(* The search that the allocators with a fit mode share: over the free     *)
(* places in the order the allocator keeps them, the first that is large   *)
(* enough, or the first of the smallest or of the largest ones.            *)
(***************************************************************************)
EXTENDS Integers, Sequences, FiniteSetsExt

FitModes == {"first_fit", "the_best_fit", "the_worst_fit"}

(* A mutant: a place that is one word too small is taken.                  *)
FittingOneShort(size, need) == {i \in DOMAIN size : size[i] >= need - 1}

Fitting(size, need) == {i \in DOMAIN size : size[i] >= need}

(* The index of the place the loop of allocate ends with.                  *)
Choice(size, need, fit) ==
  LET fits == Fitting(size, need)
  IN  Min(CASE fit = "first_fit"     -> fits
            [] fit = "the_best_fit"  -> {i \in fits : \A j \in fits : size[i] <= size[j]}
            [] fit = "the_worst_fit" -> {i \in fits : \A j \in fits : size[i] >= size[j]})
=============================================================================
