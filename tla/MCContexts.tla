------------------------------ MODULE MCContexts ------------------------------
(***************************************************************************)
(* What the library remembers of contexts and what it makes of the strings *)
(* and numbers that pass through it, on small instances: two contexts of   *)
(* at most two devices, three wrappers and one object created in them; or  *)
(* one property list, or one conversion; and the unit tests.  None of the  *)
(* three knows of the others, so that one moves while the others rest.     *)
(***************************************************************************)
EXTENDS Contexts, UnitTests

CONSTANTS w1, w2, w3, c1, c2, d1, d2, k1, a, b

Symmetry == Permutations(Wrappers) \cup Permutations(Contexts) \cup Permutations(Devices)

MCInit == Init /\ ListInit /\ CallInit

MCNext ==
  \/ list = <<>> /\ call = NoCall /\ Next /\ UNCHANGED <<listVars, call>>
  \/ Init /\ call = NoCall /\ ListNext /\ UNCHANGED <<vars, call>>
  \/ Init /\ list = <<>> /\ call = NoCall /\ (CallNext \/ VersionNext)
     /\ UNCHANGED <<vars, listVars>>

MCSpec == MCInit /\ [][MCNext]_<<vars, listVars, call>>
=============================================================================
