---------------------------- MODULE MCReconcile ----------------------------
(* Small instances of Reconcile: an agent and a fleet under policies, with  *)
(* changes of image, of size, of mode and of policy between the manifests.  *)
EXTENDS Reconcile

CONSTANTS a, f, t1

Agent(mode, count, image) ==
  [kind |-> "Agent", name |-> a, mode |-> mode, count |-> count, image |-> image,
   soul |-> FALSE, warm |-> FALSE]

Fleet(mode, count, warm) ==
  [kind |-> "Fleet", name |-> f, mode |-> mode, count |-> count, image |-> 1,
   soul |-> TRUE, warm |-> warm]

MCManifests == {
  [caps |-> {4}, items |-> <<Fleet("static", 3, FALSE), Agent("static", 2, 1)>>],
  [caps |-> {4, 5}, items |-> <<Agent("static", 3, 2), Fleet("onDemand", 2, FALSE)>>],
  [caps |-> {}, items |-> <<Agent("onDemand", 1, 2), Fleet("onDemand", 2, TRUE)>>]}
============================================================================
