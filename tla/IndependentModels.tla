------------------------- MODULE IndependentModels -------------------------
(***************************************************************************)
(* What the registries of oximo models promise to their callers: every     *)
(* model owns its registries outright.  A write changes one registry of    *)
(* one model, a fork starts from an equal but separate copy, and a         *)
(* snapshot never changes after it was taken.  How the copies are avoided  *)
(* (shared storage that detaches on the first write) is the subject of     *)
(* ModelRegistry, which implements this module.                            *)
(***************************************************************************)
CONSTANTS Models,      \* model identities, each given out at most once
          Registries,  \* the registries of a model: variables, constraints, ...
          Values,      \* contents of a registry
          Handles,     \* slots for snapshots held by callers
          Empty,       \* content of a registry of a new model
          None         \* no snapshot in the slot

VARIABLES live,     \* models in existence
          retired,  \* models that were dropped
          content,  \* content of every registry of every model
          view      \* content seen through every snapshot

vars == <<live, retired, content, view>>

Init == /\ live = {}
        /\ retired = {}
        /\ content = [c \in Models \X Registries |-> Empty]
        /\ view = [h \in Handles |-> None]

New(m) == /\ m \notin live \cup retired
          /\ live' = live \cup {m}
          /\ UNCHANGED <<retired, content, view>>

Write(m, r, v) == /\ m \in live
                  /\ content' = [content EXCEPT ![<<m, r>>] = v]
                  /\ UNCHANGED <<live, retired, view>>

Fork(m, n) ==
    /\ m \in live
    /\ n \notin live \cup retired
    /\ live' = live \cup {n}
    /\ content' = [c \in Models \X Registries |->
                     IF c[1] = n THEN content[<<m, c[2]>>] ELSE content[c]]
    /\ UNCHANGED <<retired, view>>

Snapshot(h, m, r) == /\ m \in live
                     /\ view[h] = None
                     /\ view' = [view EXCEPT ![h] = content[<<m, r>>]]
                     /\ UNCHANGED <<live, retired, content>>

Release(h) == /\ view' = [view EXCEPT ![h] = None]
              /\ UNCHANGED <<live, retired, content>>

Drop(m) == /\ m \in live
           /\ live' = live \ {m}
           /\ retired' = retired \cup {m}
           /\ content' = [c \in Models \X Registries |->
                            IF c[1] = m THEN Empty ELSE content[c]]
           /\ UNCHANGED view

Next == \/ \E m \in Models : New(m) \/ Drop(m)
        \/ \E m, n \in Models : Fork(m, n)
        \/ \E m \in Models, r \in Registries, v \in Values : Write(m, r, v)
        \/ \E h \in Handles, m \in Models, r \in Registries : Snapshot(h, m, r)
        \/ \E h \in Handles : Release(h)

Spec == Init /\ [][Next]_vars
=============================================================================
