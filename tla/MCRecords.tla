-------------------------------- MODULE MCRecords --------------------------------
(* Small instances of Records for TLC.                                            *)
EXTENDS Records, TLC

CONSTANTS c1, c2, o1, o2, k1, k2, k3, d1, p1, p2, i1, x1, x2, h1, h2

\* Operations that act on the same rows; each set is explored on its own.
CycleWork   == [ids |-> {c1, c2, o1, d1},
                ops |-> {"cycle.create", "cycle.update", "cycle.remove", "org.create",
                         "deal.create", "deal.update"}]
PlanWork    == [ids |-> {c1, p1, p2, x1, x2},
                ops |-> {"cycle.create", "cycle.update", "cycle.remove", "plan.create", "plan.image"}]
ContactWork == [ids |-> {o1, k1, k2, k3},
                ops |-> {"org.create", "org.remove", "contact.create", "contact.update",
                         "contact.remove"}]
PartyWork   == [ids |-> {c1, o1, o2, k1, d1},
                ops |-> {"cycle.create", "org.create", "org.remove", "contact.create",
                         "contact.remove", "deal.create", "deal.update"}]
ContentWork == [ids |-> {c1, o1, d1, i1, x1},
                ops |-> {"cycle.create", "org.create", "org.remove", "deal.create", "deal.remove",
                         "item.create", "item.remove"}]
AllWork     == {CycleWork, PlanWork, ContactWork, PartyWork, ContentWork}

Symmetry == Permutations({h1, h2}) \cup Permutations({p1, p2})
=============================================================================
