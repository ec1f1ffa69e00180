--------------------------- MODULE MCServiceRequests ---------------------------
(* ServiceRequests on small instances: which commands meet in a history.     *)
EXTENDS ServiceRequests, TLC

CONSTANTS c1, c2, c3, c4, m1, m2, x1, a1, a2, a3, l1, n1, g1, o1, w1, s0, s1, s2, v1, v2, k1, k2, k3, k4

Ask(op, arg, base, key) == [op |-> op, arg |-> arg, base |-> base, key |-> key, local |-> FALSE]

\* c: create, m: move, x: cancel, a: add a service, g: resume what is pending, o: create here
\* alone; n1 is m1 again under another key, a3 is a1 again under its own, l1 a command with a
\* key that was used.
CommandOf(p) ==
    CASE p = c1 -> Ask("create", s0, 0, k1) [] p = c2 -> Ask("create", s1, 0, k2) [] p = c3 -> Ask("create", s0, 0, k3)
      [] p = c4 -> Ask("create", s2, 1, k4) [] p = o1 -> [Ask("create", s0, 0, k1) EXCEPT !.local = TRUE]
      [] p = m1 -> Ask("reschedule", s1, 1, k2) [] p = m2 -> Ask("reschedule", s2, 2, k3)
      [] p = n1 -> Ask("reschedule", s1, 1, k4)
      [] p = x1 -> Ask("cancel", None, 2, k4) [] p \in {a1, a3} -> Ask("add_service", v1, 1, k2)
      [] p = a2 -> Ask("add_service", v2, 2, k3) [] p = l1 -> Ask("cancel", None, 1, k2)
      [] OTHER -> Ask("recover", None, 0, k1)

MCCmd == [p \in Callers |-> CommandOf(p)]

Meeting(callers, kind) == [callers |-> callers, kind |-> kind]

MCCasts == {Meeting({m1, m2}, "provider"), Meeting({m1, x1}, "provider"), Meeting({m1, c4}, "provider"),
            Meeting({m1, n1}, "provider"), Meeting({c1, g1}, "absent"), Meeting({c1, c3}, "absent"),
            Meeting({c1, c2}, "absent"), Meeting({c2, o1}, "absent"), Meeting({a1, a3}, "provider"),
            Meeting({o1, m1, l1, x1, a2, g1}, "absent")}

\* Two services are added, one after the other.
MCOverlap == {Meeting({a1, a2}, "provider")}
=============================================================================
