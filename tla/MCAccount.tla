------------------------------- MODULE MCAccount -------------------------------
(* Account on small instances: which runs meet in a history, and of what kind.  *)
EXTENDS Account, TLC

CONSTANTS
    r1, r2, r3, r4, p1, call, renewal, n1, n2,
    t1, t2, b1, q1, m1, c1, d1, d2, page1,
    a1, a2, u1, u2, f1, g1, w1, w2

ReleaseKinds == r1 :> "worker" @@ r2 :> "deletion" @@ r3 :> "release" @@ r4 :> "sweep"

NumberCasts == {{}, {r1, r2, r3, p1}, {r1, r4, p1}, {r2, r4, p1}}

HandlerKinds == [p \in {t1, t2} |-> "refresh"] @@ b1 :> "business" @@ m1 :> "patch" @@ c1 :> "connect"
               @@ [p \in {d1, d2} |-> "disconnect"] @@ q1 :> "reconcile"

HandlerCasts == {{}, {t1, t2, c1, d1}, {m1, c1, d1}, {m1, b1, q1}, {m1, q1, c1}, {b1, c1, d1}, {d1, d2, c1, t1}}

AsksOf == q1 :> m1

Answers == c1 :> page1

\* One contractor on each Jobber account; the worker cannot read the second one's record.
OnAccount == <<a1, a2>>

Meetings == {{}, {u1, u2}, {u1, f1}, {u1, w1}, {f1, g1}, {f1, w1}, {g1, w1}, {w1, w2}}

\* The second receipt of a history comes while a worker has a page open, and not where uses
\* or authorisations take part.
MCNext ==
    /\ AccountNext
    /\ counter = 1 /\ counter' = 2 =>
         /\ \E w \in DisconnectWorkers : worker[w].at = "page"
         /\ \A u \in TokenUses : use[u].at = "away"
         /\ \A f \in OAuthFlows : flow[f].at = "away"

MCSpec == AccountInit /\ [][MCNext]_<<part, vars, grantVars, jobberVars>>
=============================================================================
