------------------------- MODULE MCAppStoreEntitlement -------------------------
(* AppStoreEntitlement on small instances: the worlds a history takes place in. *)
EXTENDS AppStoreEntitlement, TLC

CONSTANTS old, new, r1, r2, basic, pro

Limits(tx, nt, time, fs, attempts, rechecks) ==
    [tx |-> tx, notes |-> nt, time |-> time, faults |-> fs, attempts |-> attempts, rechecks |-> rechecks]

\* One account, one receipt, one tier; Apple's notifications arrive in order.
Plain == [accounts |-> {new}, receipts |-> {r1}, tiers |-> {basic}, deleted |-> {}, untokened |-> {},
          unbound |-> {}, releasing |-> {}, events |-> {}, inOrder |-> TRUE, replay |-> "never",
          bounds |-> Limits(2, 3, 3, 1, 1, 0)]

\* A purchase that is verified and notified, expires and is refunded, during a number release.
Bought == [Plain EXCEPT !.events = {"verify", "SUBSCRIBED", "EXPIRED", "REFUND"}, !.releasing = {new},
                        !.bounds = Limits(2, 2, 3, 1, 1, 1)]

\* Two receipts of a legacy subscriber, whose renewal status changes out of order.
Clocks == [Plain EXCEPT !.events = {"verify", "SUBSCRIBED", "DID_CHANGE_RENEWAL_STATUS", "delete"},
                        !.receipts = {r1, r2}, !.inOrder = FALSE, !.unbound = {new},
                        !.bounds = Limits(2, 2, 0, 0, 1, 0)]

\* An account is deleted and its owner comes back, while Apple goes on charging.
Deletion == [Plain EXCEPT !.accounts = {old, new}, !.events = {"SUBSCRIBED", "DID_RENEW", "delete"},
                          !.inOrder = FALSE, !.bounds = Limits(3, 3, 2, 1, 2, 0)]

\* Two accounts of one person claim one receipt.
TwoClaims == [Plain EXCEPT !.accounts = {old, new}, !.events = {"verify", "SUBSCRIBED", "delete"},
                           !.inOrder = FALSE, !.bounds = Limits(2, 2, 2, 0, 1, 0)]

\* Apple gives notifications up, and they are replayed in a quiet moment.
Replayed == [Plain EXCEPT !.tiers = {basic, pro}, !.replay = "quiet", !.untokened = {new},
                          !.events = {"SUBSCRIBED", "DID_RENEW", "UPGRADE", "DID_FAIL_TO_RENEW", "EXPIRED"},
                          !.bounds = Limits(2, 4, 3, 1, 2, 0)]

MCWorlds == {Bought, Clocks, Deletion, TwoClaims, Replayed}
=============================================================================
