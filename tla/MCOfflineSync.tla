---------------------------- MODULE MCOfflineSync ----------------------------
(* Small instances of OfflineSync for TLC.                                  *)
EXTENDS OfflineSync, TLC

CONSTANTS h1, h2, b1, b2, r1, ph1

\* One registration and one scan; the second batch resubmits the first.
Resubmitted == [identity |-> (1 :> r1), altered |-> {}, externalId |-> TRUE,
                ops |-> (b1 :> {1, 2} @@ b2 :> {1, 2})]

\* One identity under two operationIds, the second with another payload.
Twins == [identity |-> (1 :> r1 @@ 2 :> r1), altered |-> {2}, externalId |-> FALSE,
          ops |-> (b1 :> {1, 2} @@ b2 :> {2})]

BothWorkloads == {Resubmitted, Twins}
OnePhone == [r \in Identities |-> ph1]
=============================================================================
