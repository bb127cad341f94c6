-------------------------- MODULE MCAuthorizations --------------------------
(* Two identities, each with its primary key, and an account of nobody;    *)
(* one world for every kind of request, or for two that meet.              *)
EXTENDS Authorizations, TLC

CONSTANTS ann, ben, keyA, keyB, keyN

MCPrimary == ann :> keyA @@ ben :> keyB

Ask(type, target, subject, expiry, asObject) ==
  [type |-> type, target |-> target, subject |-> subject, expiry |-> expiry, asObject |-> asObject]

JoinWorld   == {Ask("JoinIdentity", keyN, "none", e, o) : e \in {Never, 2}, o \in BOOLEAN}
RotateWorld == {Ask("RotatePrimaryKey", keyN, "none", Never, o) : o \in BOOLEAN}
                 \cup {Ask("AttestPrimaryKeyRotation", keyN, ann, 2, FALSE)}
SwapWorld   == {Ask("RotatePrimaryKeyToSecondary", keyN, "none", 2, FALSE)}
GiveWorld   == {Ask("PortfolioCustody", ben, "portfolio", e, FALSE) : e \in {Never, 2}}
AssetWorld  == {Ask("TransferTicker", ben, "ticker", Never, FALSE),
                Ask("TransferAssetOwnership", ben, "ticker", 2, FALSE)}
AgentWorld  == {Ask("BecomeAgent", t, "agency", Never, FALSE) : t \in {ann, ben}}
SignerWorld == {Ask("AddMultiSigSigner", t, "none", Never, FALSE) : t \in {keyN, ben}}
PayerWorld  == {Ask("AddRelayerPayingKey", keyB, s, 0, TRUE) : s \in {"small", "large"}}
                 \cup {Ask("AddRelayerPayingKey", keyN, "small", 2, FALSE)}

MCWorlds == {JoinWorld, RotateWorld, SwapWorld, GiveWorld, AssetWorld, AgentWorld,
             SignerWorld, PayerWorld}
=============================================================================
