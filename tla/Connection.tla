------------------------------- MODULE Connection ------------------------------
(***************************************************************************)
(* Connecting to a node and its middlewares, and disconnecting: what is    *)
(* checked on the way, and which connections are left open.                *)
(***************************************************************************)
EXTENDS FollowedCall

(* The versions of node and chain, and how the manager and the middlewares *)
(* fare.  open: the connections; client: what has become of it; refused    *)
(* (history): where the call was turned away.                              *)
Chains == [node : BOOLEAN, spec : BOOLEAN, manager : {"none", "works", "fails"},
           v1 : {"none", "works", "forbids", "down"}, v2 : {"none", "works", "foreign", "down"},
           open : SUBSET {"socket", "api"}, client : {"none", "live", "leaving", "gone"},
           refused : {"nowhere", "unreachable", "versions", "nodeError", "context", "v1", "v2"}]

TypeOK ==
  /\ chain \in Chains
  /\ call.op \in {"none", "connect", "disconnect"}
  /\ call.left \subseteq {"open", "node", "spec", "forever", "api", "context", "v1", "v2", "indexer", "delay"}

Init ==
  /\ chain \in Chains
  /\ chain.open = {} /\ chain.client = "none" /\ chain.refused = "nowhere"
  /\ call = Idle

-----------------------------------------------------------------------------
(* assertExpectedChainVersion, over a socket of its own.                   *)

Connect ==
  /\ call.op = "none" /\ chain.client = "none" /\ chain.refused = "nowhere"
  /\ call' = [Idle EXCEPT !.op = "connect", !.left = {"open"}]
  /\ chain' = [chain EXCEPT !.open = @ \cup {"socket"}]

RefusedAt(where, open) == call' = Idle /\ chain' = [chain EXCEPT !.refused = where, !.open = open]
Goes(reads) == call' = [call EXCEPT !.left = reads] /\ UNCHANGED chain

SocketOpens == Answers("connect", "open") /\ Goes({"node", "spec"})
SocketFails == Answers("connect", "open") /\ RefusedAt("unreachable", chain.open \ {"socket"})

(* The answers come in any order.  A version that is not supported refuses *)
(* the call, and the socket stays.  Mutant: the first answer will do.      *)
Both_First(left) == TRUE
Both(left)       == left = {}
Version(r, supported) ==
  /\ Answers("connect", r)
  /\ LET left == call.left \ {r}
     IN IF ~supported THEN RefusedAt("versions", chain.open)
        ELSE IF Both(left)
          THEN /\ call' = [call EXCEPT !.left = {"api"}]
               /\ chain' = [chain EXCEPT !.open = @ \ {"socket"}]
          ELSE Goes(left)
NodeVersion == Version("node", chain.node)
SpecVersion == Version("spec", chain.spec)

(* An error holds no version, which is not a supported one.  As the answer *)
(* for the spec version it throws in the handler: that stays outstanding.  *)
NodeErrs == Answers("connect", "node") /\ RefusedAt("nodeError", chain.open)

(* The end of a connection that was open settles nothing.                  *)
SocketGoes == call.op = "connect" /\ call.left \cap {"node", "spec"} # {} /\ Goes({"forever"})

-----------------------------------------------------------------------------
(* connect *)

ApiReady ==
  /\ Answers("connect", "api")
  /\ call' = [call EXCEPT !.left = {"context"}]
  /\ chain' = [chain EXCEPT !.open = @ \cup {"api"}]

(* Context.create sets the Signing Manager, which may fail.                *)
Then(v2) == IF v2 THEN {"v2"} ELSE {}
ContextReady ==
  /\ Answers("connect", "context")
  /\ IF chain.manager = "fails" THEN RefusedAt("context", chain.open)
     ELSE Goes(IF chain.v1 # "none" THEN {"v1"} ELSE Then(chain.v2 # "none"))

(* Only a middleware that does not let the caller in refuses it.  Mutant:  *)
(* one that does not answer does too.                                      *)
LetsIn_Works(v1) == v1 = "works"
LetsIn(v1)       == v1 # "forbids"
Heartbeat ==
  /\ Answers("connect", "v1")
  /\ IF LetsIn(chain.v1) THEN Goes(Then(chain.v2 # "none")) ELSE RefusedAt("v1", chain.open)

(* The second one must answer, and be of the same chain.  Mutant: it need  *)
(* not be.                                                                 *)
SameChain_Any(v2) == v2 # "down"
SameChain(v2)     == v2 = "works"
Metadata ==
  /\ Answers("connect", "v2")
  /\ IF SameChain(chain.v2) THEN Goes({"indexer"}) ELSE RefusedAt("v2", chain.open)

(* Its own version only leads to a warning.                                *)
IndexerVersion ==
  /\ Answers("connect", "indexer")
  /\ IF chain.v2 = "down" THEN RefusedAt("v2", chain.open) ELSE Goes({})

Return ==
  /\ call.op = "connect" /\ Built
  /\ call' = Idle /\ chain' = [chain EXCEPT !.client = "live"]

-----------------------------------------------------------------------------
(* disconnect: the Context refuses every access from now on (the clones of *)
(* procedures do not), and the connection is closed half a second later.   *)
Disconnect ==
  /\ call.op = "none" /\ chain.client = "live"
  /\ call' = [Idle EXCEPT !.op = "disconnect", !.left = {"delay"}]
  /\ chain' = [chain EXCEPT !.client = "leaving"]
DelayEnds ==
  /\ Answers("disconnect", "delay")
  /\ call' = Idle /\ chain' = [chain EXCEPT !.client = "gone", !.open = @ \ {"api"}]

(* Node and middlewares are exchanged, go down and come back (external).   *)
Upgrade       == Happens([chain EXCEPT !.spec = ~@])
ChangeV1(how) == chain.v1 # "none" /\ Happens([chain EXCEPT !.v1 = how])
ChangeV2(how) == chain.v2 # "none" /\ Happens([chain EXCEPT !.v2 = how])

Next ==
  \/ Connect \/ SocketOpens \/ SocketFails \/ NodeVersion \/ SpecVersion \/ NodeErrs \/ SocketGoes
  \/ ApiReady \/ ContextReady \/ Heartbeat \/ Metadata \/ IndexerVersion \/ Return
  \/ Disconnect \/ DelayEnds
  \/ Upgrade
  \/ \E how \in {"works", "forbids", "down"} : ChangeV1(how)
  \/ \E how \in {"works", "foreign", "down"} : ChangeV2(how)

-----------------------------------------------------------------------------
(* Properties *)

Welcome ==
  /\ chain.node /\ chain.spec /\ chain.manager # "fails"
  /\ chain.v1 # "forbids" /\ chain.v2 \in {"none", "works"}

(* Who cannot connect could not reach the node or got an error from it, or *)
(* one of the parties would not have had him.                              *)
TurnedAwayRightly ==
  TurnedAway /\ Fresh /\ call.op = "connect" =>
    ~Welcome \/ chain'.refused \in {"unreachable", "nodeError"}

(* Who is connected, nothing having changed, was welcome to everyone, and  *)
(* holds one connection.  Nothing else is left open: but for the socket    *)
(* when the versions are not supported or not told, and the connection     *)
(* itself when the Context or a middleware refuses.                        *)
ConnectedRightly ==
  /\ Built /\ Fresh /\ call.op = "connect" => Welcome
  /\ call.op = "none" =>
       chain.open = CASE chain.client = "live"                        -> {"api"}
                      [] chain.refused \in {"versions", "nodeError"} -> {"socket"}
                      [] chain.refused \in {"context", "v1", "v2"}   -> {"api"}
                      [] OTHER                                        -> {}
===============================================================================
