--------------------------------- MODULE Venues --------------------------------
(***************************************************************************)
(* Modifying a venue, and the venues an Asset may be settled through,      *)
(* while others do the same.                                               *)
(***************************************************************************)
EXTENDS FollowedCall, FiniteSets

CONSTANTS
  Texts,       \* descriptions
  Types,       \* types of venues
  VenueIds,    \* venues
  NotPassed    \* an argument that is left out

(* The description and the type of a venue, whether the Asset filters its  *)
(* venues, and which it allows.                                            *)
Chains == [text : Texts, type : Types, filtering : BOOLEAN, allowed : SUBSET VenueIds]

Modifies == [text : Texts \cup {NotPassed}, type : Types \cup {NotPassed}]
Filters  == [enabled : BOOLEAN \cup {NotPassed}, allow : SUBSET VenueIds, disallow : SUBSET VenueIds]

TypeOK ==
  chain \in Chains /\ call.op \in {"none", "modify", "filter"} /\ call.left \subseteq {"details", "filtering"}

Init == chain \in Chains /\ call = Idle

-----------------------------------------------------------------------------
ModifyVenue(args)  == Calls("modify", args, {"details"})
SetFiltering(args) == Calls("filter", args, {"filtering"})

(* Neither may be what it is already, whatever the other is.               *)
MayModify == call.args.text # chain.text /\ call.args.type # chain.type
ReadDetails == Answers("modify", "details") /\ Check("details", MayModify)

(* The filter is only sent when it is to change.  Mutant: whenever it is   *)
(* as asked.                                                               *)
Sends_Same(enabled) == enabled # NotPassed /\ chain.filtering = enabled
Sends(enabled) == enabled # NotPassed /\ chain.filtering # enabled
ReadFiltering ==
  Answers("filter", "filtering") /\ Keep("filtering", [send |-> Sends(call.args.enabled)], {})

-----------------------------------------------------------------------------
(* The settlement pallet (external to the SDK) *)

Given(new, old) == IF new = NotPassed THEN old ELSE new

(* updateVenueDetails and updateVenueType, of what is passed.  Mutant: of  *)
(* what is not as well.                                                    *)
DispatchModify_All ==
  call.op = "modify" /\ Dispatches(TRUE, [chain EXCEPT !.text = call.args.text, !.type = call.args.type])
DispatchModify ==
  call.op = "modify" /\ Dispatches(TRUE, [chain EXCEPT !.text = Given(call.args.text, @),
                                                       !.type = Given(call.args.type, @)])
(* setVenueFiltering, allowVenues and disallowVenues, those that are sent, *)
(* in this order.                                                          *)
DispatchFilter ==
  call.op = "filter" /\ Dispatches(TRUE, [chain EXCEPT
    !.filtering = IF call.read.send THEN call.args.enabled ELSE @,
    !.allowed = (@ \cup call.args.allow) \ call.args.disallow])

Others == \E after \in Chains :
  /\ Cardinality({f \in DOMAIN chain : chain[f] # after[f]}) = 1
  /\ Happens(after)

Next ==
  \/ \E args \in Modifies : ModifyVenue(args)
  \/ \E args \in Filters : SetFiltering(args)
  \/ ReadDetails \/ ReadFiltering \/ DispatchModify \/ DispatchFilter \/ Others

-----------------------------------------------------------------------------
(* Properties *)

(* Who is turned away asked for a description or a type the venue has.     *)
TurnedAwayRightly ==
  TurnedAway /\ Fresh => call.args.text = chain.text \/ call.args.type = chain.type

(* What is passed is so in the end, even if the filter was set in between  *)
(* to what it was to be, and what is not passed stays as it is; but a      *)
(* filter found set already and reset in between stays reset.              *)
DoneAsAsked ==
  Built /\ Ends /\ call.op = "filter" =>
    /\ call.args.enabled # NotPassed /\ (Fresh \/ call.read.send) =>
         chain'.filtering = call.args.enabled
    /\ call.args.enabled = NotPassed => chain'.filtering = chain.filtering
    /\ chain'.allowed \cap call.args.disallow = {}
    /\ call.args.allow \ call.args.disallow \subseteq chain'.allowed
===============================================================================
