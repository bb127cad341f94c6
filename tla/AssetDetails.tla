------------------------------ MODULE AssetDetails -----------------------------
(***************************************************************************)
(* What is written down of an Asset: modifyAsset (divisibility, name,      *)
(* funding round and identifiers) and setAssetDocuments, while others      *)
(* write the same things.                                                  *)
(***************************************************************************)
EXTENDS FollowedCall, Integers, Sequences, FiniteSets

CONSTANTS
  Names,      \* names of the Asset, and of funding rounds (one of them: no round yet)
  Lists,      \* lists of identifiers, and of documents
  Changes,    \* what modifyAsset is passed, each field or NotPassed
  NotPassed,  \* an argument that is left out
  MaxDocs     \* bound on the ids given to documents

Elements == UNION {{list[i] : i \in DOMAIN list} : list \in Lists}

(* docs: the documents, each with the id it was given; last: the last id.  *)
TypeOK ==
  /\ chain.divisible \in BOOLEAN /\ chain.name \in Names /\ chain.round \in Names /\ chain.ids \in Lists
  /\ chain.docs \subseteq (1 .. MaxDocs) \X Elements /\ chain.last \in 0 .. MaxDocs
  /\ \A d \in chain.docs : d[1] <= chain.last
  /\ call.op \in {"none", "modify", "documents"}
  /\ call.left \subseteq {"details", "round", "identifiers", "entries"}

(* The documents of a list, with the ids that follow n.                    *)
Filed(list, n) == {<<n + i, list[i]>> : i \in DOMAIN list}

Init ==
  /\ \E list \in Lists, name, round \in Names, ids \in Lists, d \in BOOLEAN :
       chain = [divisible |-> d, name |-> name, round |-> round, ids |-> ids,
                docs |-> Filed(list, 0), last |-> Len(list)]
  /\ call = Idle

-----------------------------------------------------------------------------
(* hasSameElements, of two lists: every element of the first is in the     *)
(* second, and they are as long.  Mutant: whatever their lengths.          *)
SameElements_AnyLength(first, second) == \A i \in DOMAIN first : \E j \in DOMAIN second : first[i] = second[j]
SameElements(first, second) ==
  /\ Len(first) = Len(second)
  /\ \A i \in DOMAIN first : \E j \in DOMAIN second : first[i] = second[j]

(* Nothing is read when nothing is passed.                                 *)
Modify(args) ==
  /\ \E field \in DOMAIN args : args[field] # NotPassed
  /\ Calls("modify", args, {"details", "round", "identifiers"})

SetDocuments(list) == Calls("documents", [list |-> list], {"entries"})

(* What is passed may not be what it is already.                           *)
MayModify(found) ==
  /\ call.args.divisible = TRUE => ~found.divisible
  /\ call.args.name # NotPassed => call.args.name # found.name
  /\ call.args.round # NotPassed => call.args.round # found.round
  /\ call.args.ids # NotPassed => ~SameElements(found.ids, call.args.ids)

(* The reads of Promise.all; what they found is judged when all are there. *)
Gather(r, found) ==
  IF call.left = {r} /\ ~MayModify(found) THEN Refuse ELSE Keep(r, found, {})

With(new) == [f \in DOMAIN new \cup DOMAIN call.read |-> IF f \in DOMAIN new THEN new[f] ELSE call.read[f]]

ReadDetails ==
  /\ Answers("modify", "details")
  /\ Gather("details", With([divisible |-> chain.divisible, name |-> chain.name]))
ReadRound == Answers("modify", "round") /\ Gather("round", With([round |-> chain.round]))
ReadIdentifiers ==
  Answers("modify", "identifiers") /\ Gather("identifiers", With([ids |-> chain.ids]))

(* setAssetDocuments: the ids and the contents of the documents there are. *)
Sorted(docs) ==
  CHOOSE s \in [1 .. Cardinality(docs) -> docs] : \A i, j \in DOMAIN s : i < j => s[i][1] < s[j][1]
Contents(docs) == [i \in DOMAIN Sorted(docs) |-> Sorted(docs)[i][2]]

ReadEntries ==
  /\ Answers("documents", "entries")
  /\ IF SameElements(Contents(chain.docs), call.args.list) THEN Refuse
     ELSE Keep("entries", [removed |-> {d[1] : d \in chain.docs}], {})

(* Removed, then added.  Mutant: nothing is removed.                       *)
Replaced_Kept(docs, removed, list, last) == docs \cup Filed(list, last)
Replaced(docs, removed, list, last) == {d \in docs : d[1] \notin removed} \cup Filed(list, last)

-----------------------------------------------------------------------------
(* The asset pallet (external to the SDK) *)

Given(new, old) == IF new = NotPassed THEN old ELSE new

Accepted == call.op = "modify" /\ call.args.divisible = TRUE => ~chain.divisible

DispatchModify ==
  /\ call.op = "modify"
  /\ Dispatches(Accepted, [chain EXCEPT !.divisible = @ \/ call.args.divisible = TRUE,
                                        !.name = Given(call.args.name, @),
                                        !.round = Given(call.args.round, @),
                                        !.ids = Given(call.args.ids, @)])

Numbered(n) == chain.last + n <= MaxDocs
DispatchDocuments ==
  /\ call.op = "documents" /\ Numbered(Len(call.args.list))
  /\ Dispatches(TRUE, [chain EXCEPT
       !.docs = Replaced(@, call.read.removed, call.args.list, chain.last),
       !.last = @ + Len(call.args.list)])

OthersModify ==
  \/ Happens([chain EXCEPT !.divisible = TRUE])
  \/ \E name \in Names : Happens([chain EXCEPT !.name = name]) \/ Happens([chain EXCEPT !.round = name])
  \/ \E list \in Lists : Happens([chain EXCEPT !.ids = list])
OthersAdd(doc) ==
  Numbered(1) /\ Happens([chain EXCEPT !.docs = @ \cup {<<chain.last + 1, doc>>}, !.last = @ + 1])
OthersRemove(d) == Happens([chain EXCEPT !.docs = @ \ {d}])

Next ==
  \/ \E args \in Changes : Modify(args)
  \/ \E list \in Lists : SetDocuments(list)
  \/ ReadDetails \/ ReadRound \/ ReadIdentifiers \/ ReadEntries
  \/ DispatchModify \/ DispatchDocuments
  \/ OthersModify
  \/ \E doc \in Elements : OthersAdd(doc)
  \/ \E d \in chain.docs : OthersRemove(d)

-----------------------------------------------------------------------------
(* Properties *)

Times(list, e) == Cardinality({i \in DOMAIN list : list[i] = e})
Alike(first, second) == \A e \in Elements : Times(first, e) = Times(second, e)
Repeats(list) == \E e \in Elements : Times(list, e) > 1

(* modifyAsset is only reverted when something changed.                    *)
RevertedOnlyIfStale == Built /\ Fresh => Accepted

(* Who is turned away asked for something that is so already; but a list   *)
(* that repeats an element is found the same as others of its length.      *)
TurnedAwayRightly ==
  TurnedAway /\ Fresh =>
    IF call.op = "documents"
      THEN LET now == Contents(chain.docs) IN Alike(now, call.args.list) \/ Repeats(now)
      ELSE \/ call.args.divisible = TRUE /\ chain.divisible
           \/ call.args.name = chain.name
           \/ call.args.round = chain.round
           \/ call.args.ids # NotPassed /\ (Alike(chain.ids, call.args.ids) \/ Repeats(chain.ids))

(* The documents asked for are the ones a call adds, in the place of all   *)
(* there were; one that was added while it was under way is not lost.  An  *)
(* Asset that is modified has changed.                                     *)
DoneAsAsked ==
  Built /\ Ends =>
    /\ call.op = "documents" =>
         /\ Alike(Contents(chain'.docs \ chain.docs), call.args.list)
         /\ Fresh => chain'.docs \cap chain.docs = {}
         /\ {d \in chain.docs : d[1] \notin call.read.removed} \subseteq chain'.docs
    /\ call.op = "modify" /\ Fresh => chain' # chain \/ call.args.divisible = FALSE
===============================================================================
