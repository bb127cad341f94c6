--------------------------------- MODULE Paging --------------------------------
(***************************************************************************)
(* Reading a list page by page until there is no next page, while entries  *)
(* come and go: a storage map of the chain, by key; a list of the          *)
(* middleware, by offset; the claims of targets or issuers, whose list is  *)
(* cut by the SDK; and claims that the middleware counts by Identity.      *)
(***************************************************************************)
EXTENDS FollowedCall, Integers, FiniteSetsExt

CONSTANTS
  Keys,      \* what the list is ordered by, numbers
  Claimed,   \* how many claims a key may have, 0 if it is not in the list
  Sizes      \* sizes of a page

NoNext == -1

(* has: the claims, or the entry, of each key; touched (history): the keys *)
(* that changed.  told: how often each key was among the data, up to 2.    *)
Entries == [Keys -> Claimed]
Told    == [Keys -> 0 .. 2]
Lists   == {"chain", "oldest", "newest", "passed", "found", "counted"}

TypeOK ==
  /\ chain.has \in Entries /\ chain.touched \in SUBSET Keys
  /\ call.op \in Lists \cup {"none"} /\ call.left \subseteq {"groups", "page"}
  /\ call.op # "none" => call.read.told \in Told

Init == (\E has \in Entries : chain = [has |-> has, touched |-> {}]) /\ call = Idle

-----------------------------------------------------------------------------
Existing == {k \in Keys : chain.has[k] > 0}
Start    == call.read.start

(* calculateNextKey.  Mutant: an entry that is left does not count.        *)
NextOffset_Last(total, found) == IF total > Start + found + 1 THEN Start + found ELSE NoNext
NextOffset(total, found)      == IF total > Start + found THEN Start + found ELSE NoNext

(* The part of a list that starts at the offset, in the order of the list. *)
Ahead(k, list) == {j \in list : IF call.op = "newest" THEN j > k ELSE j < k}
Slice(list)    == {k \in list : Cardinality(Ahead(k, list)) \in Start .. Start + call.args.size - 1}

(* The entries of a storage map after the last key of the page before.  A  *)
(* page that is not full is the last.  Mutant: it is, when it is full too. *)
AfterKey(last) == {k \in Existing : k > last}
KeyPage == {k \in AfterKey(Start) : Cardinality(Ahead(k, AfterKey(Start))) < call.args.size}
NextKey_Once(page) == NoNext
NextKey(page) == IF Cardinality(page) = call.args.size THEN Max(page) ELSE NoNext

(* A slice of what was passed, or of what has claims, which was asked      *)
(* first; and its claims.                                                  *)
Listed == IF call.op = "passed" THEN Keys ELSE call.read.list
ClaimsPage == Slice(Listed) \cap Existing

(* The middleware pages and counts Identities; the size of a page is taken *)
(* to be the number of their claims.                                       *)
CountOf(page) == MapThenSumSet(LAMBDA k : chain.has[k], page)

Page ==
  CASE call.op = "chain"               -> KeyPage
    [] call.op \in {"passed", "found"} -> ClaimsPage
    [] OTHER                           -> Slice(Existing)
NextStart ==
  CASE call.op = "chain"               -> NextKey(KeyPage)
    [] call.op \in {"passed", "found"} -> NextOffset(Cardinality(Listed), Cardinality(ClaimsPage))
    [] call.op = "counted"             -> NextOffset(Cardinality(Existing), CountOf(Page))
    [] OTHER                           -> NextOffset(Cardinality(Existing), Cardinality(Page))

-----------------------------------------------------------------------------
FirstRead(list) == IF list = "found" THEN {"groups"} ELSE {"page"}

(* The caller asks for the first page, and for every next one.             *)
Begin(list, size) ==
  /\ call.op = "none"
  /\ call' = [Idle EXCEPT !.op = list, !.args = [size |-> size], !.left = FirstRead(list),
                          !.read = [start |-> 0, told |-> [k \in Keys |-> 0], list |-> {}]]
  /\ UNCHANGED chain

ReadGroups == Answers("found", "groups") /\ Keep("groups", [call.read EXCEPT !.list = Existing], {"page"})

More(k) == IF k \in Page /\ call.read.told[k] < 2 THEN 1 ELSE 0
ReadPage ==
  /\ call.op # "none" /\ "page" \in call.left
  /\ Keep("page", [start |-> NextStart, told |-> [k \in Keys |-> call.read.told[k] + More(k)], list |-> {}],
          IF NextStart = NoNext THEN {} ELSE FirstRead(call.op))

Return == Built /\ call' = Idle /\ UNCHANGED chain

(* Others add and remove entries.                                          *)
Change(k, claims) ==
  Happens([chain EXCEPT !.has[k] = claims, !.touched = @ \cup {k}])

Next ==
  \/ \E list \in Lists, size \in Sizes : Begin(list, size)
  \/ ReadGroups \/ ReadPage \/ Return
  \/ \E k \in Keys, claims \in Claimed : claims # chain.has[k] /\ Change(k, claims)

-----------------------------------------------------------------------------
(* Properties *)

Steady(keys) == keys \cap chain.touched = {}
Untold(k)    == call.read.told[k] = 0
ToldOnce(k)  == call.read.told[k] = 1

(* Of what stays as it is all the while, everything is among the data      *)
(* once, and what is not there is not: by key, whatever comes and goes; by *)
(* offset, if nothing ahead of it does.  What the pages of claims are      *)
(* sized by is not what they are cut from: Identities without claims make  *)
(* them overlap, Identities with several claims make counted ones skip.    *)
PagesAreWhole ==
  Built =>
    \A k \in Keys \ chain.touched :
      IF chain.has[k] = 0 THEN Untold(k)
      ELSE /\ call.op = "chain" => ToldOnce(k)
           /\ call.op = "passed" => ~Untold(k) /\ (Steady(Keys) /\ Existing = Keys => ToldOnce(k))
           /\ Steady(Ahead(k, Keys)) =>
                /\ call.op \in {"oldest", "newest"} => ToldOnce(k)
                /\ call.op = "found" => ~Untold(k) /\ (Steady(Keys) => ToldOnce(k))
                /\ call.op = "counted" /\ (\A j \in Ahead(k, Keys) : chain.has[j] <= 1) => ToldOnce(k)

(* Reading goes on, so that it ends when nothing is added any more; but a  *)
(* page of claims that has none leads to itself.                           *)
PagesGoOn ==
  "page" \in call.left =>
    \/ NextStart = NoNext \/ NextStart > Start
    \/ call.op \in {"passed", "found"} /\ Page = {}
===============================================================================
