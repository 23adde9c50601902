----------------------------- MODULE PublishOnce -----------------------------
(***************************************************************************)
(* What scheduled publishing promises about an article: WordPress gets one *)
(* post of it, and the article comes to hold the id of that post, which it *)
(* then keeps.                                                             *)
(***************************************************************************)
EXTENDS Naturals

CONSTANT Articles

VARIABLES
  posts,     \* [Articles -> Nat]: posts on the WordPress site
  recorded   \* SUBSET Articles: the articles that hold a post id

vars == <<posts, recorded>>

Init ==
  /\ posts = [a \in Articles |-> 0]
  /\ recorded = {}

Create(a) ==
  /\ posts[a] = 0
  /\ posts' = [posts EXCEPT ![a] = 1]
  /\ UNCHANGED recorded

Record(a) ==
  /\ posts[a] = 1
  /\ recorded' = recorded \cup {a}
  /\ UNCHANGED posts

Next == \E a \in Articles : Create(a) \/ Record(a)

Spec == Init /\ [][Next]_vars

\* A post that was created does not stay unknown.
FairSpec == Spec /\ \A a \in Articles : WF_vars(Record(a))

=============================================================================
