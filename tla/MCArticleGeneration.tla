-------------------------- MODULE MCArticleGeneration --------------------------
(***************************************************************************)
(* Instances of ArticleGeneration for TLC.                                 *)
(***************************************************************************)
EXTENDS ArticleGeneration, TLC

\* All pages are of one account.
OneAccount == [t \in Tabs |-> CHOOSE u \in Users : TRUE]

\* The pages differ in nothing but their name.
Symmetric == Permutations(Tabs)

=============================================================================
