---------------------------- MODULE RankingInputs ----------------------------
(***************************************************************************)
(* Every small list of candidates with every small reply of the model: an  *)
(* exhaustive test of module Ranking, one input per state.                 *)
(*                                                                         *)
(* A retrieval score may be NaN: Candidate::new accepts it.  JSON has no   *)
(* NaN: an item with that score is not one a model can send, and stands    *)
(* for what the other callers of from_scored may pass.                     *)
(***************************************************************************)
EXTENDS Ranking

CONSTANTS
  OfferedIds,      \* the ids candidates may have
  InventedIds,     \* ids the model may name that were never offered
  Numbers,         \* the sums of text features
  Scores,          \* the scores of candidates and items
  MaxCandidates,   \* bound: the longest list of candidates
  MaxItems         \* bound: the longest reply

Candidate == [id : OfferedIds, lexical : Numbers, retrieval : Scores]
Item == [id : OfferedIds \union InventedIds, score : Scores]

ASSUME InputsAssumption ==
  /\ Numbers \subseteq Int
  /\ Scores \subseteq Score
  /\ Garbage \notin Seq(Item)

VARIABLES offered, reply

inputs == <<offered, reply>>

RankingInit == offered = <<>> /\ reply = <<>>

\* The retriever finds one more candidate; ids may repeat.
Offer(c) ==
  /\ Len(offered) < MaxCandidates
  /\ reply = <<>>
  /\ offered' = Append(offered, c)
  /\ UNCHANGED reply

\* The model adds one more item to its reply.
Reply(item) ==
  /\ Len(reply) < MaxItems
  /\ reply' = Append(reply, item)
  /\ UNCHANGED offered

RankingNext == (\E c \in Candidate : Offer(c)) \/ (\E item \in Item : Reply(item))

RankingSpec == RankingInit /\ [][RankingNext]_inputs

-----------------------------------------------------------------------------
\* The scored lists these inputs give rise to.
ReplyAsScored == [i \in DOMAIN reply |->
                    [id |-> reply[i].id, score |-> reply[i].score, retrieval |-> i]]

(***************************************************************************)
(* sort_by may panic, and may leave any order behind, unless its           *)
(* comparator is a total preorder; partial_cmp alone is not.  cmp_desc is, *)
(* NaN included.                                                           *)
(***************************************************************************)
ComparatorIsTotalPreorder ==
  \A i, j, k \in DOMAIN reply :
    LET a == reply[i].score  b == reply[j].score  c == reply[k].score
    IN  /\ CmpDesc(a, b) = "Less" <=> CmpDesc(b, a) = "Greater"
        /\ CmpDesc(a, b) = "Equal" <=> CmpDesc(b, a) = "Equal"
        /\ CmpDesc(a, b) # "Greater" /\ CmpDesc(b, c) # "Greater"
             => CmpDesc(a, c) # "Greater"

(***************************************************************************)
(* from_scored returns the very items it was given, best first with NaN at *)
(* the bottom, and equal scores in the order they came in.  The third      *)
(* field of ReplyAsScored tells the items apart.                           *)
(***************************************************************************)
SortIsStable ==
  LET in == ReplyAsScored  out == FromScored(in)
  IN  /\ {out[p] : p \in DOMAIN out} = {in[i] : i \in DOMAIN in}
      /\ BestFirst(out)
      /\ \A p, q \in DOMAIN out :
           p < q /\ out[p].score = out[q].score => out[p].retrieval < out[q].retrieval

(***************************************************************************)
(* Whatever the model replies, its ranking is well formed if it parses,    *)
(* every document in it carries a retrieval score some candidate of that   *)
(* id really has, and a reply is refused only when it names no candidate.  *)
(***************************************************************************)
ReplyIsSanitised ==
  IF Parses(reply, offered)
  THEN LET list == ModelRanking(reply, offered)
       IN  /\ WellFormed(list, offered)
           /\ \A p \in DOMAIN list : \E i \in DOMAIN offered :
                /\ offered[i].id = list[p].id
                /\ offered[i].retrieval = list[p].retrieval
  ELSE Ids(reply) \intersect Ids(offered) = {}

(***************************************************************************)
(* The fallback never loses or repeats a candidate, whatever ids repeat.   *)
(***************************************************************************)
HeuristicIsPermutation ==
  LET list == HeuristicRanking(offered)
  IN  /\ WellFormed(list, offered)
      /\ \A id \in OfferedIds :
           Cardinality({p \in DOMAIN list : list[p].id = id})
             = Cardinality({i \in DOMAIN offered : offered[i].id = id})
=============================================================================
