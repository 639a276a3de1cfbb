---------------------------- MODULE EscrowRatings ----------------------------
(***************************************************************************)
(* Escrow with what a rating leaves behind: the running totals of the      *)
(* freelancer, the comment of the contract, and the version marker that    *)
(* reading an old record adds to it.  A comment is known by its length.    *)
(***************************************************************************)
EXTENDS Escrow

CONSTANTS
  MIN_RATING, MAX_RATING,
  MAX_COMMENT_BYTES,
  SCALE,           \* of an average rating
  Ratings,         \* what issue_reputation is called with
  CommentLengths

ASSUME RatingAssumption ==
  /\ MIN_RATING \in Nat \ {0} /\ MAX_RATING \in Nat /\ MIN_RATING <= MAX_RATING
  /\ MAX_COMMENT_BYTES \in Nat \ {0} /\ SCALE \in Nat \ {0}
  /\ Ratings \subseteq Nat /\ CommentLengths \subseteq Nat

VARIABLES
  reputation,          \* DataKey::Reputation(freelancer), a partial function
  reputation_comment,  \* DataKey::ReputationComment(id), a partial function
  reputation_version,  \* the addresses with DataKey::ReputationStorageVersion
  rating_of            \* history: the rating each contract was given

ratings    == <<reputation, reputation_comment, reputation_version, rating_of>>
ratingVars == <<vars, ratings>>

Reputation == [completed_contracts : Nat, total_rating : Nat, last_rating : Nat]

(* The contracts that carry the flag of an issued rating.                  *)
Issued == {id \in DOMAIN contracts : contracts[id].reputation_issued}

NoReputation == [completed_contracts |-> 0, total_rating |-> 0, last_rating |-> 0]

ReputationOf(a) == IF a \in DOMAIN reputation THEN reputation[a] ELSE NoReputation

RatedSlip(rep, rating) ==
  [completed_contracts |-> rep.completed_contracts + 1, total_rating |-> rating,
   last_rating |-> rating]

Rated(rep, rating) ==
  [completed_contracts |-> rep.completed_contracts + 1,
   total_rating |-> rep.total_rating + rating, last_rating |-> rating]

AverageRating(a) ==
  (reputation[a].total_rating * SCALE) \div reputation[a].completed_contracts

ValidRating(rating) == rating \in MIN_RATING .. MAX_RATING

----------------------------------------------------------------------------
(* The client of a completed contract rates its freelancer, once.          *)
Rate(id, rating, comment) ==
  LET ratee == contracts[id].freelancer IN
  /\ ValidRating(rating)
  /\ comment \in 1 .. MAX_COMMENT_BYTES
  /\ IssueReputation(id)
  /\ reputation' = With(reputation, ratee, Rated(ReputationOf(ratee), rating))
  /\ reputation_comment' = With(reputation_comment, id, comment)
  /\ rating_of' = With(rating_of, id, rating)
  /\ UNCHANGED reputation_version

(* Anybody may migrate a record; reading one does it too.  A record that   *)
(* has its marker, or an address without a record, is left alone.          *)
MigrateReputationStorage(a) ==
  /\ a \notin reputation_version /\ a \in DOMAIN reputation
  /\ reputation_version' = reputation_version \cup {a}
  /\ UNCHANGED <<vars, reputation, reputation_comment, rating_of>>

RatingInit ==
  /\ Init
  /\ reputation = << >> /\ reputation_comment = << >> /\ reputation_version = {}
  /\ rating_of = << >>

(* A rating, a migration, or any step of Escrow that rates nobody.         *)
RatingNext ==
  \/ Next /\ Issued' = Issued /\ UNCHANGED ratings
  \/ \E id \in DOMAIN contracts, rating \in Ratings, comment \in CommentLengths :
       Rate(id, rating, comment)
  \/ \E a \in Address : MigrateReputationStorage(a)

RatingSpec == RatingInit /\ [][RatingNext]_ratingVars

----------------------------------------------------------------------------
(* The contracts of a freelancer that were rated, and that completed.      *)
RatedFor(a)     == {id \in Issued : contracts[id].freelancer = a}
CompletedFor(a) == {id \in DOMAIN contracts :
                      contracts[id].freelancer = a /\ contracts[id].status = "Completed"}

(* The totals of a freelancer are those of the ratings of all the          *)
(* contracts that share the record, each counted once, and the average got *)
(* from them is a rating, whatever was rounded off.                        *)
TotalsMatchRatings ==
  \A a \in Address :
    /\ ReputationOf(a).completed_contracts = Cardinality(RatedFor(a))
    /\ ReputationOf(a).total_rating = TotalAmount([id \in RatedFor(a) |-> rating_of[id]])
    /\ a \in DOMAIN reputation => AverageRating(a) \in MIN_RATING * SCALE .. MAX_RATING * SCALE

(* No freelancer collects more ratings, given and to come, than contracts  *)
(* that paid him: not by disputes, previews or roll-backs either.          *)
RatingsEarned ==
  \A a \in Address :
    ReputationOf(a).completed_contracts + pending_credits[a] <= Cardinality(CompletedFor(a))
=============================================================================
