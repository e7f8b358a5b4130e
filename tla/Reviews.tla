------------------------------- MODULE Reviews -------------------------------
(***************************************************************************)
(* Reviews of delivered order items and the rating of their products       *)
(* (src/modules/products/reviews/reviews.service.ts), beside the saves of  *)
(* a product by others, which write averageRating and totalReviews as they *)
(* were loaded (products.service.ts, inventory.helper.ts).                 *)
(*                                                                         *)
(* A review is kept under its order item: orderItemId is unique.  The      *)
(* items are those of delivered orders, and a review comes from the user   *)
(* of the order; any other is refused before anything is written.  Each    *)
(* action is one query.                                                    *)
(***************************************************************************)
EXTENDS Integers, FiniteSetsExt

CONSTANTS
    Products,
    Items,          \* order items, of delivered orders
    ProductOf,
    ReviewCalls,    \* of createReview, numbered as they begin
    Savers,         \* who load a product and save it
    Ratings,
    NoReview

ASSUME ReviewsAssumption ==
    /\ ProductOf \in [Items -> Products]
    /\ Ratings \subseteq 1..5
    /\ ReviewCalls \subseteq Nat /\ ReviewCalls \cap Savers = {}
    /\ NoReview \notin ReviewCalls \cup Savers \cup Ratings /\ NoReview \notin Items

VARIABLES
    review,         \* product-reviews: the rating for each item, or NoReview
    isReviewed,     \* order-items.isReviewed
    removed,        \* soft-deleted products
    rating,         \* products.averageRating, in tenths, and totalReviews
    reviewer,       \* the calls of createReview
    saver,
    \* history
    reviewLone,     \* who is at work, if nobody else was meanwhile
    reviewSettled   \* products whose last review was made alone, and no other write since

reviewsVars == <<review, isReviewed, removed, rating, reviewer, saver, reviewLone, reviewSettled>>

Rated == [average : 0..50, total : Nat]
FreshReview == [pc |-> "idle", item |-> NoReview, rating |-> NoReview, joined |-> FALSE, found |-> NoReview]
ReviewEnded == [FreshReview EXCEPT !.pc = "ended"]
Idle == [pc |-> "idle", product |-> NoReview, entity |-> NoReview]

Working == {c \in ReviewCalls : reviewer[c].pc \notin {"idle", "ended"}} \cup {s \in Savers : saver[s].pc = "save"}
ReviewBegins(who) == reviewLone' = IF Working = {} THEN who ELSE NoReview

ReviewsInit ==
    /\ review = [i \in Items |-> NoReview]
    /\ isReviewed = {}
    /\ removed = {}
    /\ rating = [p \in Products |-> [average |-> 0, total |-> 0]]
    /\ reviewer = [c \in ReviewCalls |-> FreshReview]
    /\ saver = [s \in Savers |-> Idle]
    /\ reviewLone = NoReview
    /\ reviewSettled = Products

\* The reviews of a product; none is ever made inactive.
ReviewsOf(p) == {i \in Items : ProductOf[i] = p /\ review[i] # NoReview}

\* parseFloat(AVG).toFixed(1), half a tenth up (exact for fewer than 20 reviews).
Rounded(sum, n) == (20 * sum + n) \div (2 * n)
\* Mutant: the ratings are added up, not averaged.
Average_Sum(p) == 10 * MapThenSumSet(LAMBDA i : review[i], ReviewsOf(p))

Average(p) == Rounded(MapThenSumSet(LAMBDA i : review[i], ReviewsOf(p)), Cardinality(ReviewsOf(p)))

Summary(p) == [average |-> Average(p), total |-> Cardinality(ReviewsOf(p))]
-----------------------------------------------------------------------------
\* The item is loaded with its order and its product, null if that is removed.
FindOrderItem(c) ==
    /\ reviewer[c].pc = "idle" /\ \A b \in ReviewCalls : b < c => reviewer[b].pc # "idle"
    /\ \E i \in Items \ isReviewed, r \in Ratings :
          reviewer' = [reviewer EXCEPT ![c] =
              [FreshReview EXCEPT !.pc = "insert", !.item = i, !.rating = r,
                                  !.joined = ProductOf[i] \notin removed]]
    /\ ReviewBegins(c)
    /\ UNCHANGED <<review, isReviewed, removed, rating, saver, reviewSettled>>

\* A second review of the item violates the unique constraint.
InsertReview(c) ==
    /\ reviewer[c].pc = "insert"
    /\ LET i == reviewer[c].item
       IN IF review[i] # NoReview
          THEN /\ reviewer' = [reviewer EXCEPT ![c] = ReviewEnded]
               /\ UNCHANGED <<review, reviewSettled>>
          ELSE /\ review' = [review EXCEPT ![i] = reviewer[c].rating]
               /\ reviewer' = [reviewer EXCEPT ![c] = [@ EXCEPT !.pc = "mark"]]
               /\ reviewSettled' = reviewSettled \ {ProductOf[i]}
    /\ UNCHANGED <<isReviewed, removed, rating, saver, reviewLone>>

\* Without a product the item cannot be saved: productId would become null.
MarkItem(c) ==
    /\ reviewer[c].pc = "mark"
    /\ IF reviewer[c].joined
       THEN /\ isReviewed' = isReviewed \cup {reviewer[c].item}
            /\ reviewer' = [reviewer EXCEPT ![c] = [@ EXCEPT !.pc = "aggregate"]]
       ELSE /\ reviewer' = [reviewer EXCEPT ![c] = ReviewEnded]
            /\ UNCHANGED isReviewed
    /\ UNCHANGED <<review, removed, rating, saver, reviewLone, reviewSettled>>

\* Mutant: the new review is added to the rating that there was.
Aggregate_Running(c) ==
    /\ reviewer[c].pc = "aggregate"
    /\ LET old == rating[ProductOf[reviewer[c].item]]
           n == old.total + 1
       IN reviewer' = [reviewer EXCEPT ![c] = [@ EXCEPT !.pc = "update", !.found =
             [average |-> (old.average * old.total + 10 * reviewer[c].rating) \div n, total |-> n]]]
    /\ UNCHANGED <<review, isReviewed, removed, rating, saver, reviewLone, reviewSettled>>

Aggregate(c) ==
    /\ reviewer[c].pc = "aggregate"
    /\ reviewer' = [reviewer EXCEPT ![c] =
          [@ EXCEPT !.pc = "update", !.found = Summary(ProductOf[reviewer[c].item])]]
    /\ UNCHANGED <<review, isReviewed, removed, rating, saver, reviewLone, reviewSettled>>

UpdateRating(c) ==
    /\ reviewer[c].pc = "update"
    /\ LET p == ProductOf[reviewer[c].item]
       IN /\ rating' = [rating EXCEPT ![p] = reviewer[c].found]
          /\ reviewSettled' = IF reviewLone = c THEN reviewSettled \cup {p} ELSE reviewSettled \ {p}
    /\ reviewer' = [reviewer EXCEPT ![c] = ReviewEnded]
    /\ UNCHANGED <<review, isReviewed, removed, saver, reviewLone>>
-----------------------------------------------------------------------------
\* An edit of the product, or a checkout that takes from its stock.
LoadProduct(s) ==
    /\ saver[s].pc = "idle"
    /\ \E p \in Products \ removed :
          saver' = [saver EXCEPT ![s] = [pc |-> "save", product |-> p, entity |-> rating[p]]]
    /\ ReviewBegins(s)
    /\ UNCHANGED <<review, isReviewed, removed, rating, reviewer, reviewSettled>>

\* The rating is written as it was loaded, and the product is there again.
SaveLoadedProduct(s) ==
    /\ saver[s].pc = "save"
    /\ LET p == saver[s].product
       IN /\ rating' = [rating EXCEPT ![p] = saver[s].entity]
          /\ removed' = removed \ {p}
          /\ reviewSettled' = IF reviewLone = s THEN reviewSettled ELSE reviewSettled \ {p}
    /\ saver' = [saver EXCEPT ![s] = Idle]
    /\ UNCHANGED <<review, isReviewed, reviewer, reviewLone>>

RemoveProduct(p) ==
    /\ p \notin removed
    /\ removed' = removed \cup {p}
    /\ UNCHANGED <<review, isReviewed, rating, reviewer, saver, reviewLone, reviewSettled>>

\* The process ends in the middle of a call.
ReviewDies(c) ==
    /\ c \in Working \cap ReviewCalls
    /\ reviewer' = [reviewer EXCEPT ![c] = ReviewEnded]
    /\ UNCHANGED <<review, isReviewed, removed, rating, saver, reviewLone, reviewSettled>>

ReviewsNext ==
    \/ \E c \in ReviewCalls :
          \/ FindOrderItem(c) \/ InsertReview(c) \/ MarkItem(c)
          \/ Aggregate(c) \/ UpdateRating(c) \/ ReviewDies(c)
    \/ \E s \in Savers : LoadProduct(s) \/ SaveLoadedProduct(s)
    \/ \E p \in Products : RemoveProduct(p)

ReviewsSpec == ReviewsInit /\ [][ReviewsNext]_reviewsVars
-----------------------------------------------------------------------------
ReviewsTypeOK ==
    /\ isReviewed \subseteq Items
    /\ review \in [Items -> Ratings \cup {NoReview}]
    /\ removed \subseteq Products /\ reviewSettled \subseteq Products
    /\ rating \in [Products -> Rated]
    /\ reviewer \in [ReviewCalls -> [pc : {"idle", "insert", "mark", "aggregate", "update", "ended"},
                               item : Items \cup {NoReview}, rating : Ratings \cup {NoReview},
                               joined : BOOLEAN, found : Rated \cup {NoReview}]]
    /\ saver \in [Savers -> [pc : {"idle", "save"}, product : Products \cup {NoReview}, entity : Rated \cup {NoReview}]]
    /\ reviewLone \in ReviewCalls \cup Savers \cup {NoReview}

(* A review made while nobody else was at work leaves the product with the  *)
(* average and the number of all its reviews, also of those whose own       *)
(* update was lost: to a crash, a removed product, a stale aggregate or     *)
(* somebody's save of the product.  An item marked as reviewed has one.     *)
RatingIsAverage ==
    /\ \A i \in isReviewed : review[i] # NoReview
    /\ Working = {} =>
          \A p \in reviewSettled : ReviewsOf(p) # {} => rating[p] = Summary(p)
=============================================================================
