------------------------ MODULE StoogeFarmersProofs ------------------------
(***************************************************************************)
(* Proofs about StoogeFarmers for every FillTarget and every argument.     *)
(*                                                                         *)
(* FieldInv is inductive.  The shovel's semaphore counts its one holder,   *)
(* so the bound that Larry tests in "hole" still holds when he digs; the   *)
(* other two semaphores hold exactly the holes between two farmers, which  *)
(* orders the three counts of printed lines.                               *)
(***************************************************************************)
EXTENDS StoogeFarmers, TLAPS

(* The program starts in the invariant. *)
LEMMA InitFieldInv == Init => FieldInv
BY FarmersAssumption
   DEF Init, FieldInv, TypeOK, SemaphoreCounts, UnfilledIsExact, UnfilledIsBounded,
       LarryPC, CurlyPC, MoePC, LarryHolds, MoeHolds, Dug, Filled

(* Each step of Larry keeps it: he digs only while he has the shovel. *)
LEMMA LarryKeepsFieldInv == FieldInv /\ Larry => FieldInv'
<1> USE FarmersAssumption
        DEF FieldInv, TypeOK, SemaphoreCounts, UnfilledIsExact, UnfilledIsBounded,
            LarryPC, CurlyPC, MoePC, LarryHolds, MoeHolds, Dug, Filled
<1> SUFFICES ASSUME FieldInv, Larry PROVE FieldInv'
    OBVIOUS
<1>1. CASE LarryTakesShovel
      BY <1>1 DEF LarryTakesShovel, TakeShovel
<1>2. CASE LarryDigs
      BY <1>2 DEF LarryDigs, MayDig
<1>3. CASE LarryHoldsBack
      BY <1>3 DEF LarryHoldsBack
<1>4. CASE LarryAnnounces
      BY <1>4 DEF LarryAnnounces
<1>5. CASE LarryDropsShovel
      BY <1>5 DEF LarryDropsShovel
<1>6. QED
      BY <1>1, <1>2, <1>3, <1>4, <1>5 DEF Larry

(* Each step of Curly keeps it. *)
LEMMA CurlyKeepsFieldInv == FieldInv /\ Curly => FieldInv'
<1> USE FarmersAssumption
        DEF FieldInv, TypeOK, SemaphoreCounts, UnfilledIsExact, UnfilledIsBounded,
            LarryPC, CurlyPC, MoePC, LarryHolds, MoeHolds, Dug, Filled
<1> SUFFICES ASSUME FieldInv, Curly PROVE FieldInv'
    OBVIOUS
<1>1. CASE CurlyFindsHole
      BY <1>1 DEF CurlyFindsHole
<1>2. CASE CurlySeeds
      BY <1>2 DEF CurlySeeds
<1>3. CASE CurlyAnnounces
      BY <1>3 DEF CurlyAnnounces
<1>4. QED
      BY <1>1, <1>2, <1>3 DEF Curly

(* Each step of Moe keeps it: the hole he fills was dug and seeded. *)
LEMMA MoeKeepsFieldInv == FieldInv /\ Moe => FieldInv'
<1> USE FarmersAssumption
        DEF FieldInv, TypeOK, SemaphoreCounts, UnfilledIsExact, UnfilledIsBounded,
            LarryPC, CurlyPC, MoePC, LarryHolds, MoeHolds, Dug, Filled
<1> SUFFICES ASSUME FieldInv, Moe PROVE FieldInv'
    OBVIOUS
<1>1. CASE MoeFindsSeed
      BY <1>1 DEF MoeFindsSeed
<1>2. CASE MoeTakesShovel
      BY <1>2 DEF MoeTakesShovel, TakeShovel
<1>3. CASE MoeFills
      BY <1>3 DEF MoeFills
<1>4. CASE MoeDropsShovel
      BY <1>4 DEF MoeDropsShovel
<1>5. QED
      BY <1>1, <1>2, <1>3, <1>4 DEF Moe

(* Every step keeps it. *)
LEMMA NextKeepsFieldInv == FieldInv /\ [Next]_vars => FieldInv'
<1> SUFFICES ASSUME FieldInv, [Next]_vars PROVE FieldInv'
    OBVIOUS
<1>1. CASE Larry
      BY <1>1, LarryKeepsFieldInv
<1>2. CASE Curly
      BY <1>2, CurlyKeepsFieldInv
<1>3. CASE Moe
      BY <1>3, MoeKeepsFieldInv
<1>4. CASE UNCHANGED vars
      BY <1>4
      DEF vars, FieldInv, TypeOK, SemaphoreCounts, UnfilledIsExact, UnfilledIsBounded,
          LarryHolds, MoeHolds, Dug, Filled
<1>5. QED
      BY <1>1, <1>2, <1>3, <1>4 DEF Next, Terminated

(* The inductive invariant holds of the program. *)
THEOREM FarmersInvariant == Spec => []FieldInv
BY InitFieldInv, NextKeepsFieldInv, PTL DEF Spec

(* Larry and Moe never hold the shovel together. *)
THEOREM FarmersExclusion == Spec => []ShovelExclusion
<1>1. FieldInv => ShovelExclusion
      BY DEF FieldInv, TypeOK, SemaphoreCounts, ShovelExclusion, LarryHolds, MoeHolds
<1>2. QED
      BY <1>1, FarmersInvariant, PTL

(* The counter unfilled is exactly the number of dug holes not yet filled. *)
THEOREM FarmersCountExactly == Spec => []UnfilledIsExact
<1>1. FieldInv => UnfilledIsExact
      BY DEF FieldInv
<1>2. QED
      BY <1>1, FarmersInvariant, PTL

(* Never more than MAX_UNFILLED holes are open. *)
THEOREM FarmersBound == Spec => []UnfilledIsBounded
<1>1. FieldInv => UnfilledIsBounded
      BY DEF FieldInv
<1>2. QED
      BY <1>1, FarmersInvariant, PTL

(* The initial state of the program is one of the abstract line. *)
LEMMA InitRefinesLine == Init => Line!Init
BY FarmersAssumption DEF Init, Line!Init, Dug, Seeded, Filled

(* Every step of a farmer digs, seeds or fills one hole as HoleLine allows, or changes    *)
(* none of the three counts.                                                              *)
LEMMA NextRefinesLine == FieldInv /\ [Next]_vars => [Line!Next]_(Line!vars)
<1> USE FarmersAssumption
        DEF FieldInv, TypeOK, SemaphoreCounts, UnfilledIsExact, UnfilledIsBounded,
            LarryPC, CurlyPC, MoePC, LarryHolds, MoeHolds, Dug, Seeded, Filled,
            Line!vars
<1> SUFFICES ASSUME FieldInv, [Next]_vars PROVE [Line!Next]_(Line!vars)
    OBVIOUS
<1>1. CASE LarryDigs
      BY <1>1 DEF LarryDigs, MayDig, Line!Next, Line!Dig
<1>2. CASE CurlySeeds
      BY <1>2 DEF CurlySeeds, Line!Next, Line!Seed
<1>3. CASE MoeFills
      BY <1>3 DEF MoeFills, Line!Next, Line!Fill
<1>4. CASE LarryTakesShovel \/ LarryHoldsBack \/ LarryAnnounces \/ LarryDropsShovel
      BY <1>4 DEF LarryTakesShovel, TakeShovel, LarryHoldsBack, LarryAnnounces,
                  LarryDropsShovel
<1>5. CASE CurlyFindsHole \/ CurlyAnnounces
      BY <1>5 DEF CurlyFindsHole, CurlyAnnounces
<1>6. CASE MoeFindsSeed \/ MoeTakesShovel \/ MoeDropsShovel
      BY <1>6 DEF MoeFindsSeed, MoeTakesShovel, TakeShovel, MoeDropsShovel
<1>7. CASE UNCHANGED vars
      BY <1>7 DEF vars
<1>8. QED
      BY <1>1, <1>2, <1>3, <1>4, <1>5, <1>6, <1>7
      DEF Next, Terminated, Larry, Curly, Moe

(* The threads and their semaphores implement the abstract line of holes. *)
THEOREM FarmersImplementHoleLine == Spec => ImplementsHoleLine
<1>1. Spec => Line!Init /\ [][Line!Next]_(Line!vars)
      BY InitRefinesLine, NextRefinesLine, FarmersInvariant, PTL DEF Spec
<1>2. QED
      BY <1>1 DEF ImplementsHoleLine, Line!Spec
============================================================================
