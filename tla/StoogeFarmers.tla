--------------------------- MODULE StoogeFarmers ---------------------------
(***************************************************************************)
(* StoogeFarmers/LarryCurlyMoe.c: Larry digs holes, Curly seeds them, Moe  *)
(* fills them; Larry and Moe share one shovel, and Larry may not be more   *)
(* than MAX_UNFILLED holes ahead of Moe.                                   *)
(*                                                                         *)
(* Three threads, three counting semaphores and the counter unfilled.      *)
(* Every semaphore call, and every access to unfilled, is a step of its    *)
(* own.  A thread's printf is the step that makes it true that a hole is   *)
(* dug, seeded or filled; the operators Dug, Seeded and Filled count them. *)
(***************************************************************************)
EXTENDS Integers

CONSTANTS FillTarget,  \* FILL_TARGET, 100 in the program
          Limits       \* the arguments the program may be given

ASSUME FarmersAssumption == /\ FillTarget \in Nat \ {0}
                            /\ Limits \subseteq Nat

VARIABLES MAX_UNFILLED,
          shovel, empty_hole, seed_hole,   \* the semaphores
          unfilled,
          dig_idx, seed_idx, fill_idx,
          larry, curly, moe                \* where each thread is

vars == <<MAX_UNFILLED, shovel, empty_hole, seed_hole, unfilled,
          dig_idx, seed_idx, fill_idx, larry, curly, moe>>

LarryPC == {"wait", "hole", "post", "drop", "done"}
CurlyPC == {"wait", "seed", "post", "done"}
MoePC   == {"wait", "shovel", "fill", "drop", "done"}

Init == /\ MAX_UNFILLED \in Limits
        /\ shovel = 1 /\ empty_hole = 0 /\ seed_hole = 0
        /\ unfilled = 0
        /\ dig_idx = 1 /\ seed_idx = 1 /\ fill_idx = 1
        /\ larry = "wait" /\ curly = "wait" /\ moe = "wait"

----------------------------------------------------------------------------
(* Larry *)

TakeShovel == shovel > 0 /\ shovel' = shovel - 1

LarryTakesShovel == /\ larry = "wait"
                    /\ TakeShovel
                    /\ larry' = "hole"
                    /\ UNCHANGED <<MAX_UNFILLED, empty_hole, seed_hole, unfilled,
                                   dig_idx, seed_idx, fill_idx, curly, moe>>

\* Mutant of MayDig: the comparison lets one hole too many through.
MayDigOneMore == unfilled <= MAX_UNFILLED

MayDig == unfilled < MAX_UNFILLED

\* Mutant of LarryDigs: the new hole is not counted.
LarryDigsUncounted == /\ larry = "hole" /\ MayDig
                      /\ larry' = "post"
                      /\ UNCHANGED <<MAX_UNFILLED, shovel, empty_hole, seed_hole, unfilled,
                                     dig_idx, seed_idx, fill_idx, curly, moe>>

LarryDigs == /\ larry = "hole" /\ MayDig
             /\ unfilled' = unfilled + 1
             /\ larry' = "post"
             /\ UNCHANGED <<MAX_UNFILLED, shovel, empty_hole, seed_hole,
                            dig_idx, seed_idx, fill_idx, curly, moe>>

\* Too many unfilled holes: put the shovel back and try again later.
LarryHoldsBack == /\ larry = "hole" /\ ~MayDig
                  /\ larry' = "drop"
                  /\ UNCHANGED <<MAX_UNFILLED, shovel, empty_hole, seed_hole, unfilled,
                                 dig_idx, seed_idx, fill_idx, curly, moe>>

LarryAnnounces == /\ larry = "post"
                  /\ empty_hole' = empty_hole + 1
                  /\ dig_idx' = dig_idx + 1
                  /\ larry' = "drop"
                  /\ UNCHANGED <<MAX_UNFILLED, shovel, seed_hole, unfilled,
                                 seed_idx, fill_idx, curly, moe>>

LarryDropsShovel == /\ larry = "drop"
                    /\ shovel' = shovel + 1
                    /\ larry' = IF dig_idx > FillTarget THEN "done" ELSE "wait"
                    /\ UNCHANGED <<MAX_UNFILLED, empty_hole, seed_hole, unfilled,
                                   dig_idx, seed_idx, fill_idx, curly, moe>>

Larry == \/ LarryTakesShovel \/ LarryDigs \/ LarryHoldsBack
         \/ LarryAnnounces \/ LarryDropsShovel

----------------------------------------------------------------------------
(* Curly *)

\* Mutant of CurlyFindsHole: Curly does not wait for a hole.
CurlyGuessesHole == /\ curly = "wait"
                    /\ curly' = "seed"
                    /\ UNCHANGED <<MAX_UNFILLED, shovel, empty_hole, seed_hole, unfilled,
                                   dig_idx, seed_idx, fill_idx, larry, moe>>

CurlyFindsHole == /\ curly = "wait"
                  /\ empty_hole > 0
                  /\ empty_hole' = empty_hole - 1
                  /\ curly' = "seed"
                  /\ UNCHANGED <<MAX_UNFILLED, shovel, seed_hole, unfilled,
                                 dig_idx, seed_idx, fill_idx, larry, moe>>

CurlySeeds == /\ curly = "seed"
              /\ curly' = "post"
              /\ UNCHANGED <<MAX_UNFILLED, shovel, empty_hole, seed_hole, unfilled,
                             dig_idx, seed_idx, fill_idx, larry, moe>>

CurlyAnnounces == /\ curly = "post"
                  /\ seed_hole' = seed_hole + 1
                  /\ seed_idx' = seed_idx + 1
                  /\ curly' = IF seed_idx + 1 > FillTarget THEN "done" ELSE "wait"
                  /\ UNCHANGED <<MAX_UNFILLED, shovel, empty_hole, unfilled,
                                 dig_idx, fill_idx, larry, moe>>

Curly == CurlyFindsHole \/ CurlySeeds \/ CurlyAnnounces

----------------------------------------------------------------------------
(* Moe *)

MoeFindsSeed == /\ moe = "wait"
                /\ seed_hole > 0
                /\ seed_hole' = seed_hole - 1
                /\ moe' = "shovel"
                /\ UNCHANGED <<MAX_UNFILLED, shovel, empty_hole, unfilled,
                               dig_idx, seed_idx, fill_idx, larry, curly>>

MoeTakesShovel == /\ moe = "shovel"
                  /\ TakeShovel
                  /\ moe' = "fill"
                  /\ UNCHANGED <<MAX_UNFILLED, empty_hole, seed_hole, unfilled,
                                 dig_idx, seed_idx, fill_idx, larry, curly>>

MoeFills == /\ moe = "fill"
            /\ unfilled' = unfilled - 1
            /\ moe' = "drop"
            /\ UNCHANGED <<MAX_UNFILLED, shovel, empty_hole, seed_hole,
                           dig_idx, seed_idx, fill_idx, larry, curly>>

\* Mutant of MoeDropsShovel: the shovel is put back after the last hole only.
MoeKeepsShovel == /\ moe = "drop"
                  /\ shovel' = IF fill_idx + 1 > FillTarget THEN shovel + 1 ELSE shovel
                  /\ fill_idx' = fill_idx + 1
                  /\ moe' = IF fill_idx + 1 > FillTarget THEN "done" ELSE "wait"
                  /\ UNCHANGED <<MAX_UNFILLED, empty_hole, seed_hole, unfilled,
                                 dig_idx, seed_idx, larry, curly>>

MoeDropsShovel == /\ moe = "drop"
                  /\ shovel' = shovel + 1
                  /\ fill_idx' = fill_idx + 1
                  /\ moe' = IF fill_idx + 1 > FillTarget THEN "done" ELSE "wait"
                  /\ UNCHANGED <<MAX_UNFILLED, empty_hole, seed_hole, unfilled,
                                 dig_idx, seed_idx, larry, curly>>

Moe == MoeFindsSeed \/ MoeTakesShovel \/ MoeFills \/ MoeDropsShovel

----------------------------------------------------------------------------

\* main joins the three threads.
Joined == larry = "done" /\ curly = "done" /\ moe = "done"

Terminated == Joined /\ UNCHANGED vars

Next == Larry \/ Curly \/ Moe \/ Terminated

\* Each thread that can run does.  Larry drops the shovel and takes it again for as long as
\* he is held back, but sleeps rand() % 3 seconds in between: that leaves Moe the shovel
\* again and again, and a sem_wait on a semaphore that is free again and again succeeds.
Fairness == WF_vars(Larry) /\ WF_vars(Curly) /\ WF_vars(Moe) /\ SF_vars(MoeTakesShovel)

Spec == Init /\ [][Next]_vars /\ Fairness

----------------------------------------------------------------------------
(* Properties *)

TypeOK == /\ MAX_UNFILLED \in Limits
          /\ shovel \in Nat /\ empty_hole \in Nat /\ seed_hole \in Nat
          /\ unfilled \in Int
          /\ dig_idx \in Nat \ {0} /\ seed_idx \in Nat \ {0} /\ fill_idx \in Nat \ {0}
          /\ larry \in LarryPC /\ curly \in CurlyPC /\ moe \in MoePC

\* The lines printed so far: "Larry digs", "Curly puts a seed", "Moe fills".
Dug    == dig_idx - 1 + (IF larry = "post" THEN 1 ELSE 0)
Seeded == seed_idx - 1 + (IF curly = "post" THEN 1 ELSE 0)
Filled == fill_idx - 1 + (IF moe = "drop" THEN 1 ELSE 0)

LarryHolds == larry \in {"hole", "post", "drop"}
MoeHolds   == moe \in {"fill", "drop"}

\* Larry and Moe never have the shovel at the same time, so that unfilled, a plain int,
\* is never read by one while the other changes it.
ShovelExclusion == ~(LarryHolds /\ MoeHolds)

\* unfilled is what its name says whenever a thread decides by it: no update is lost.
UnfilledIsExact == unfilled = Dug - Filled

\* Larry is never more than MAX_UNFILLED holes ahead of Moe.
UnfilledIsBounded == Dug - Filled \in 0..MAX_UNFILLED

\* What ties the semaphores and the indices to the threads' positions.
SemaphoreCounts ==
    /\ shovel + (IF LarryHolds THEN 1 ELSE 0) + (IF MoeHolds THEN 1 ELSE 0) = 1
    /\ empty_hole + (IF curly \in {"seed", "post"} THEN 1 ELSE 0) = dig_idx - seed_idx
    /\ seed_hole + (IF moe \in {"shovel", "fill", "drop"} THEN 1 ELSE 0) = seed_idx - fill_idx
    /\ dig_idx <= FillTarget + 1
    /\ larry \in {"wait", "hole", "post"} => dig_idx <= FillTarget

\* The inductive invariant: no line of it survives a step without the others.
FieldInv == /\ TypeOK
            /\ SemaphoreCounts
            /\ UnfilledIsExact
            /\ UnfilledIsBounded

\* All holes get filled and main's joins return, for every argument but 0.
AllHolesGetFilled == (MAX_UNFILLED > 0) ~> (Joined /\ fill_idx = FillTarget + 1)

\* The program digs, seeds and fills as HoleLine says.
Line == INSTANCE HoleLine WITH Target <- FillTarget, limit <- MAX_UNFILLED,
                               dug <- Dug, seeded <- Seeded, filled <- Filled

ImplementsHoleLine == Line!Spec
============================================================================
