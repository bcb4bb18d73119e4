------------------------- MODULE FaneuilHallProofs -------------------------
(***************************************************************************)
(* Proofs about FaneuilHall for every IMMIGRANT_TARGET.                    *)
(*                                                                         *)
(* HallInv is inductive: the two semaphores alternate, so that the judge's *)
(* number and the immigrant's never differ by more than the one visit in   *)
(* progress, and an immigrant who has seen the flag down meets no judge    *)
(* before the next immigrant sits down.                                    *)
(***************************************************************************)
EXTENDS FaneuilHall, TLAPS

(* The program starts in the invariant. *)
LEMMA InitHallInv == Init => HallInv
<1> SUFFICES ASSUME Init PROVE HallInv
    OBVIOUS
<1>1. judge_in_hall \in BOOLEAN
      BY Zenon DEF Init
<1>2. /\ immigrant_sit_down = 0 /\ immigrant_confirmed = 0
      /\ immigrant_idx = 1 /\ judge_idx = 1
      /\ immigrant = "outside" /\ judge = "outside" /\ spectator = "outside"
      BY DEF Init
<1>3. TypeOK /\ Handshake /\ JudgeStaysAway /\ JudgeMeetsTheSeated /\ OathFollowsConfirmation
      BY <1>1, <1>2, HallAssumption
      DEF TypeOK, Handshake, JudgeStaysAway, JudgeMeetsTheSeated,
          OathFollowsConfirmation, Confirmations, ImmigrantPC, JudgePC, SpectatorPC
<1>4. judge \notin {"enter", "inside", "confirmed", "left"}
      BY <1>2
<1>5. FlagCoversVisit
      BY <1>4, Zenon DEF Init, FlagCoversVisit
<1>6. QED
      BY <1>3, <1>5 DEF HallInv

(* Each step of the immigrants keeps it. *)
LEMMA ImmigrantKeepsHallInv == HallInv /\ Immigrant => HallInv'
<1> USE HallAssumption
        DEF HallInv, TypeOK, FlagCoversVisit, Handshake, JudgeStaysAway, JudgeMeetsTheSeated,
            OathFollowsConfirmation, Confirmations, ImmigrantPC, JudgePC, SpectatorPC
<1> SUFFICES ASSUME HallInv, Immigrant PROVE HallInv'
    OBVIOUS
<1>1. CASE ImmigrantWaitsOutside
      BY <1>1 DEF ImmigrantWaitsOutside, ImmigrantMoves
<1>2. CASE ImmigrantEnters
      BY <1>2 DEF ImmigrantEnters, ImmigrantMoves
<1>3. CASE ImmigrantSitsDown
      BY <1>3 DEF ImmigrantSitsDown, ImmigrantMoves
<1>4. CASE ImmigrantConfirmed
      BY <1>4 DEF ImmigrantConfirmed, ImmigrantMoves
<1>5. CASE ImmigrantSwears
      BY <1>5 DEF ImmigrantSwears, ImmigrantMoves
<1>6. CASE ImmigrantWaitsInside
      BY <1>6 DEF ImmigrantWaitsInside, ImmigrantMoves
<1>7. CASE ImmigrantLeaves
      BY <1>7 DEF ImmigrantLeaves
<1>8. QED
      BY <1>1, <1>2, <1>3, <1>4, <1>5, <1>6, <1>7 DEF Immigrant

(* The judge's store of FALSE to the flag keeps it. *)
LEMMA ClearingKeepsHallInv == HallInv /\ JudgeClearsFlag => HallInv'
<1> SUFFICES ASSUME HallInv, JudgeClearsFlag PROVE HallInv'
    OBVIOUS
<1>1. judge_in_hall' \in BOOLEAN
      BY Zenon DEF JudgeClearsFlag
<1>2. /\ judge = "left" /\ judge' = "check"
      /\ UNCHANGED <<immigrant_sit_down, immigrant_confirmed, immigrant_idx, judge_idx,
                     immigrant, spectator>>
      BY DEF JudgeClearsFlag, JudgeMoves
<1>3. (TypeOK /\ Handshake /\ JudgeStaysAway /\ JudgeMeetsTheSeated /\ OathFollowsConfirmation)'
      BY <1>1, <1>2, HallAssumption
      DEF HallInv, TypeOK, Handshake, JudgeStaysAway, JudgeMeetsTheSeated,
          OathFollowsConfirmation, Confirmations, ImmigrantPC, JudgePC, SpectatorPC
<1>4. judge' \notin {"enter", "inside", "confirmed", "left"}
      BY <1>2
<1>5. FlagCoversVisit'
      BY <1>4, Zenon DEF JudgeClearsFlag, FlagCoversVisit
<1>6. QED
      BY <1>3, <1>5 DEF HallInv

(* Each step of the judge keeps it. *)
LEMMA JudgeKeepsHallInv == HallInv /\ Judge => HallInv'
<1> USE HallAssumption
        DEF HallInv, TypeOK, FlagCoversVisit, Handshake, JudgeStaysAway, JudgeMeetsTheSeated,
            OathFollowsConfirmation, Confirmations, ImmigrantPC, JudgePC, SpectatorPC
<1> SUFFICES ASSUME HallInv, Judge PROVE HallInv'
    OBVIOUS
<1>1. CASE JudgeWaits
      BY <1>1 DEF JudgeWaits, JudgeMoves
<1>2. CASE JudgeSetsFlag
      BY <1>2 DEF JudgeSetsFlag, JudgeMoves
<1>3. CASE JudgeEnters
      BY <1>3 DEF JudgeEnters, JudgeMoves
<1>4. CASE JudgeConfirms
      BY <1>4 DEF JudgeConfirms, JudgeMoves
<1>5. CASE JudgeLeaves
      BY <1>5 DEF JudgeLeaves, JudgeMoves
<1>6. CASE JudgeClearsFlag
      BY <1>6, ClearingKeepsHallInv
<1>7. CASE JudgeDecides
      BY <1>7 DEF JudgeDecides
<1>8. QED
      BY <1>1, <1>2, <1>3, <1>4, <1>5, <1>6, <1>7 DEF Judge

(* Each step of the spectators keeps it: they only read. *)
LEMMA SpectatorKeepsHallInv == HallInv /\ Spectator => HallInv'
<1> USE HallAssumption
        DEF HallInv, TypeOK, FlagCoversVisit, Handshake, JudgeStaysAway, JudgeMeetsTheSeated,
            OathFollowsConfirmation, Confirmations, ImmigrantPC, JudgePC, SpectatorPC
<1> SUFFICES ASSUME HallInv, Spectator PROVE HallInv'
    OBVIOUS
<1>1. CASE SpectatorWaitsOutside
      BY <1>1 DEF SpectatorWaitsOutside, SpectatorMoves
<1>2. CASE SpectatorEnters
      BY <1>2 DEF SpectatorEnters, SpectatorMoves
<1>3. CASE SpectatorWaitsInside
      BY <1>3 DEF SpectatorWaitsInside, SpectatorMoves
<1>4. CASE SpectatorLeaves
      BY <1>4 DEF SpectatorLeaves, SpectatorMoves
<1>5. CASE SpectatorDecides
      BY <1>5 DEF SpectatorDecides, SpectatorMoves
<1>6. QED
      BY <1>1, <1>2, <1>3, <1>4, <1>5 DEF Spectator

(* Every step keeps it. *)
LEMMA NextKeepsHallInv == HallInv /\ [Next]_vars => HallInv'
<1>1. ASSUME HallInv, UNCHANGED vars PROVE HallInv'
      BY <1>1 DEF vars, HallInv, TypeOK, FlagCoversVisit, Handshake, JudgeStaysAway, JudgeMeetsTheSeated,
                  OathFollowsConfirmation, Confirmations
<1>2. QED
      BY <1>1, ImmigrantKeepsHallInv, JudgeKeepsHallInv, SpectatorKeepsHallInv DEF Next

(* The inductive invariant holds of the program. *)
THEOREM HallInvariant == Spec => []HallInv
BY InitHallInv, NextKeepsHallInv, PTL DEF Spec

(* The judge always comes for the immigrant who sits there, under its own number. *)
THEOREM HallRendezvous == Spec => []JudgeMeetsTheSeated
<1>1. HallInv => JudgeMeetsTheSeated
      BY DEF HallInv
<1>2. QED
      BY <1>1, HallInvariant, PTL

(* Nobody swears unconfirmed. *)
THEOREM HallOath == Spec => []OathFollowsConfirmation
<1>1. HallInv => OathFollowsConfirmation
      BY DEF HallInv
<1>2. QED
      BY <1>1, HallInvariant, PTL

(* No immigrant crosses the door while the judge is in the hall. *)
THEOREM HallDoor == Spec => ImmigrantsAvoidJudge
<1>1. HallInv /\ [Next]_vars => [ImmigrantCrosses => ~JudgeInside]_vars
      BY DEF HallInv, JudgeStaysAway, JudgeInside, ImmigrantCrosses
<1>2. QED
      BY <1>1, HallInvariant, PTL DEF Spec, ImmigrantsAvoidJudge
============================================================================
