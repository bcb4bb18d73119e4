---------------------------- MODULE FaneuilHall ----------------------------
(***************************************************************************)
(* FaneuilHall/faneuil.c: one thread plays the immigrants one after the    *)
(* other, one the judge's visits, one the spectators.  Two semaphores make *)
(* the judge follow the immigrant who sat down, and the immigrant follow   *)
(* the judge's confirmation.  The plain bool judge_in_hall is polled by    *)
(* the others: the poll and the printf it guards are two steps, and so are *)
(* the judge's printf and the store to the flag.                           *)
(*                                                                         *)
(* The sleeps are where the threads interleave; spectator_idx, which only  *)
(* numbers the spectators' lines, is left out.                             *)
(***************************************************************************)
EXTENDS Integers

CONSTANT IMMIGRANT_TARGET

ASSUME HallAssumption == IMMIGRANT_TARGET \in Nat \ {0}

VARIABLES judge_in_hall, immigrant_sit_down, immigrant_confirmed,
          immigrant_idx, judge_idx,
          immigrant, judge, spectator     \* where each thread is

vars == <<judge_in_hall, immigrant_sit_down, immigrant_confirmed,
          immigrant_idx, judge_idx, immigrant, judge, spectator>>

ImmigrantPC == {"outside", "door", "inside", "seated", "oath", "sworn", "exit", "done"}
JudgePC     == {"outside", "door", "enter", "inside", "confirmed", "left", "check", "done"}
SpectatorPC == {"outside", "door", "inside", "exit", "check", "done"}

Init == /\ judge_in_hall = FALSE
        /\ immigrant_sit_down = 0 /\ immigrant_confirmed = 0
        /\ immigrant_idx = 1 /\ judge_idx = 1
        /\ immigrant = "outside" /\ judge = "outside" /\ spectator = "outside"

----------------------------------------------------------------------------
(* The immigrants *)

ImmigrantMoves(from, to) == immigrant = from /\ immigrant' = to

ImmigrantWaitsOutside == /\ ImmigrantMoves("outside", "door")
                         /\ ~judge_in_hall
                         /\ UNCHANGED <<judge_in_hall, immigrant_sit_down, immigrant_confirmed,
                                        immigrant_idx, judge_idx, judge, spectator>>

ImmigrantEnters == /\ ImmigrantMoves("door", "inside")
                   /\ UNCHANGED <<judge_in_hall, immigrant_sit_down, immigrant_confirmed,
                                  immigrant_idx, judge_idx, judge, spectator>>

\* Check in, sit down, sem_post(&immigrant_sit_down).
ImmigrantSitsDown == /\ ImmigrantMoves("inside", "seated")
                     /\ immigrant_sit_down' = immigrant_sit_down + 1
                     /\ UNCHANGED <<judge_in_hall, immigrant_confirmed,
                                    immigrant_idx, judge_idx, judge, spectator>>

\* Mutant of ImmigrantConfirmed: the oath is taken without the judge's confirmation.
ImmigrantUnconfirmed == /\ ImmigrantMoves("seated", "oath")
                        /\ UNCHANGED <<judge_in_hall, immigrant_sit_down, immigrant_confirmed,
                                       immigrant_idx, judge_idx, judge, spectator>>

ImmigrantConfirmed == /\ ImmigrantMoves("seated", "oath")
                      /\ immigrant_confirmed > 0
                      /\ immigrant_confirmed' = immigrant_confirmed - 1
                      /\ UNCHANGED <<judge_in_hall, immigrant_sit_down,
                                     immigrant_idx, judge_idx, judge, spectator>>

\* Swear and get the certificate.
ImmigrantSwears == /\ ImmigrantMoves("oath", "sworn")
                   /\ UNCHANGED <<judge_in_hall, immigrant_sit_down, immigrant_confirmed,
                                  immigrant_idx, judge_idx, judge, spectator>>

\* Mutant of ImmigrantWaitsInside: the second loop on judge_in_hall is missing.
ImmigrantHurries == /\ ImmigrantMoves("sworn", "exit")
                    /\ UNCHANGED <<judge_in_hall, immigrant_sit_down, immigrant_confirmed,
                                   immigrant_idx, judge_idx, judge, spectator>>

ImmigrantWaitsInside == /\ ImmigrantMoves("sworn", "exit")
                        /\ ~judge_in_hall
                        /\ UNCHANGED <<judge_in_hall, immigrant_sit_down, immigrant_confirmed,
                                       immigrant_idx, judge_idx, judge, spectator>>

\* Leave; the next number comes, or the thread ends with the last one.
ImmigrantLeaves ==
    /\ immigrant = "exit"
    /\ IF immigrant_idx = IMMIGRANT_TARGET
       THEN immigrant' = "done" /\ UNCHANGED immigrant_idx
       ELSE immigrant' = "outside" /\ immigrant_idx' = immigrant_idx + 1
    /\ UNCHANGED <<judge_in_hall, immigrant_sit_down, immigrant_confirmed,
                   judge_idx, judge, spectator>>

Immigrant == \/ ImmigrantWaitsOutside \/ ImmigrantEnters \/ ImmigrantSitsDown
             \/ ImmigrantConfirmed \/ ImmigrantSwears \/ ImmigrantWaitsInside
             \/ ImmigrantLeaves

----------------------------------------------------------------------------
(* The judge *)

JudgeMoves(from, to) == judge = from /\ judge' = to

\* Mutant of JudgeWaits: the judge does not wait for someone to sit down.
JudgeComesAnyway == /\ JudgeMoves("outside", "door")
                    /\ UNCHANGED <<judge_in_hall, immigrant_sit_down, immigrant_confirmed,
                                   immigrant_idx, judge_idx, immigrant, spectator>>

JudgeWaits == /\ JudgeMoves("outside", "door")
              /\ immigrant_sit_down > 0
              /\ immigrant_sit_down' = immigrant_sit_down - 1
              /\ UNCHANGED <<judge_in_hall, immigrant_confirmed,
                             immigrant_idx, judge_idx, immigrant, spectator>>

JudgeSetsFlag == /\ JudgeMoves("door", "enter")
                 /\ judge_in_hall' = TRUE
                 /\ UNCHANGED <<immigrant_sit_down, immigrant_confirmed,
                                immigrant_idx, judge_idx, immigrant, spectator>>

JudgeEnters == /\ JudgeMoves("enter", "inside")
               /\ UNCHANGED <<judge_in_hall, immigrant_sit_down, immigrant_confirmed,
                              immigrant_idx, judge_idx, immigrant, spectator>>

\* Mutant of JudgeConfirms: the semaphore is not posted.
JudgeStaysSilent == /\ JudgeMoves("inside", "confirmed")
                    /\ UNCHANGED <<judge_in_hall, immigrant_sit_down, immigrant_confirmed,
                                   immigrant_idx, judge_idx, immigrant, spectator>>

JudgeConfirms == /\ JudgeMoves("inside", "confirmed")
                 /\ immigrant_confirmed' = immigrant_confirmed + 1
                 /\ UNCHANGED <<judge_in_hall, immigrant_sit_down,
                                immigrant_idx, judge_idx, immigrant, spectator>>

JudgeLeaves == /\ JudgeMoves("confirmed", "left")
               /\ UNCHANGED <<judge_in_hall, immigrant_sit_down, immigrant_confirmed,
                              immigrant_idx, judge_idx, immigrant, spectator>>

\* Mutant of JudgeClearsFlag: the flag stays set.
JudgeForgetsFlag == /\ JudgeMoves("left", "check")
                    /\ UNCHANGED <<judge_in_hall, immigrant_sit_down, immigrant_confirmed,
                                   immigrant_idx, judge_idx, immigrant, spectator>>

JudgeClearsFlag == /\ JudgeMoves("left", "check")
                   /\ judge_in_hall' = FALSE
                   /\ UNCHANGED <<immigrant_sit_down, immigrant_confirmed,
                                  immigrant_idx, judge_idx, immigrant, spectator>>

\* The judge stops when it finds the last number, whoever has it by now.
JudgeDecides ==
    /\ judge = "check"
    /\ IF immigrant_idx = IMMIGRANT_TARGET
       THEN judge' = "done" /\ UNCHANGED judge_idx
       ELSE judge' = "outside" /\ judge_idx' = judge_idx + 1
    /\ UNCHANGED <<judge_in_hall, immigrant_sit_down, immigrant_confirmed,
                   immigrant_idx, immigrant, spectator>>

Judge == \/ JudgeWaits \/ JudgeSetsFlag \/ JudgeEnters \/ JudgeConfirms
         \/ JudgeLeaves \/ JudgeClearsFlag \/ JudgeDecides

----------------------------------------------------------------------------
(* The spectators *)

SpectatorMoves(from, to) ==
    /\ spectator = from /\ spectator' = to
    /\ UNCHANGED <<judge_in_hall, immigrant_sit_down, immigrant_confirmed,
                   immigrant_idx, judge_idx, immigrant, judge>>

SpectatorWaitsOutside == SpectatorMoves("outside", "door") /\ ~judge_in_hall

SpectatorEnters == SpectatorMoves("door", "inside")

SpectatorWaitsInside == SpectatorMoves("inside", "exit") /\ ~judge_in_hall

SpectatorLeaves == SpectatorMoves("exit", "check")

SpectatorDecides ==
    SpectatorMoves("check", IF immigrant_idx = IMMIGRANT_TARGET THEN "done" ELSE "outside")

Spectator == \/ SpectatorWaitsOutside \/ SpectatorEnters \/ SpectatorWaitsInside
             \/ SpectatorLeaves \/ SpectatorDecides

----------------------------------------------------------------------------

Next == Immigrant \/ Judge \/ Spectator

\* Every thread that can take its next step does: the sleeps end, and a poll of the flag
\* is repeated until it reads FALSE.
Fairness == WF_vars(Immigrant) /\ WF_vars(Judge) /\ WF_vars(Spectator)

Spec == Init /\ [][Next]_vars /\ Fairness

----------------------------------------------------------------------------
(* Properties *)

TypeOK == /\ judge_in_hall \in BOOLEAN
          /\ immigrant_sit_down \in 0..1 /\ immigrant_confirmed \in 0..1
          /\ immigrant_idx \in 1..IMMIGRANT_TARGET
          /\ judge_idx \in 1..IMMIGRANT_TARGET
          /\ immigrant \in ImmigrantPC /\ judge \in JudgePC /\ spectator \in SpectatorPC

\* Between its lines "come in" and "leave" the judge is in the hall.
JudgeInside == judge \in {"inside", "confirmed"}

\* How many immigrants the judge has confirmed.
Confirmations == judge_idx - (IF judge \in {"outside", "door", "enter", "inside"} THEN 1 ELSE 0)

\* The rendezvous: the judge comes for the immigrant who sits there, with its own number,
\* and that immigrant stays seated until confirmed.
JudgeMeetsTheSeated ==
    judge \in {"door", "enter", "inside"} => immigrant = "seated" /\ judge_idx = immigrant_idx

\* Nobody swears before the judge confirmed that very number.
OathFollowsConfirmation ==
    immigrant \in {"oath", "sworn", "exit"} => Confirmations = immigrant_idx

\* The flag is up from just before the judge comes in until just after the judge left.
FlagCoversVisit == judge_in_hall <=> judge \in {"enter", "inside", "confirmed", "left"}

\* How far the two handshakes have come, for each place of the two threads.
Handshake ==
    /\ immigrant_sit_down = 1 <=> /\ immigrant = "seated"
                                  /\ judge \in {"outside", "check", "done"}
                                  /\ Confirmations = immigrant_idx - 1
    /\ immigrant_confirmed = 1 <=> immigrant = "seated" /\ Confirmations = immigrant_idx
    /\ immigrant \in {"outside", "door", "inside"} => Confirmations = immigrant_idx - 1
    /\ immigrant = "seated" => Confirmations \in {immigrant_idx - 1, immigrant_idx}
    /\ immigrant = "seated" /\ judge \in {"confirmed", "left"} => Confirmations = immigrant_idx
    /\ immigrant = "done" => Confirmations = immigrant_idx

\* Once an immigrant has read judge_in_hall as FALSE the judge stays away until the next
\* sem_post of immigrant_sit_down.
JudgeStaysAway ==
    immigrant \in {"outside", "door", "inside", "exit", "done"}
        => judge \in {"outside", "check", "done"}

\* The inductive invariant.
HallInv == /\ TypeOK /\ FlagCoversVisit /\ Handshake /\ JudgeStaysAway
           /\ JudgeMeetsTheSeated /\ OathFollowsConfirmation

ImmigrantCrosses == \/ immigrant = "door" /\ immigrant' = "inside"
                    \/ immigrant = "exit" /\ immigrant' # "exit"
SpectatorCrosses == \/ spectator = "door" /\ spectator' = "inside"
                    \/ spectator = "exit" /\ spectator' = "check"

\* Although the test of judge_in_hall and the line it guards are two steps, no immigrant
\* comes in or leaves while the judge is in the hall: the judge comes only after a
\* sem_post of the one immigrant there is.
ImmigrantsAvoidJudge ==
    [][ImmigrantCrosses => ~JudgeInside]_vars

\* "wait no judge", "wait judge leave": no spectator comes in or leaves while the judge
\* is in the hall.
SpectatorsAvoidJudge ==
    [][SpectatorCrosses => ~JudgeInside]_vars

AllExited == immigrant = "done" /\ judge = "done" /\ spectator = "done"

\* "wait for thread to exit": the three joins of main return.
ThreadsExit == <>AllExited

\* Every immigrant but the last is naturalised, whatever the judge decides by.
LastImmigrantComes == <>(immigrant_idx = IMMIGRANT_TARGET)

\* The program hangs in one way only: the judge saw the last number one visit too early.
HangsOnlyWithoutJudge == <>(AllExited \/ (judge = "done" /\ judge_idx < IMMIGRANT_TARGET))
============================================================================
