----------------------------- MODULE ShellServer -----------------------------
(***************************************************************************)
(* shell_lab/shell.c: a server that forks a session for each client, looks *)
(* at its keyboard after each accept, and on "q" waits for its sessions;   *)
(* sessions that run pipelines, one stage after the other, over pipes of   *)
(* bounded capacity.                                                       *)
(*                                                                         *)
(* A stage is what its command does to the amount of data: "cat" passes on *)
(* what it reads, "wc" reads all and prints one line, every other command  *)
(* ignores its input and prints `size'.  The command of a line without a   *)
(* pipe runs in the session.  A first or only command that reads, reads    *)
(* the keyboard of the server.                                             *)
(***************************************************************************)
EXTENDS Integers, Sequences

CONSTANTS MAX_CONNECTION,  \* 1024 in the program
          Capacity,        \* what a pipe holds before write blocks
          Lines,           \* the lines a client may ask for, but for exit
          MaxTyped         \* bound: units typed at the keyboard for one line

Commands == {"print", "cat", "wc"}

ASSUME ShellAssumption ==
    /\ MAX_CONNECTION \in Nat \ {0} /\ Capacity \in Nat \ {0}
    /\ MaxTyped \in Nat
    /\ Lines \subseteq Seq([cmd : Commands, size : Nat]) \ {<<>>}

VARIABLES server, connection_idx,
          reaped,   \* how far the loop of waitpid has come
          session   \* session[k] is the session whose pid is thread_pid[k]

serverVars == <<server, connection_idx, reaped>>
vars == <<server, connection_idx, reaped, session>>

Sessions == 0..MAX_CONNECTION - 1

\* child, input, owed and fds are those of the stage that runs; held are the pipe ends open
\* in the session; pipe[i] is how much the pipe from stage i to stage i + 1 contains, and
\* typed what the first stage got from the keyboard.
Session(pc) ==
    [pc |-> pc, client |-> "here", line |-> <<>>, stage |-> 0, child |-> "none", input |-> "ended",
     owed |-> 0, held |-> {}, fds |-> {}, pipe |-> <<>>, typed |-> 0, delivered |-> 0]

Init == /\ server = "accept" /\ connection_idx = -1 /\ reaped = 0
        /\ session = [k \in Sessions |-> Session("none")]

----------------------------------------------------------------------------
(* The server *)

Accept == /\ server = "accept"
          /\ server' = "accepted"
          /\ UNCHANGED <<connection_idx, reaped, session>>

\* m_kbhit and the loop after it find a 'q'; of a closed keyboard read reads nothing, and
\* what the uninitialised c then holds may be a 'q' too.  Either can happen at any accept.
Quit == /\ server = "accepted"
        /\ server' = "waiting"
        /\ UNCHANGED <<connection_idx, reaped, session>>

\* Bound: the model ends where the program writes behind thread_pid.
Fork == /\ server = "accepted"
        /\ connection_idx + 1 < MAX_CONNECTION
        /\ connection_idx' = connection_idx + 1
        /\ session' = [session EXCEPT ![connection_idx + 1] = Session("prompt")]
        /\ server' = "accept"
        /\ UNCHANGED reaped

\* Mutants of Awaited: waitpid does not wait; it also waits where no pid was stored.
AwaitedNot(k) == TRUE
AwaitedEven(k) == session[k].pc = "ended"

\* thread_pid[k] is 0, or waitpid returns.
Awaited(k) == session[k].pc \in {"none", "ended"}

Reap == /\ server = "waiting" /\ reaped < MAX_CONNECTION
        /\ Awaited(reaped)
        /\ reaped' = reaped + 1
        /\ UNCHANGED <<server, connection_idx, session>>

ServerExits == /\ server = "waiting" /\ reaped = MAX_CONNECTION
               /\ server' = "exited"
               /\ UNCHANGED <<connection_idx, reaped, session>>

----------------------------------------------------------------------------
(* A session and the client behind it *)

Last(k)  == Len(session[k].line)
Here(k)  == session[k].client = "here"
Runs(k)  == session[k].line[session[k].stage]

Ends(n) == (1..n) \X {"r", "w"}

\* A line with a pipe in it: all the pipes are created before the first fork.
Ask(k, l) == /\ session[k].pc = "prompt" /\ Here(k) /\ Len(l) > 1
             /\ session' = [session EXCEPT ![k] =
                              [@ EXCEPT !.pc = "fork", !.line = l, !.stage = 1, !.delivered = 0,
                                        !.typed = 0,
                                        !.pipe = [i \in 1..Len(l) - 1 |-> 0],
                                        !.held = Ends(Len(l) - 1)]]
             /\ UNCHANGED serverVars

\* What command c reads and prints when it starts as stage i.
InputOf(c, i) == IF c.cmd = "print" THEN "ended" ELSE IF i = 1 THEN "keyboard" ELSE "pipe"
OwedOf(c)     == IF c.cmd = "print" THEN c.size ELSE 0

\* A line without a pipe: the session itself is the only stage.
AskAlone(k, l) ==
    /\ session[k].pc = "prompt" /\ Here(k) /\ Len(l) = 1
    /\ session' = [session EXCEPT ![k] =
                     [@ EXCEPT !.pc = "alone", !.line = l, !.stage = 1, !.delivered = 0, !.typed = 0,
                               !.child = "running", !.input = InputOf(l[1], 1), !.owed = OwedOf(l[1])]]
    /\ UNCHANGED serverVars

AskExit(k) == /\ session[k].pc = "prompt" /\ Here(k)
              /\ session' = [session EXCEPT ![k].pc = "ended"]
              /\ UNCHANGED serverVars

Leave(k) == /\ session[k].pc \notin {"none", "ended"} /\ Here(k)
            /\ session' = [session EXCEPT ![k].client = "gone"]
            /\ UNCHANGED serverVars

\* Without a client the session reads nothing, prompts again, and dies of the prompt.
HangUp(k) == /\ session[k].pc = "prompt" /\ ~Here(k)
             /\ session' = [session EXCEPT ![k] = Session("ended")]
             /\ UNCHANGED serverVars

\* The ends of its pipes that a stage closes of those it got from the session.
ClosedByStage(k) == LET i == session[k].stage
                    IN {<<i - 1, "w">>} \cup (IF i < Last(k) THEN {<<i, "r">>} ELSE {})

ForkStage(k) ==
    LET s == session[k]
    IN /\ s.pc = "fork"
       /\ session' = [session EXCEPT ![k] =
                        [s EXCEPT !.pc = "close", !.child = "running",
                                  !.fds = s.fds \cup (s.held \ ClosedByStage(k)),
                                  !.input = InputOf(Runs(k), s.stage), !.owed = OwedOf(Runs(k))]]
       /\ UNCHANGED serverVars

\* Mutants of ClosedBySession: the write ends stay open; the read ends do; the read end
\* of the pipe just filled is closed with its write end.
ClosedBySessionR(k) == LET i == session[k].stage IN {<<i - 1, "r">>}
ClosedBySessionW(k) == LET i == session[k].stage IN {<<i, "w">>}
ClosedBySessionTooMuch(k) == LET i == session[k].stage IN {<<i - 1, "r">>, <<i, "w">>, <<i, "r">>}

\* After forking stage i the session is done with the read end before it and the write
\* end behind it.
ClosedBySession(k) == LET i == session[k].stage IN {<<i - 1, "r">>, <<i, "w">>}

CloseEnds(k) == /\ session[k].pc = "close"
                /\ session' = [session EXCEPT ![k].pc = "wait",
                                              ![k].held = @ \ ClosedBySession(k)]
                /\ UNCHANGED serverVars

\* waitpid; then the next stage, or the next prompt.
WaitStage(k) ==
    LET s == session[k]
    IN /\ s.pc = "wait" /\ s.child = "exited"
       /\ session' = [session EXCEPT ![k] =
                        IF s.stage = Last(k)
                        THEN [s EXCEPT !.pc = "prompt", !.child = "none", !.pipe = <<>>]
                        ELSE [s EXCEPT !.pc = "fork", !.child = "none", !.stage = s.stage + 1]]
       /\ UNCHANGED serverVars

SessionStep(k) == HangUp(k) \/ ForkStage(k) \/ CloseEnds(k) \/ WaitStage(k)

----------------------------------------------------------------------------
(* The running stage of a session *)

\* Somebody types at the keyboard of the server, and this stage is the one that gets it.
Typed(k) ==
    /\ session[k].child = "running" /\ session[k].input = "keyboard"
    /\ session[k].typed < MaxTyped
    /\ session' = [session EXCEPT ![k].typed = @ + 1,
                                  ![k].owed = IF Runs(k).cmd = "cat" THEN @ + 1 ELSE @]
    /\ UNCHANGED serverVars

TypingEnds(k) ==
    /\ session[k].child = "running" /\ session[k].input = "keyboard"
    /\ session' = [session EXCEPT ![k].input = "ended",
                                  ![k].owed = IF Runs(k).cmd = "wc" THEN 1 ELSE @]
    /\ UNCHANGED serverVars

Open(k, end) == end \in session[k].held \cup session[k].fds

StageReads(k) ==
    LET i == session[k].stage
    IN /\ session[k].child = "running" /\ session[k].input = "pipe"
       /\ session[k].pipe[i - 1] > 0
       /\ session' = [session EXCEPT ![k].pipe[i - 1] = @ - 1,
                                     ![k].owed = IF Runs(k).cmd = "cat" THEN @ + 1 ELSE @]
       /\ UNCHANGED serverVars

\* End of file: the pipe is empty and nobody, the stage itself included, can write to it.
StageSeesEnd(k) ==
    LET i == session[k].stage
    IN /\ session[k].child = "running" /\ session[k].input = "pipe"
       /\ session[k].pipe[i - 1] = 0 /\ ~Open(k, <<i - 1, "w">>)
       /\ session' = [session EXCEPT ![k].input = "ended",
                                     ![k].owed = IF Runs(k).cmd = "wc" THEN 1 ELSE @]
       /\ UNCHANGED serverVars

\* Mutant of Room: a pipe takes one more than it holds.
RoomForOneMore(k) == session[k].pipe[session[k].stage] <= Capacity

Room(k) == session[k].pipe[session[k].stage] < Capacity

StageWrites(k) ==
    LET i == session[k].stage
    IN /\ session[k].child = "running" /\ session[k].owed > 0
       /\ \/ /\ i = Last(k) /\ Here(k)
             /\ session' = [session EXCEPT ![k].owed = @ - 1, ![k].delivered = @ + 1]
          \/ /\ i < Last(k) /\ Open(k, <<i, "r">>) /\ Room(k)
             /\ session' = [session EXCEPT ![k].owed = @ - 1, ![k].pipe[i] = @ + 1]
       /\ UNCHANGED serverVars

Alone(k) == session[k].pc = "alone"

\* A write that nobody can ever read kills the stage, the session if it is the only stage.
StageBreaks(k) ==
    LET i == session[k].stage
    IN /\ session[k].child = "running" /\ session[k].owed > 0
       /\ IF i = Last(k) THEN ~Here(k) ELSE ~Open(k, <<i, "r">>)
       /\ session' = [session EXCEPT ![k] =
                        IF Alone(k) THEN Session("ended")
                        ELSE [@ EXCEPT !.child = "exited", !.fds = {}, !.owed = 0]]
       /\ UNCHANGED serverVars

StageExits(k) ==
    /\ session[k].child = "running"
    /\ session[k].input = "ended" /\ session[k].owed = 0
    /\ session' = [session EXCEPT ![k] =
                     IF Alone(k) THEN [@ EXCEPT !.pc = "prompt", !.child = "none"]
                     ELSE [@ EXCEPT !.child = "exited", !.fds = {}]]
    /\ UNCHANGED serverVars

StageStep(k) == StageReads(k) \/ StageSeesEnd(k) \/ StageWrites(k) \/ StageBreaks(k) \/ StageExits(k)

----------------------------------------------------------------------------

ServerStep == Quit \/ Fork \/ Reap \/ ServerExits

Next == \/ Accept \/ ServerStep
        \/ \E k \in Sessions : \/ \E l \in Lines : Ask(k, l) \/ AskAlone(k, l)
                               \/ AskExit(k) \/ Leave(k)
                               \/ Typed(k) \/ TypingEnds(k)
                               \/ SessionStep(k) \/ StageStep(k)

\* Each process that can go on does.  Nobody has to connect, ask, leave
\* or type.
Fairness == /\ WF_vars(ServerStep)
            /\ \A k \in Sessions : WF_vars(SessionStep(k)) /\ WF_vars(StageStep(k))

Spec == Init /\ [][Next]_vars /\ Fairness

----------------------------------------------------------------------------
(* Properties *)

\* What the first i stages of a line print, each fed with all that the one before printed,
\* and the first with what was typed.
Printed(l, typed) ==
    LET out[i \in 0..Len(l)] == IF i = 0 THEN typed
                                ELSE CASE l[i].cmd = "print" -> l[i].size
                                       [] l[i].cmd = "cat"   -> out[i - 1]
                                       [] OTHER              -> 1
    IN out

\* Between no two stages is there more than a pipe holds.
Fits(l, typed) == \A i \in 1..Len(l) - 1 : Printed(l, typed)[i] <= Capacity

\* The line of session k waits for nothing that need not come: a reader, or the keyboard.
CanEnd(k) == session[k].line[1].cmd = "print" /\ Fits(session[k].line, 0)

Finished(k) == session[k].pc = "prompt" /\ session[k].line # <<>>

\* A pipeline gives its client what the composition of its commands gives: each stage reads
\* all of its input, and sees its end, although the session and up to two stages share the
\* descriptors of each pipe.
PipelineDelivers ==
    \A k \in Sessions : Finished(k) /\ Here(k)
        => session[k].delivered = Printed(session[k].line, session[k].typed)[Last(k)]

\* A pipeline comes back to the prompt only if each intermediate output fits into a pipe:
\* the stage that should read it is not started before the one that writes it has exited.
EndsOnlyIfItFits == \A k \in Sessions : Finished(k) => Fits(session[k].line, session[k].typed)

\* A pipeline that fits ends: no stage waits for an end of file that cannot come.
PipelineEnds ==
    \A k \in Sessions :
        (session[k].pc \in {"fork", "alone"} /\ CanEnd(k)) ~> (session[k].pc \in {"prompt", "ended"})

\* The session has no pipe end open at the prompt: any number of pipelines may follow.
EndsGivenBack == \A k \in Sessions : session[k].pc = "prompt" => session[k].held = {}

\* "wait for all clients exiting": the server exits only after every session it forked.
ServerExitsLast == server = "exited" => \A k \in Sessions : session[k].pc \in {"none", "ended"}

\* Once it waits, the server exits if the clients are gone, no pipeline hangs and no session
\* reads the keyboard.
ShutdownCompletes ==
    (/\ server = "waiting"
     /\ \A k \in Sessions : \/ session[k].pc \in {"none", "ended"}
                            \/ ~Here(k) /\ (session[k].pc = "prompt" \/ CanEnd(k))) ~> (server = "exited")
==============================================================================
