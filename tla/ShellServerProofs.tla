-------------------------- MODULE ShellServerProofs --------------------------
(***************************************************************************)
(* Proofs about ShellServer for every number of connections, every         *)
(* capacity of a pipe, and lines of any length.                            *)
(*                                                                         *)
(* SessionInv relates the pipe ends a session and its running stage hold,  *)
(* and the amounts of data in the pipes, to the stage the session is at.   *)
(* It is inductive for each session by itself, because no step of one      *)
(* changes another.                                                        *)
(***************************************************************************)
EXTENDS ShellServer, FiniteSetTheorems, WellFoundedInduction, SequenceTheorems, TLAPS

SessionPC == {"none", "prompt", "fork", "close", "wait", "alone", "ended"}

PipeEnds == Int \X {"r", "w"}

SessionType ==
    [pc : SessionPC, client : {"here", "gone"}, line : Lines \cup {<<>>}, stage : Nat,
     child : {"none", "running", "exited"}, input : {"ended", "keyboard", "pipe"}, owed : Nat,
     held : SUBSET PipeEnds, fds : SUBSET PipeEnds, pipe : Seq(Nat), typed : Nat, delivered : Nat]

\* The ends the session holds before it forks stage i of n: those stage i or a later one
\* needs.
HeldBefore(i, n) == {<<j, "r">> : j \in {x \in 1..n - 1 : x >= i - 1}}
                    \cup {<<j, "w">> : j \in {x \in 1..n - 1 : x >= i}}

\* The ends stage i of n has while it runs.
FdsOf(i, n) == {<<j, "r">> : j \in {x \in 1..n - 1 : x >= i - 1 /\ x # i}}
               \cup {<<j, "w">> : j \in {x \in 1..n - 1 : x >= i}}

\* What the stage has printed so far.
Emitted(s) == IF s.stage < Len(s.line) THEN s.pipe[s.stage] ELSE s.delivered

\* What stage i of the line of s prints in the end; 0 is the keyboard.
Out(s, i) == Printed(s.line, s.typed)[i]

\* The running stage owes, has emitted and has not read yet what its command makes of the
\* output of the stage before it.
Accounted(s) ==
    LET c == s.line[s.stage]
    IN /\ s.input = "keyboard" => s.stage = 1
       /\ s.input = "pipe" => s.stage > 1
       /\ c.cmd = "print" => s.input = "ended" /\ s.owed + Emitted(s) = c.size
       /\ c.cmd = "cat" => s.owed + Emitted(s) + (IF s.input = "pipe" THEN s.pipe[s.stage - 1] ELSE 0)
                             = Out(s, s.stage - 1)
       /\ c.cmd = "wc" => s.owed + Emitted(s) = (IF s.input = "ended" THEN 1 ELSE 0)

AtPrompt(s) == /\ s.child = "none" /\ s.held = {} /\ s.fds = {}
               /\ s.line # <<>> => /\ Fits(s.line, s.typed)
                                   /\ s.client = "here" => s.delivered = Out(s, Len(s.line))

OnlyStage(s) == /\ Len(s.line) = 1 /\ s.stage = 1
                /\ s.child = "running" /\ s.held = {}

InPipeline(s) ==
    LET n == Len(s.line)
    IN /\ n > 1 /\ s.stage \in 1..n /\ Len(s.pipe) = n - 1
       /\ s.held = HeldBefore(IF s.pc = "wait" THEN s.stage + 1 ELSE s.stage, n)
       /\ \A j \in 1..n - 1 : s.pipe[j] <= Capacity
       /\ \A j \in 1..n - 1 : j > s.stage => s.pipe[j] = 0
       /\ s.stage < n => s.delivered = 0
       /\ \A j \in 1..n - 1 : j < s.stage => Out(s, j) <= Capacity

AboutToFork(s) == /\ s.child = "none"
                  /\ s.stage < Len(s.line) => s.pipe[s.stage] = 0
                  /\ s.delivered = 0
                  /\ s.stage = 1 => s.typed = 0
                  /\ s.stage > 1 => s.pipe[s.stage - 1] = Out(s, s.stage - 1)

Running(s) == /\ s.pc \in {"close", "wait", "alone"}
              /\ s.fds = FdsOf(s.stage, Len(s.line))
              /\ Accounted(s)

StageDone(s) == /\ s.pc \in {"close", "wait"}
                /\ \/ Emitted(s) = Out(s, s.stage)
                   \/ s.stage = Len(s.line) /\ s.client = "gone"

SessionInv(s) ==
    /\ s.pc \in {"fork", "close", "wait", "alone"} => s.line # <<>>
    /\ s.pc = "prompt" => AtPrompt(s)
    /\ s.pc = "alone" => OnlyStage(s)
    /\ s.pc \in {"fork", "close", "wait"} => InPipeline(s)
    /\ s.pc = "fork" => AboutToFork(s)
    /\ s.child = "running" => Running(s)
    /\ s.child = "exited" => StageDone(s)
    /\ s.child # "running" => s.fds = {}
    /\ s.pc \in {"none", "ended"} => s.child = "none"

\* The server forks no session once it waits, and it waits for one after the other.
ServerInv == /\ server \in {"accept", "accepted", "waiting", "exited"}
             /\ connection_idx \in -1..MAX_CONNECTION - 1
             /\ reaped \in 0..MAX_CONNECTION
             /\ server \notin {"waiting", "exited"} => reaped = 0
             /\ server = "exited" => reaped = MAX_CONNECTION
             /\ \A k \in Sessions : k < reaped => session[k].pc \in {"none", "ended"}

ShellInv == /\ session \in [Sessions -> SessionType]
            /\ \A k \in Sessions : SessionInv(session[k])
            /\ ServerInv
----------------------------------------------------------------------------
(* What a line prints *)

(* Induction on the natural numbers, for a set: the sets 0..n whose n is missing would *)
(* have no smallest one.                                                                *)
LEMMA SetInduction ==
    ASSUME NEW S, 0 \in S, \A n \in Nat : n \in S => n + 1 \in S
    PROVE  Nat \subseteq S
<1> SUFFICES ASSUME NEW z \in Nat, z \notin S PROVE FALSE
    OBVIOUS
<1> DEFINE Missing == {0..n : n \in Nat \ S}
<1>1. Missing \subseteq FiniteSubsetsOf(Nat) /\ Missing # {}
    <2>1. \A n \in Nat : IsFiniteSet(0..n) /\ 0..n \subseteq Nat
        BY FS_Interval
    <2>2. QED
        BY <2>1 DEF FiniteSubsetsOf
<1>2. PICK U \in Missing : \A V \in Missing : <<V, U>> \notin StrictSubsetOrdering(Nat)
    <2> HIDE DEF Missing
    <2>1. QED
        BY <1>1, FS_StrictSubsetOrderingWellFounded, WFMin
<1>3. PICK x \in Nat \ S : U = 0..x
    BY <1>2
<1>4. x # 0 /\ x - 1 \in Nat
    OBVIOUS
<1>5. x - 1 \notin S
    <2>1. x - 1 \in S => (x - 1) + 1 \in S
        BY <1>4
    <2>2. QED
        BY <2>1, <1>4
<1>6. 0..x - 1 \in Missing
    BY <1>4, <1>5
<1>7. /\ 0..x - 1 \subseteq 0..x /\ 0..x \subseteq Nat
      /\ x \in 0..x /\ x \notin 0..x - 1
    BY <1>4
<1>8. <<0..x - 1, 0..x>> \in StrictSubsetOrdering(Nat)
    BY <1>7 DEF StrictSubsetOrdering
<1>9. QED
    BY <1>2, <1>3, <1>6, <1>8

\* What stage i prints after a stage that printed `before'.
Prints(l, i, before) == CASE l[i].cmd = "print" -> l[i].size
                          [] l[i].cmd = "cat"   -> before
                          [] OTHER              -> 1

(* A line is a sequence of one or more commands. *)
LEMMA LinesTyped ==
    ASSUME NEW l \in Lines
    PROVE  /\ l \in Seq([cmd : Commands, size : Nat]) /\ l # <<>>
           /\ Len(l) \in Nat /\ Len(l) >= 1
           /\ \A i \in 1..Len(l) : l[i].cmd \in Commands /\ l[i].size \in Nat
<1>1. l \in Seq([cmd : Commands, size : Nat]) /\ l # <<>>
    BY ShellAssumption
<1>2. Len(l) \in Nat /\ Len(l) >= 1
    BY <1>1
<1>3. \A i \in 1..Len(l) : l[i] \in [cmd : Commands, size : Nat]
    BY <1>1, ElementOfSeq
<1>4. QED
    BY <1>1, <1>2, <1>3

(* The recursive definition of Printed has a solution, so that it can be unfolded. *)
LEMMA PrintedUnfolds ==
    ASSUME NEW l \in Seq([cmd : Commands, size : Nat]), NEW typed \in Nat
    PROVE  Printed(l, typed) =
             [i \in 0..Len(l) |-> IF i = 0 THEN typed ELSE Prints(l, i, Printed(l, typed)[i - 1])]
<1> DEFINE Solves(g, n) == g = [i \in 0..n |-> IF i = 0 THEN typed ELSE Prints(l, i, g[i - 1])]
           Solved == {n \in Nat : \E g : Solves(g, n)}
<1>1. 0 \in Solved
    <2>1. Solves([i \in 0..0 |-> typed], 0)
        OBVIOUS
    <2>2. QED
        BY <2>1
<1>2. ASSUME NEW n \in Nat, n \in Solved PROVE n + 1 \in Solved
    <2>1. PICK g : Solves(g, n)
        BY <1>2
    <2> DEFINE h == [i \in 0..n + 1 |-> IF i = n + 1 THEN Prints(l, n + 1, g[n]) ELSE g[i]]
    <2>2. \A i \in 0..n : h[i] = g[i]
        OBVIOUS
    <2>3. h[n + 1] = Prints(l, n + 1, g[n])
        OBVIOUS
    <2>4. ASSUME NEW i \in 0..n + 1
          PROVE  h[i] = IF i = 0 THEN typed ELSE Prints(l, i, h[i - 1])
        <3> HIDE DEF h
        <3>1. CASE i = n + 1
            BY <2>2, <2>3, <3>1
        <3>2. CASE i = 0
            BY <2>1, <2>2, <3>2
        <3>3. CASE i \in 1..n
            <4>1. i - 1 \in 0..n /\ i \in 0..n /\ i # 0
                BY <3>3
            <4>2. g[i] = Prints(l, i, g[i - 1])
                BY <2>1, <4>1
            <4>3. QED
                BY <2>2, <4>1, <4>2
        <3>4. QED
            BY <3>1, <3>2, <3>3
    <2>5. Solves(h, n + 1)
        BY <2>4
    <2>6. \E f : Solves(f, n + 1)
        <3> HIDE DEF h, Solves
        <3>1. QED
            BY <2>5
    <2>7. QED
        BY <2>6
<1>3. Nat \subseteq Solved
    <2> HIDE DEF Solved
    <2>1. QED
        BY <1>1, <1>2, SetInduction
<1>4. Len(l) \in Nat
    OBVIOUS
<1>5. \E g : Solves(g, Len(l))
    BY <1>3, <1>4
<1>6. Solves(Printed(l, typed), Len(l))
    BY <1>5 DEF Printed, Prints
<1>7. QED
    BY <1>6

(* What the keyboard and each stage print, one stage at a time. *)
LEMMA PrintedSteps ==
    ASSUME NEW l \in Seq([cmd : Commands, size : Nat]), NEW typed \in Nat
    PROVE  /\ Printed(l, typed)[0] = typed
           /\ \A i \in 1..Len(l) :
                 /\ l[i].cmd = "print" => Printed(l, typed)[i] = l[i].size
                 /\ l[i].cmd = "cat" => Printed(l, typed)[i] = Printed(l, typed)[i - 1]
                 /\ l[i].cmd = "wc" => Printed(l, typed)[i] = 1
           /\ \A i \in 0..Len(l) : Printed(l, typed)[i] \in Nat
<1> DEFINE p == Printed(l, typed)
<1>1. Len(l) \in Nat
    OBVIOUS
<1>2. p = [i \in 0..Len(l) |-> IF i = 0 THEN typed ELSE Prints(l, i, p[i - 1])]
    BY PrintedUnfolds
<1> HIDE DEF p
<1>3. p[0] = typed
    BY <1>1, <1>2
<1>4. ASSUME NEW i \in 1..Len(l)
      PROVE  /\ i \in 0..Len(l) /\ i - 1 \in 0..Len(l) /\ l[i].size \in Nat
             /\ p[i] = Prints(l, i, p[i - 1])
    <2>1. i \in 0..Len(l) /\ i # 0 /\ i - 1 \in 0..Len(l)
        BY <1>1
    <2>2. l[i] \in [cmd : Commands, size : Nat]
        BY ElementOfSeq
    <2>3. QED
        BY <1>2, <2>1, <2>2
<1>5. \A i \in 1..Len(l) : /\ l[i].cmd = "print" => p[i] = l[i].size
                           /\ l[i].cmd = "cat" => p[i] = p[i - 1]
                           /\ l[i].cmd = "wc" => p[i] = 1
    BY <1>4 DEF Prints
<1>6. \A i \in 0..Len(l) : p[i] \in Nat
    <2> DEFINE S == {i \in Nat : i \in 0..Len(l) => p[i] \in Nat}
    <2>1. 0 \in S
        BY <1>3
    <2>2. ASSUME NEW i \in Nat, i \in S PROVE i + 1 \in S
        <3> SUFFICES ASSUME i + 1 \in 0..Len(l) PROVE p[i + 1] \in Nat
            OBVIOUS
        <3>1. i + 1 \in 1..Len(l) /\ (i + 1) - 1 = i /\ i \in 0..Len(l)
            BY <1>1
        <3>2. p[i + 1] = Prints(l, i + 1, p[i]) /\ l[i + 1].size \in Nat /\ p[i] \in Nat
            BY <1>4, <2>2, <3>1
        <3>3. QED
            BY <3>2 DEF Prints
    <2>3. Nat \subseteq S
        <3> HIDE DEF S
        <3>1. QED
            BY <2>1, <2>2, SetInduction
    <2>4. QED
        BY <1>1, <2>3
<1>7. QED
    BY <1>3, <1>5, <1>6 DEF p

----------------------------------------------------------------------------
(* The ends of the pipes *)

(* All the pipes are created before the first fork. *)
LEMMA HeldAtFirst == ASSUME NEW n \in Nat PROVE Ends(n - 1) = HeldBefore(1, n)
BY DEF Ends, HeldBefore

(* The session closes what no later stage needs. *)
LEMMA HeldAfterStage ==
    ASSUME NEW n \in Nat, NEW i \in 1..n
    PROVE  HeldBefore(i, n) \ {<<i - 1, "r">>, <<i, "w">>} = HeldBefore(i + 1, n)
<1>1. ASSUME NEW j \in 1..n - 1
      PROVE  /\ j >= i - 1 /\ j # i - 1 <=> j >= (i + 1) - 1
             /\ j >= i /\ j # i <=> j >= i + 1
    OBVIOUS
<1>2. QED
    BY <1>1 DEF HeldBefore

(* Behind the last stage the session holds nothing. *)
LEMMA HeldAtLast == ASSUME NEW n \in Nat PROVE HeldBefore(n + 1, n) = {}
BY DEF HeldBefore

(* A stage gets the session's ends but the ones it closes. *)
LEMMA FdsOfStage ==
    ASSUME NEW n \in Nat, NEW i \in 1..n
    PROVE  HeldBefore(i, n) \ ({<<i - 1, "w">>} \cup (IF i < n THEN {<<i, "r">>} ELSE {})) = FdsOf(i, n)
<1>1. ASSUME NEW j \in 1..n - 1
      PROVE  j >= i => j # i - 1
    OBVIOUS
<1>2. CASE i < n
    BY <1>1, <1>2 DEF HeldBefore, FdsOf
<1>3. CASE i = n
    BY <1>1, <1>3 DEF HeldBefore, FdsOf
<1>4. QED
    BY <1>2, <1>3

(* The ends of a session are ends of pipes. *)
LEMMA EndsTyped ==
    ASSUME NEW n \in Nat, NEW i \in Nat
    PROVE  HeldBefore(i, n) \subseteq PipeEnds /\ FdsOf(i, n) \subseteq PipeEnds
BY DEF HeldBefore, FdsOf, PipeEnds

(* The only stage of a line has no pipe. *)
LEMMA FdsOfOnly == FdsOf(1, 1) = {}
BY DEF FdsOf

(* While stage i runs, somebody can read what it writes, and nobody can write what it reads. *)
LEMMA EndsOfStage ==
    ASSUME NEW n \in Nat, NEW i \in 1..n, NEW h \in {HeldBefore(i, n), HeldBefore(i + 1, n)}
    PROVE  /\ i < n => <<i, "r">> \in h \cup FdsOf(i, n)
           /\ <<i - 1, "w">> \notin h \cup FdsOf(i, n)
BY DEF HeldBefore, FdsOf

----------------------------------------------------------------------------
(* The invariant *)

(* A new session, and one that has ended. *)
LEMMA NewSession ==
    ASSUME NEW pc \in {"none", "prompt", "ended"}
    PROVE  Session(pc) \in SessionType /\ SessionInv(Session(pc))
<1>1. Session(pc) \in SessionType
    BY DEF Session, SessionType, SessionPC
<1>2. /\ Session(pc).pc = pc /\ Session(pc).line = <<>> /\ Session(pc).child = "none"
      /\ Session(pc).held = {} /\ Session(pc).fds = {}
    BY DEF Session
<1>3. QED
    BY <1>1, <1>2 DEF SessionInv, AtPrompt

(* The server and its sessions start in the invariant. *)
LEMMA InitShellInv == Init => ShellInv
<1> SUFFICES ASSUME Init PROVE ShellInv
    OBVIOUS
<1>1. /\ server = "accept" /\ connection_idx = -1 /\ reaped = 0
      /\ session = [k \in Sessions |-> Session("none")]
    BY DEF Init
<1>2. Session("none") \in SessionType /\ SessionInv(Session("none"))
    BY NewSession
<1>3. ServerInv
    BY <1>1, ShellAssumption DEF ServerInv, Sessions
<1>4. QED
    BY <1>1, <1>2, <1>3 DEF ShellInv

(* The server's steps: a new session starts at the prompt, before the server ever waits. *)
LEMMA ServerKeepsShellInv ==
    ASSUME ShellInv, Accept \/ ServerStep
    PROVE  ShellInv'
<1>1. MAX_CONNECTION \in Nat \ {0}
    BY ShellAssumption
<1>2. CASE Fork
    <2>1. /\ server = "accepted" /\ server' = "accept" /\ reaped' = reaped
          /\ connection_idx' = connection_idx + 1 /\ connection_idx + 1 < MAX_CONNECTION
          /\ session' = [session EXCEPT ![connection_idx + 1] = Session("prompt")]
        BY <1>2 DEF Fork
    <2>2. Session("prompt") \in SessionType /\ SessionInv(Session("prompt"))
        BY NewSession
    <2>3. ServerInv'
        BY <1>1, <2>1 DEF ShellInv, ServerInv, Sessions
    <2>4. QED
        BY <2>1, <2>2, <2>3 DEF ShellInv
<1>3. CASE Accept \/ Quit \/ Reap \/ ServerExits
    <2>1. session' = session
        BY <1>3 DEF Accept, Quit, Reap, ServerExits
    <2>2. ServerInv'
        BY <1>1, <1>3, <2>1 DEF Accept, Quit, Reap, ServerExits, Awaited, ShellInv, ServerInv, Sessions
    <2>3. QED
        BY <2>1, <2>2 DEF ShellInv
<1>4. QED
    BY <1>2, <1>3 DEF ServerStep

(* A step of one session leaves the others and the server alone. *)
LEMMA OneSessionKeepsShellInv ==
    ASSUME ShellInv, UNCHANGED serverVars, NEW k \in Sessions, NEW t \in SessionType,
           session' = [session EXCEPT ![k] = t], SessionInv(t),
           session[k].pc \in {"none", "ended"} => t.pc \in {"none", "ended"}
    PROVE  ShellInv'
<1>1. /\ session' \in [Sessions -> SessionType] /\ session'[k] = t
      /\ \A j \in Sessions \ {k} : session'[j] = session[j]
    BY DEF ShellInv
<1>2. \A j \in Sessions : SessionInv(session'[j])
    BY <1>1 DEF ShellInv
<1>3. ServerInv'
    BY <1>1 DEF serverVars, ShellInv, ServerInv
<1>4. QED
    BY <1>1, <1>2, <1>3 DEF ShellInv

(* A session that gets a pipeline creates all its pipes, empty. *)
LEMMA AskKeepsShellInv ==
    ASSUME ShellInv, NEW k \in Sessions, NEW l \in Lines, Ask(k, l)
    PROVE  ShellInv'
<1> DEFINE s == session[k]
           n == Len(l)
           t == [s EXCEPT !.pc = "fork", !.line = l, !.stage = 1, !.delivered = 0, !.typed = 0,
                          !.pipe = [i \in 1..n - 1 |-> 0], !.held = Ends(n - 1)]
<1>1. /\ session' = [session EXCEPT ![k] = t] /\ UNCHANGED serverVars
      /\ s.pc = "prompt" /\ n > 1
    BY DEF Ask
<1>2. s \in SessionType /\ SessionInv(s)
    BY DEF ShellInv
<1>3. l \in Seq([cmd : Commands, size : Nat]) /\ l # <<>> /\ n \in Nat
    BY LinesTyped
<1>4. Ends(n - 1) = HeldBefore(1, n) /\ HeldBefore(1, n) \subseteq PipeEnds
    BY <1>3, HeldAtFirst, EndsTyped
<1> DEFINE p == [i \in 1..n - 1 |-> 0]
<1>5. p \in Seq(Nat) /\ Len(p) = n - 1 /\ \A j \in 1..n - 1 : p[j] = 0
    <2>1. p \in [1..n - 1 -> Nat] /\ n - 1 \in Nat
        BY <1>1, <1>3
    <2>2. QED
        BY <2>1, IsASeq, LenProperties
<1>6. s.child = "none" /\ s.fds = {}
    BY <1>1, <1>2 DEF SessionInv, AtPrompt
<1>7. /\ t.pc = "fork" /\ t.line = l /\ t.stage = 1 /\ t.delivered = 0 /\ t.typed = 0
      /\ t.pipe = p /\ t.held = HeldBefore(1, n) /\ t.child = "none" /\ t.fds = {}
      /\ t \in SessionType
    <2> HIDE DEF p
    <2>1. t \in SessionType
        BY <1>2, <1>4, <1>5 DEF SessionType, SessionPC, p
    <2>2. QED
        BY <1>2, <1>4, <1>6, <2>1 DEF SessionType, p
<1>8. SessionInv(t)
    <2> HIDE DEF t, p
    <2>1. InPipeline(t)
        BY <1>1, <1>3, <1>5, <1>7, ShellAssumption DEF InPipeline
    <2>2. AboutToFork(t)
        BY <1>1, <1>3, <1>5, <1>7 DEF AboutToFork
    <2>3. QED
        BY <1>3, <1>7, <2>1, <2>2 DEF SessionInv
<1>9. QED
    <2> HIDE DEF t
    <2>1. QED
        BY <1>1, <1>7, <1>8, OneSessionKeepsShellInv

(* How much of its output the stage has accounted for when it starts. *)
LEMMA StartsAccounted ==
    ASSUME NEW s \in SessionType, s.line # <<>>, s.stage \in 1..Len(s.line),
           s.input = InputOf(s.line[s.stage], s.stage), s.owed = OwedOf(s.line[s.stage]),
           Emitted(s) = 0,
           s.stage = 1 => s.typed = 0,
           s.stage > 1 => s.pipe[s.stage - 1] = Out(s, s.stage - 1)
    PROVE  Accounted(s)
<1> DEFINE c == s.line[s.stage]
<1>1. s.line \in Lines /\ s.typed \in Nat /\ s.owed \in Nat /\ s.stage \in Nat
    BY DEF SessionType
<1>2. s.line \in Seq([cmd : Commands, size : Nat])
    BY <1>1, LinesTyped
<1>3. c.cmd \in Commands /\ c.size \in Nat
    BY <1>1, LinesTyped
<1>4. Out(s, 0) = s.typed /\ (s.stage > 1 => Out(s, s.stage - 1) \in Nat)
    <2>1. s.stage > 1 => s.stage - 1 \in 0..Len(s.line)
        BY <1>1
    <2>2. QED
        BY <1>1, <1>2, <2>1, PrintedSteps DEF Out
<1>5. s.input = (IF c.cmd = "print" THEN "ended" ELSE IF s.stage = 1 THEN "keyboard" ELSE "pipe")
    BY DEF InputOf
<1>6. s.owed = (IF c.cmd = "print" THEN c.size ELSE 0)
    BY DEF OwedOf
<1>7. CASE s.stage = 1
    BY <1>3, <1>4, <1>5, <1>6, <1>7 DEF Accounted
<1>8. CASE s.stage > 1
    BY <1>1, <1>3, <1>4, <1>5, <1>6, <1>8 DEF Accounted
<1>9. QED
    BY <1>1, <1>7, <1>8

(* A line without a pipe starts in the session. *)
LEMMA AskAloneKeepsShellInv ==
    ASSUME ShellInv, NEW k \in Sessions, NEW l \in Lines, AskAlone(k, l)
    PROVE  ShellInv'
<1> DEFINE s == session[k]
           t == [s EXCEPT !.pc = "alone", !.line = l, !.stage = 1, !.delivered = 0, !.typed = 0,
                          !.child = "running", !.input = InputOf(l[1], 1), !.owed = OwedOf(l[1])]
<1>1. /\ session' = [session EXCEPT ![k] = t] /\ UNCHANGED serverVars
      /\ s.pc = "prompt" /\ Len(l) = 1
    BY DEF AskAlone
<1>2. s \in SessionType /\ SessionInv(s)
    BY DEF ShellInv
<1>3. l # <<>> /\ l[1].cmd \in Commands /\ l[1].size \in Nat
    BY <1>1, LinesTyped
<1>4. InputOf(l[1], 1) \in {"ended", "keyboard", "pipe"} /\ OwedOf(l[1]) \in Nat
    BY <1>3 DEF InputOf, OwedOf
<1>5. s.held = {} /\ s.fds = {}
    BY <1>1, <1>2 DEF SessionInv, AtPrompt
<1>6. /\ t.pc = "alone" /\ t.line = l /\ t.stage = 1 /\ t.delivered = 0 /\ t.typed = 0
      /\ t.child = "running" /\ t.input = InputOf(l[1], 1) /\ t.owed = OwedOf(l[1])
      /\ t.held = {} /\ t.fds = {}
      /\ t \in SessionType
    BY <1>2, <1>4, <1>5 DEF SessionType, SessionPC
<1>7. SessionInv(t)
    <2> HIDE DEF t
    <2>1. Emitted(t) = 0
        <3>1. t.stage = 1 /\ Len(t.line) = 1 /\ t.delivered = 0
            BY <1>1, <1>6
        <3>2. QED
            BY <3>1 DEF Emitted
    <2>2. Accounted(t)
        BY <1>1, <1>3, <1>6, <2>1, StartsAccounted
    <2>3. Running(t)
        BY <1>1, <1>6, <2>2, FdsOfOnly DEF Running
    <2>4. QED
        BY <1>1, <1>3, <1>6, <2>3 DEF SessionInv, OnlyStage
<1>8. QED
    <2> HIDE DEF t
    <2>1. QED
        BY <1>1, <1>6, <1>7, OneSessionKeepsShellInv

(* A client that says exit, and a session that finds its client gone, end the session. *)
LEMMA EndKeepsShellInv ==
    ASSUME ShellInv, NEW k \in Sessions, AskExit(k) \/ HangUp(k)
    PROVE  ShellInv'
<1> DEFINE s == session[k]
<1>1. s \in SessionType /\ SessionInv(s) /\ s.pc = "prompt" /\ UNCHANGED serverVars
    BY DEF ShellInv, AskExit, HangUp
<1>2. CASE AskExit(k)
    <2> DEFINE t == [s EXCEPT !.pc = "ended"]
    <2>1. session' = [session EXCEPT ![k] = t]
        BY <1>2 DEF AskExit
    <2>2. /\ t \in SessionType /\ t.pc = "ended"
          /\ t.child = s.child /\ t.fds = s.fds
        BY <1>1 DEF SessionType, SessionPC
    <2>3. s.child = "none" /\ s.fds = {}
        BY <1>1 DEF SessionInv, AtPrompt
    <2>4. SessionInv(t)
        BY <2>2, <2>3 DEF SessionInv
    <2>5. QED
        <3> HIDE DEF t
        <3>1. QED
            BY <1>1, <2>1, <2>2, <2>4, OneSessionKeepsShellInv
<1>3. CASE HangUp(k)
    <2>1. session' = [session EXCEPT ![k] = Session("ended")]
        BY <1>3 DEF HangUp
    <2>2. Session("ended").pc = "ended"
        BY DEF Session
    <2>3. QED
        BY <1>1, <2>1, <2>2, NewSession, OneSessionKeepsShellInv
<1>4. QED
    BY <1>2, <1>3

(* A client that leaves takes away nothing but the wish for an answer. *)
LEMMA LeaveKeepsShellInv ==
    ASSUME ShellInv, NEW k \in Sessions, Leave(k)
    PROVE  ShellInv'
<1> DEFINE s == session[k]
           t == [s EXCEPT !.client = "gone"]
<1>1. session' = [session EXCEPT ![k] = t] /\ UNCHANGED serverVars
    BY DEF Leave
<1>2. s \in SessionType /\ SessionInv(s)
    BY DEF ShellInv
<1>3. /\ t \in SessionType /\ t.client = "gone"
      /\ t.pc = s.pc /\ t.line = s.line /\ t.stage = s.stage /\ t.child = s.child
      /\ t.input = s.input /\ t.owed = s.owed /\ t.held = s.held /\ t.fds = s.fds
      /\ t.pipe = s.pipe /\ t.typed = s.typed /\ t.delivered = s.delivered
    BY <1>2 DEF SessionType
<1> HIDE DEF t
<1>4. Emitted(t) = Emitted(s) /\ \A i : Out(t, i) = Out(s, i)
    BY <1>3 DEF Emitted, Out
<1>5. SessionInv(t)
    <2>1. s.pc = "prompt" => AtPrompt(t)
        BY <1>2, <1>3, <1>4 DEF SessionInv, AtPrompt
    <2>2. s.pc \in {"fork", "close", "wait"} => InPipeline(t)
        BY <1>2, <1>3, <1>4 DEF SessionInv, InPipeline
    <2>3. s.pc = "fork" => AboutToFork(t)
        BY <1>2, <1>3, <1>4 DEF SessionInv, AboutToFork
    <2>4. s.child = "running" => Running(t)
        BY <1>2, <1>3, <1>4 DEF SessionInv, Running, Accounted
    <2>5. s.child = "exited" => StageDone(t)
        BY <1>2, <1>3, <1>4 DEF SessionInv, StageDone
    <2>6. QED
        BY <1>2, <1>3, <2>1, <2>2, <2>3, <2>4, <2>5 DEF SessionInv, OnlyStage
<1>6. QED
    BY <1>1, <1>2, <1>3, <1>5, OneSessionKeepsShellInv

(* A stage starts with the session's ends but those it closes, and with all that the stage *)
(* before it printed in its pipe.                                                          *)
LEMMA ForkStageKeepsShellInv ==
    ASSUME ShellInv, NEW k \in Sessions, ForkStage(k)
    PROVE  ShellInv'
<1> DEFINE s == session[k]
           n == Len(s.line)
           i == s.stage
           c == s.line[i]
           t == [s EXCEPT !.pc = "close", !.child = "running",
                          !.fds = s.fds \cup (s.held \ ClosedByStage(k)),
                          !.input = InputOf(c, i), !.owed = OwedOf(c)]
<1>1. session' = [session EXCEPT ![k] = t] /\ UNCHANGED serverVars /\ s.pc = "fork"
    BY DEF ForkStage, Runs
<1>2. s \in SessionType /\ SessionInv(s)
    BY DEF ShellInv
<1>3. s.line # <<>> /\ InPipeline(s) /\ AboutToFork(s) /\ s.fds = {}
    BY <1>1, <1>2 DEF SessionInv, AboutToFork
<1>4. /\ s.line \in Lines /\ n \in Nat /\ i \in 1..n /\ n > 1
      /\ c.cmd \in Commands /\ c.size \in Nat
    <2>1. s.line \in Lines /\ i \in 1..n /\ n > 1
        BY <1>2, <1>3 DEF SessionType, InPipeline
    <2>2. QED
        BY <2>1, LinesTyped
<1>5. s.fds \cup (s.held \ ClosedByStage(k)) = FdsOf(i, n) /\ FdsOf(i, n) \subseteq PipeEnds
    <2>1. s.held = HeldBefore(i, n)
        BY <1>1, <1>3 DEF InPipeline
    <2>2. ClosedByStage(k) = {<<i - 1, "w">>} \cup (IF i < n THEN {<<i, "r">>} ELSE {})
        BY DEF ClosedByStage, Last
    <2>3. QED
        BY <1>3, <1>4, <2>1, <2>2, FdsOfStage, EndsTyped
<1>6. InputOf(c, i) \in {"ended", "keyboard", "pipe"} /\ OwedOf(c) \in Nat
    BY <1>4 DEF InputOf, OwedOf
<1>7. /\ t \in SessionType
      /\ t.pc = "close" /\ t.child = "running" /\ t.fds = FdsOf(i, n)
      /\ t.input = InputOf(c, i) /\ t.owed = OwedOf(c)
      /\ t.client = s.client /\ t.line = s.line /\ t.stage = i /\ t.held = s.held
      /\ t.pipe = s.pipe /\ t.typed = s.typed /\ t.delivered = s.delivered
    BY <1>2, <1>5, <1>6 DEF SessionType, SessionPC
<1> HIDE DEF t
<1>8. \A j : Out(t, j) = Out(s, j)
    BY <1>7 DEF Out
<1>9. SessionInv(t)
    <2>1. InPipeline(t)
        BY <1>1, <1>3, <1>7, <1>8 DEF InPipeline
    <2>2. Emitted(t) = 0
        BY <1>3, <1>7 DEF Emitted, AboutToFork
    <2>3. Accounted(t)
        BY <1>3, <1>4, <1>7, <1>8, <2>2, StartsAccounted DEF AboutToFork
    <2>4. Running(t)
        BY <1>7, <2>3 DEF Running
    <2>5. QED
        BY <1>3, <1>7, <2>1, <2>4 DEF SessionInv
<1>10. QED
    BY <1>1, <1>7, <1>9, OneSessionKeepsShellInv

(* The session closes what no later stage needs. *)
LEMMA CloseEndsKeepsShellInv ==
    ASSUME ShellInv, NEW k \in Sessions, CloseEnds(k)
    PROVE  ShellInv'
<1> DEFINE s == session[k]
           n == Len(s.line)
           i == s.stage
           t == [s EXCEPT !.pc = "wait", !.held = s.held \ ClosedBySession(k)]
<1>1. s \in SessionType /\ SessionInv(s) /\ session \in [Sessions -> SessionType]
    BY DEF ShellInv
<1>2. session' = [session EXCEPT ![k] = t] /\ UNCHANGED serverVars /\ s.pc = "close"
    BY <1>1 DEF CloseEnds, SessionType
<1>3. s.line # <<>> /\ InPipeline(s)
    BY <1>1, <1>2 DEF SessionInv
<1>4. n \in Nat /\ i \in 1..n
    BY <1>1, <1>3, LinesTyped DEF SessionType, InPipeline
<1>5. s.held \ ClosedBySession(k) = HeldBefore(i + 1, n) /\ HeldBefore(i + 1, n) \subseteq PipeEnds
    <2>1. s.held = HeldBefore(i, n)
        BY <1>2, <1>3 DEF InPipeline
    <2>2. ClosedBySession(k) = {<<i - 1, "r">>, <<i, "w">>}
        BY DEF ClosedBySession
    <2>3. QED
        BY <1>4, <2>1, <2>2, HeldAfterStage, EndsTyped, SMTT(30)
<1>6. /\ t \in SessionType
      /\ t.pc = "wait" /\ t.held = HeldBefore(i + 1, n)
      /\ t.child = s.child /\ t.fds = s.fds /\ t.input = s.input /\ t.owed = s.owed
      /\ t.client = s.client /\ t.line = s.line /\ t.stage = i
      /\ t.pipe = s.pipe /\ t.typed = s.typed /\ t.delivered = s.delivered
    BY <1>1, <1>5 DEF SessionType, SessionPC
<1> HIDE DEF t
<1>7. Emitted(t) = Emitted(s) /\ \A j : Out(t, j) = Out(s, j)
    BY <1>6 DEF Emitted, Out
<1>8. SessionInv(t)
    <2>1. InPipeline(t)
        BY <1>3, <1>6, <1>7 DEF InPipeline
    <2>2. s.child = "running" => Running(t)
        BY <1>1, <1>6, <1>7 DEF SessionInv, Running, Accounted
    <2>3. s.child = "exited" => StageDone(t)
        BY <1>1, <1>6, <1>7 DEF SessionInv, StageDone
    <2>4. QED
        BY <1>1, <1>2, <1>3, <1>6, <2>1, <2>2, <2>3 DEF SessionInv
<1>9. QED
    BY <1>2, <1>6, <1>8, OneSessionKeepsShellInv

(* The session goes on with the next stage, or with the next line. *)
LEMMA WaitStageKeepsShellInv ==
    ASSUME ShellInv, NEW k \in Sessions, WaitStage(k)
    PROVE  ShellInv'
<1> DEFINE s == session[k]
           n == Len(s.line)
           i == s.stage
<1>1. s \in SessionType /\ SessionInv(s) /\ s.pc = "wait" /\ s.child = "exited" /\ UNCHANGED serverVars
    BY DEF ShellInv, WaitStage
<1>2. s.line # <<>> /\ InPipeline(s) /\ StageDone(s) /\ s.fds = {}
    BY <1>1 DEF SessionInv
<1>3. /\ n \in Nat /\ i \in 1..n /\ n > 1 /\ s.held = HeldBefore(i + 1, n)
      /\ s.line \in Lines /\ s.pipe \in Seq(Nat)
    BY <1>1, <1>2, LinesTyped DEF SessionType, InPipeline
<1>4. CASE i = n
    <2> DEFINE t == [s EXCEPT !.pc = "prompt", !.child = "none", !.pipe = <<>>]
    <2>1. session' = [session EXCEPT ![k] = t]
        BY <1>4 DEF WaitStage, Last
    <2>2. /\ t \in SessionType
          /\ t.pc = "prompt" /\ t.child = "none" /\ t.held = s.held /\ t.fds = {}
          /\ t.client = s.client /\ t.line = s.line /\ t.typed = s.typed /\ t.delivered = s.delivered
        <3>1. <<>> \in Seq(Nat)
            OBVIOUS
        <3>2. t \in SessionType
            BY <1>1, <3>1 DEF SessionType, SessionPC
        <3>3. QED
            BY <1>1, <1>2, <3>2 DEF SessionType
    <2> HIDE DEF t
    <2>3. \A j : Out(t, j) = Out(s, j)
        BY <2>2 DEF Out
    <2>4. t.held = {}
        BY <1>3, <1>4, <2>2, HeldAtLast
    <2>5. Fits(t.line, t.typed)
        BY <1>2, <1>3, <1>4, <2>2 DEF InPipeline, Fits, Out
    <2>6. t.client = "here" => t.delivered = Out(t, n)
        BY <1>2, <1>3, <1>4, <2>2, <2>3 DEF StageDone, Emitted
    <2>7. SessionInv(t)
        BY <2>2, <2>4, <2>5, <2>6 DEF SessionInv, AtPrompt
    <2>8. QED
        BY <1>1, <2>1, <2>2, <2>7, OneSessionKeepsShellInv
<1>5. CASE i < n
    <2> DEFINE t == [s EXCEPT !.pc = "fork", !.child = "none", !.stage = i + 1]
    <2>1. session' = [session EXCEPT ![k] = t]
        <3>1. i # n
            BY <1>3, <1>5
        <3>2. QED
            BY <3>1 DEF WaitStage, Last
    <2>2. /\ t \in SessionType
          /\ t.pc = "fork" /\ t.child = "none" /\ t.stage = i + 1 /\ t.held = s.held /\ t.fds = {}
          /\ t.client = s.client /\ t.line = s.line /\ t.pipe = s.pipe
          /\ t.typed = s.typed /\ t.delivered = s.delivered
        <3>1. i + 1 \in Nat
            BY <1>3
        <3>2. QED
            BY <1>1, <1>2, <3>1 DEF SessionType, SessionPC
    <2> HIDE DEF t
    <2>3. \A j : Out(t, j) = Out(s, j)
        BY <2>2 DEF Out
    <2>4. s.pipe[i] = Out(s, i) /\ s.pipe[i] <= Capacity
        BY <1>2, <1>3, <1>5, SMTT(30) DEF InPipeline, StageDone, Emitted
    <2>5. InPipeline(t)
        <3>1. t.stage \in 1..n /\ (n > t.stage => t.delivered = 0)
            BY <1>2, <1>3, <1>5, <2>2 DEF InPipeline
        <3>2. \A j \in 1..n - 1 : j > t.stage => t.pipe[j] = 0
            BY <1>2, <1>3, <1>5, <2>2 DEF InPipeline
        <3>3. \A j \in 1..n - 1 : j < t.stage => Out(t, j) <= Capacity
            <4>1. \A j \in 1..n - 1 : j < i + 1 => j < i \/ j = i
                BY <1>3
            <4>2. QED
                BY <1>2, <2>2, <2>3, <2>4, <4>1 DEF InPipeline
        <3>4. QED
            BY <1>2, <1>3, <2>2, <3>1, <3>2, <3>3 DEF InPipeline
    <2>6. AboutToFork(t)
        <3>1. t.stage < n => t.pipe[t.stage] = 0
            <4>1. i + 1 < n => i + 1 \in 1..n - 1 /\ i + 1 > i
                BY <1>3
            <4>2. \A j \in 1..n - 1 : j > i => s.pipe[j] = 0
                BY <1>2 DEF InPipeline
            <4>3. QED
                BY <2>2, <4>1, <4>2
        <3>2. t.delivered = 0
            BY <1>2, <1>5, <2>2 DEF InPipeline
        <3>3. t.stage > 1 /\ t.stage - 1 = i
            BY <1>3, <2>2
        <3>4. QED
            BY <2>2, <2>3, <2>4, <3>1, <3>2, <3>3 DEF AboutToFork
    <2>7. SessionInv(t)
        BY <1>2, <2>2, <2>5, <2>6 DEF SessionInv
    <2>8. QED
        BY <1>1, <2>1, <2>2, <2>7, OneSessionKeepsShellInv
<1>6. QED
    BY <1>3, <1>4, <1>5

(* Where a running stage is: in the session itself, or in a pipeline. *)
LEMMA RunningStage ==
    ASSUME NEW s \in SessionType, SessionInv(s), s.child = "running"
    PROVE  /\ s.line \in Lines /\ Len(s.line) \in Nat /\ s.stage \in 1..Len(s.line)
           /\ s.line[s.stage].cmd \in Commands /\ s.line[s.stage].size \in Nat
           /\ Running(s)
           /\ \/ s.pc = "alone" /\ OnlyStage(s)
              \/ s.pc \in {"close", "wait"} /\ InPipeline(s)
<1>1. Running(s)
    BY DEF SessionInv
<1>2. \/ s.pc = "alone" /\ OnlyStage(s)
      \/ s.pc \in {"close", "wait"} /\ InPipeline(s)
    BY <1>1 DEF SessionInv, Running
<1>3. s.line \in Lines
    BY <1>1 DEF SessionInv, Running, SessionType
<1>4. s.stage \in 1..Len(s.line)
    <2>1. CASE OnlyStage(s)
        BY <2>1 DEF OnlyStage
    <2>2. CASE InPipeline(s)
        BY <2>2 DEF InPipeline
    <2>3. QED
        BY <1>2, <2>1, <2>2
<1>5. QED
    BY <1>1, <1>2, <1>3, <1>4, LinesTyped

(* What a running stage does to the data keeps the invariant, if it keeps the account, and *)
(* leaves the pipes behind its own empty and its client without output if it is not last.  *)
LEMMA DataStepKeepsSessionInv ==
    ASSUME NEW s \in SessionType, SessionInv(s), s.child = "running", NEW t \in SessionType,
           t.pc = s.pc, t.line = s.line, t.stage = s.stage, t.child = s.child,
           t.client = s.client, t.held = s.held, t.fds = s.fds,
           Len(t.pipe) = Len(s.pipe),
           s.pc # "alone" => \A j \in 1..Len(s.line) - 1 : /\ t.pipe[j] <= Capacity
                                                           /\ j > s.stage => t.pipe[j] = 0,
           s.stage < Len(s.line) => t.delivered = s.delivered,
           s.stage = 1 \/ t.typed = s.typed,
           Accounted(t)
    PROVE  SessionInv(t)
<1>1. /\ Len(s.line) \in Nat /\ s.stage \in 1..Len(s.line) /\ Running(s) /\ s.line # <<>>
      /\ \/ s.pc = "alone" /\ OnlyStage(s)
         \/ s.pc \in {"close", "wait"} /\ InPipeline(s)
    BY RunningStage, LinesTyped
<1>2. Running(t)
    BY <1>1 DEF Running
<1>3. s.pc = "alone" => OnlyStage(t)
    BY <1>1 DEF OnlyStage
<1>4. ASSUME s.pc \in {"close", "wait"} PROVE InPipeline(t)
    <2>1. InPipeline(s)
        BY <1>1, <1>4
    <2>2. \A j \in 1..Len(s.line) - 1 : j < s.stage => Out(t, j) <= Capacity
        <3>1. CASE s.stage = 1
            BY <1>1, <3>1
        <3>2. CASE t.typed = s.typed
            BY <2>1, <3>2 DEF InPipeline, Out
        <3>3. QED
            BY <3>1, <3>2
    <2>3. QED
        BY <1>4, <2>1, <2>2 DEF InPipeline
<1>5. QED
    BY <1>1, <1>2, <1>3, <1>4 DEF SessionInv

(* Emitted output is an amount. *)
LEMMA EmittedIsAmount ==
    ASSUME NEW s \in SessionType, SessionInv(s), s.child = "running"
    PROVE  /\ Emitted(s) \in Nat
           /\ s.stage < Len(s.line) => s.stage \in 1..Len(s.pipe)
           /\ s.stage > 1 => s.stage - 1 \in 1..Len(s.pipe)
<1>1. /\ Len(s.line) \in Nat /\ s.stage \in 1..Len(s.line)
      /\ \/ s.pc = "alone" /\ OnlyStage(s)
         \/ s.pc \in {"close", "wait"} /\ InPipeline(s)
    BY RunningStage
<1>2. /\ s.stage < Len(s.line) => s.stage \in 1..Len(s.pipe)
      /\ s.stage > 1 => s.stage - 1 \in 1..Len(s.pipe)
    <2>1. CASE OnlyStage(s)
        BY <1>1, <2>1 DEF OnlyStage
    <2>2. CASE InPipeline(s)
        BY <1>1, <2>2 DEF InPipeline
    <2>3. QED
        BY <1>1, <2>1, <2>2
<1>3. s.pipe \in Seq(Nat) /\ s.delivered \in Nat
    BY DEF SessionType
<1>4. QED
    BY <1>2, <1>3, ElementOfSeq DEF Emitted

(* The pipes of a running stage hold no more than they can, and those behind it are empty. *)
LEMMA PipesOfStage ==
    ASSUME NEW s \in SessionType, SessionInv(s), s.child = "running", s.pc # "alone"
    PROVE  /\ Len(s.pipe) = Len(s.line) - 1
           /\ \A j \in 1..Len(s.line) - 1 : /\ s.pipe[j] <= Capacity
                                            /\ j > s.stage => s.pipe[j] = 0
BY RunningStage DEF InPipeline

(* Somebody types for the stage, or stops. *)
LEMMA KeyboardKeepsShellInv ==
    ASSUME ShellInv, NEW k \in Sessions, Typed(k) \/ TypingEnds(k)
    PROVE  ShellInv'
<1> DEFINE s == session[k]
           c == s.line[s.stage]
<1>1. /\ s \in SessionType /\ SessionInv(s) /\ session \in [Sessions -> SessionType]
      /\ s.child = "running" /\ s.input = "keyboard" /\ UNCHANGED serverVars
    BY DEF ShellInv, Typed, TypingEnds
<1>2. Accounted(s) /\ s.stage = 1 /\ c.cmd \in {"cat", "wc"} /\ c.cmd \in Commands
    <2>1. Accounted(s) /\ c.cmd \in Commands
        BY <1>1, RunningStage DEF Running
    <2>2. QED
        BY <1>1, <2>1 DEF Accounted, Commands
<1>3. s.owed \in Nat /\ s.typed \in Nat /\ Emitted(s) \in Nat
    BY <1>1, EmittedIsAmount DEF SessionType
<1>4. s.line \in Seq([cmd : Commands, size : Nat])
    BY <1>1, RunningStage, LinesTyped
<1>5. CASE Typed(k)
    <2> DEFINE owed == IF c.cmd = "cat" THEN s.owed + 1 ELSE s.owed
               t == [s EXCEPT !.typed = s.typed + 1, !.owed = owed]
    <2>1. session' = [session EXCEPT ![k] = t]
        BY <1>1, <1>5 DEF Typed, Runs, SessionType
    <2>2. /\ t \in SessionType
          /\ t.pc = s.pc /\ t.line = s.line /\ t.stage = s.stage /\ t.child = s.child
          /\ t.client = s.client /\ t.held = s.held /\ t.fds = s.fds /\ t.input = s.input
          /\ t.pipe = s.pipe /\ t.delivered = s.delivered
          /\ t.typed = s.typed + 1 /\ t.typed \in Nat
          /\ t.owed = owed
        <3>1. owed \in Nat /\ s.typed + 1 \in Nat
            BY <1>3
        <3>2. QED
            <4> HIDE DEF owed
            <4>1. QED
                BY <1>1, <3>1 DEF SessionType
    <2> HIDE DEF t
    <2>3. Emitted(t) = Emitted(s)
        BY <2>2 DEF Emitted
    <2>4. Out(s, 0) = s.typed /\ Out(t, 0) = t.typed
        <3>1. Printed(s.line, s.typed)[0] = s.typed
            BY <1>3, <1>4, PrintedSteps
        <3>2. t.line \in Seq([cmd : Commands, size : Nat])
            BY <1>4, <2>2
        <3>3. Printed(t.line, t.typed)[0] = t.typed
            BY <2>2, <3>2, PrintedSteps
        <3>4. QED
            BY <3>1, <3>3 DEF Out
    <2>5. Accounted(t)
        BY <1>1, <1>2, <1>3, <2>2, <2>3, <2>4 DEF Accounted
    <2>6. SessionInv(t)
        BY <1>1, <1>2, <2>2, <2>5, DataStepKeepsSessionInv, PipesOfStage
    <2>7. QED
        BY <1>1, <2>1, <2>2, <2>6, OneSessionKeepsShellInv
<1>6. CASE TypingEnds(k)
    <2> DEFINE t == [s EXCEPT !.input = "ended",
                              !.owed = IF c.cmd = "wc" THEN 1 ELSE s.owed]
    <2>1. session' = [session EXCEPT ![k] = t]
        BY <1>1, <1>6 DEF TypingEnds, Runs, SessionType
    <2>2. /\ t \in SessionType
          /\ t.pc = s.pc /\ t.line = s.line /\ t.stage = s.stage /\ t.child = s.child
          /\ t.client = s.client /\ t.held = s.held /\ t.fds = s.fds /\ t.input = "ended"
          /\ t.pipe = s.pipe /\ t.delivered = s.delivered /\ t.typed = s.typed
          /\ t.owed = IF c.cmd = "wc" THEN 1 ELSE s.owed
        BY <1>1, <1>3 DEF SessionType
    <2> HIDE DEF t
    <2>3. Emitted(t) = Emitted(s) /\ Out(t, 0) = Out(s, 0)
        BY <2>2 DEF Emitted, Out
    <2>4. Accounted(t)
        BY <1>1, <1>2, <1>3, <2>2, <2>3 DEF Accounted
    <2>5. SessionInv(t)
        BY <1>1, <1>2, <2>2, <2>4, DataStepKeepsSessionInv, PipesOfStage
    <2>6. QED
        BY <1>1, <2>1, <2>2, <2>5, OneSessionKeepsShellInv
<1>7. QED
    BY <1>5, <1>6

(* A stage reads one unit from the pipe before it. *)
LEMMA StageReadsKeepsShellInv ==
    ASSUME ShellInv, NEW k \in Sessions, StageReads(k)
    PROVE  ShellInv'
<1> DEFINE s == session[k]
           i == s.stage
           c == s.line[i]
           owed == IF c.cmd = "cat" THEN s.owed + 1 ELSE s.owed
           pipe == [s.pipe EXCEPT ![i - 1] = s.pipe[i - 1] - 1]
           t == [s EXCEPT !.pipe = pipe, !.owed = owed]
<1>1. /\ s \in SessionType /\ SessionInv(s) /\ session \in [Sessions -> SessionType]
      /\ s.child = "running" /\ s.input = "pipe" /\ s.pipe[i - 1] > 0 /\ UNCHANGED serverVars
    BY DEF ShellInv, StageReads
<1>2. /\ Accounted(s) /\ c.cmd \in Commands /\ i \in 1..Len(s.line) /\ Len(s.line) \in Nat
      /\ s.pc = "alone" => OnlyStage(s)
    BY <1>1, RunningStage DEF Running, SessionInv
<1>3. i > 1 /\ s.pc # "alone" /\ c.cmd \in {"cat", "wc"}
    BY <1>1, <1>2 DEF Accounted, OnlyStage, Commands
<1>4. /\ s.owed \in Nat /\ Emitted(s) \in Nat /\ s.pipe \in Seq(Nat)
      /\ i - 1 \in 1..Len(s.pipe) /\ s.pipe[i - 1] \in Nat
    BY <1>1, <1>3, EmittedIsAmount, ElementOfSeq DEF SessionType
<1>5. session' = [session EXCEPT ![k] = t]
    BY <1>1 DEF StageReads, Runs, SessionType
<1>6. pipe \in Seq(Nat) /\ Len(pipe) = Len(s.pipe) /\ owed \in Nat
    BY <1>1, <1>4, SMTT(30)
<1>7. /\ pipe[i - 1] = s.pipe[i - 1] - 1
      /\ \A j \in 1..Len(s.pipe) : j # i - 1 => pipe[j] = s.pipe[j]
    BY <1>4
<1>8. owed = IF c.cmd = "cat" THEN s.owed + 1 ELSE s.owed
    OBVIOUS
<1> HIDE DEF pipe, owed
<1>9. /\ t \in SessionType
      /\ t.pc = s.pc /\ t.line = s.line /\ t.stage = i /\ t.child = s.child
      /\ t.client = s.client /\ t.held = s.held /\ t.fds = s.fds /\ t.input = s.input
      /\ t.pipe = pipe /\ t.delivered = s.delivered /\ t.typed = s.typed /\ t.owed = owed
    BY <1>1, <1>6 DEF SessionType
<1> HIDE DEF t
<1>10. Emitted(t) = Emitted(s)
    <2>1. i < Len(s.line) => i \in 1..Len(s.pipe) /\ i # i - 1
        BY <1>1, <1>2, EmittedIsAmount
    <2>2. QED
        BY <1>7, <1>9, <2>1 DEF Emitted
<1>11. Accounted(t)
    <2>1. \A j : Out(t, j) = Out(s, j)
        BY <1>9 DEF Out
    <2>2. /\ t.input = "pipe" /\ t.stage = i /\ t.line[t.stage] = c
          /\ t.pipe[t.stage - 1] = s.pipe[i - 1] - 1 /\ t.owed = owed
        BY <1>1, <1>7, <1>9
    <2>3. CASE c.cmd = "cat"
        <3>1. s.owed + Emitted(s) + s.pipe[i - 1] = Out(s, i - 1)
            BY <1>1, <1>2, <2>3 DEF Accounted
        <3>2. t.owed + Emitted(t) + t.pipe[t.stage - 1] = Out(t, t.stage - 1)
            <4>1. t.owed = s.owed + 1
                BY <1>8, <2>2, <2>3
            <4>2. Out(t, t.stage - 1) = Out(s, i - 1)
                BY <2>1, <2>2
            <4>3. (s.owed + 1) + Emitted(s) + (s.pipe[i - 1] - 1) = s.owed + Emitted(s) + s.pipe[i - 1]
                <5>1. \A x, y, z \in Nat : (x + 1) + y + (z - 1) = x + y + z
                    OBVIOUS
                <5>2. QED
                    BY <1>4, <5>1
            <4>4. QED
                BY <1>10, <2>2, <3>1, <4>1, <4>2, <4>3
        <3>3. QED
            BY <1>3, <2>2, <2>3, <3>2 DEF Accounted
    <2>4. CASE c.cmd = "wc"
        BY <1>1, <1>2, <1>3, <1>4, <1>8, <1>10, <2>2, <2>4 DEF Accounted
    <2>5. QED
        BY <1>3, <2>3, <2>4
<1>12. SessionInv(t)
    <2>1. \A j \in 1..Len(s.line) - 1 : t.pipe[j] <= Capacity /\ (j > i => t.pipe[j] = 0)
        <3>1. Len(s.pipe) = Len(s.line) - 1 /\ Capacity \in Nat
            BY <1>1, <1>3, PipesOfStage, ShellAssumption
        <3>2. \A j \in 1..Len(s.line) - 1 : s.pipe[j] <= Capacity /\ (j > i => s.pipe[j] = 0)
            BY <1>1, <1>3, PipesOfStage
        <3>3. ASSUME NEW j \in 1..Len(s.line) - 1
              PROVE  t.pipe[j] <= Capacity /\ (j > i => t.pipe[j] = 0)
            <4>1. CASE j = i - 1
                <5>1. s.pipe[j] <= Capacity /\ s.pipe[j] \in Nat /\ t.pipe[j] = s.pipe[j] - 1
                    BY <1>4, <1>7, <1>9, <3>2, <4>1
                <5>2. ~(j > i)
                    BY <1>2, <4>1
                <5>3. QED
                    BY <3>1, <5>1, <5>2
            <4>2. CASE j # i - 1
                BY <1>7, <1>9, <3>1, <3>2, <4>2
            <4>3. QED
                BY <4>1, <4>2
        <3>4. QED
            BY <3>3
    <2>2. QED
        BY <1>1, <1>6, <1>9, <1>11, <2>1, DataStepKeepsSessionInv
<1>13. QED
    BY <1>1, <1>5, <1>9, <1>12, OneSessionKeepsShellInv

(* A stage sees the end of the pipe before it, which is empty. *)
LEMMA StageSeesEndKeepsShellInv ==
    ASSUME ShellInv, NEW k \in Sessions, StageSeesEnd(k)
    PROVE  ShellInv'
<1> DEFINE s == session[k]
           i == s.stage
           c == s.line[i]
           owed == IF c.cmd = "wc" THEN 1 ELSE s.owed
           t == [s EXCEPT !.input = "ended", !.owed = owed]
<1>1. /\ s \in SessionType /\ SessionInv(s) /\ session \in [Sessions -> SessionType]
      /\ s.child = "running" /\ s.input = "pipe" /\ s.pipe[i - 1] = 0 /\ UNCHANGED serverVars
    BY DEF ShellInv, StageSeesEnd
<1>2. Accounted(s) /\ c.cmd \in {"cat", "wc"}
    <2>1. Accounted(s) /\ c.cmd \in Commands
        BY <1>1, RunningStage DEF Running
    <2>2. QED
        BY <1>1, <2>1 DEF Accounted, Commands
<1>3. s.owed \in Nat /\ Emitted(s) \in Nat
    BY <1>1, EmittedIsAmount DEF SessionType
<1>4. session' = [session EXCEPT ![k] = t]
    BY <1>1 DEF StageSeesEnd, Runs, SessionType
<1>5. /\ t \in SessionType
      /\ t.pc = s.pc /\ t.line = s.line /\ t.stage = i /\ t.child = s.child
      /\ t.client = s.client /\ t.held = s.held /\ t.fds = s.fds /\ t.input = "ended"
      /\ t.pipe = s.pipe /\ t.delivered = s.delivered /\ t.typed = s.typed
      /\ t.owed = IF c.cmd = "wc" THEN 1 ELSE s.owed
    BY <1>1, <1>3 DEF SessionType
<1> HIDE DEF t
<1>6. Emitted(t) = Emitted(s) /\ \A j : Out(t, j) = Out(s, j)
    BY <1>5 DEF Emitted, Out
<1>7. Accounted(t)
    BY <1>1, <1>2, <1>3, <1>5, <1>6 DEF Accounted
<1>8. SessionInv(t)
    BY <1>1, <1>5, <1>7, DataStepKeepsSessionInv, PipesOfStage
<1>9. QED
    BY <1>1, <1>4, <1>5, <1>8, OneSessionKeepsShellInv

(* A stage writes one unit: the last one to the client, another to the pipe behind it. *)
LEMMA StageWritesKeepsShellInv ==
    ASSUME ShellInv, NEW k \in Sessions, StageWrites(k)
    PROVE  ShellInv'
<1> DEFINE s == session[k]
           i == s.stage
           n == Len(s.line)
           c == s.line[i]
<1>1. /\ s \in SessionType /\ SessionInv(s) /\ session \in [Sessions -> SessionType]
      /\ s.child = "running" /\ s.owed > 0 /\ UNCHANGED serverVars
    BY DEF ShellInv, StageWrites
<1>2. /\ Accounted(s) /\ c.cmd \in Commands /\ i \in 1..n /\ n \in Nat
      /\ s.pc = "alone" => OnlyStage(s)
    BY <1>1, RunningStage DEF Running, SessionInv
<1>3. /\ s.owed \in Nat /\ s.delivered \in Nat /\ Emitted(s) \in Nat /\ s.pipe \in Seq(Nat)
      /\ i < n => i \in 1..Len(s.pipe) /\ s.pipe[i] \in Nat
      /\ i > 1 => i - 1 \in 1..Len(s.pipe) /\ s.pipe[i - 1] \in Nat
    BY <1>1, EmittedIsAmount, ElementOfSeq DEF SessionType
<1>4. ASSUME NEW t \in SessionType,
             t.line = s.line, t.stage = i, t.input = s.input, t.typed = s.typed,
             i > 1 => t.pipe[i - 1] = s.pipe[i - 1],
             t.owed = s.owed - 1, Emitted(t) = Emitted(s) + 1
      PROVE  Accounted(t)
    <2>1. \A j : Out(t, j) = Out(s, j)
        BY <1>4 DEF Out
    <2>2. t.owed + Emitted(t) = s.owed + Emitted(s)
        <3>1. \A x, y \in Nat : (x - 1) + (y + 1) = x + y
            OBVIOUS
        <3>2. QED
            BY <1>3, <1>4, <3>1, ZenonT(30)
    <2>3. /\ s.input = "keyboard" => i = 1
          /\ s.input = "pipe" => i > 1
          /\ c.cmd = "print" => s.input = "ended" /\ s.owed + Emitted(s) = c.size
          /\ c.cmd = "cat" => s.owed + Emitted(s) + (IF s.input = "pipe" THEN s.pipe[i - 1] ELSE 0)
                                = Out(s, i - 1)
          /\ c.cmd = "wc" => s.owed + Emitted(s) = (IF s.input = "ended" THEN 1 ELSE 0)
        BY <1>2 DEF Accounted
    <2>4. t.input = "pipe" => t.pipe[t.stage - 1] = s.pipe[i - 1]
        BY <1>4, <2>3
    <2>5. t.line[t.stage] = c /\ t.stage = i /\ t.input = s.input /\ Out(t, t.stage - 1) = Out(s, i - 1)
        BY <1>4, <2>1
    <2>6. QED
        BY <2>2, <2>3, <2>4, <2>5 DEF Accounted
<1>5. CASE i = n
    <2> DEFINE t == [s EXCEPT !.owed = s.owed - 1, !.delivered = s.delivered + 1]
    <2>1. session' = [session EXCEPT ![k] = t]
        <3>1. ~(i < n)
            BY <1>2, <1>5
        <3>2. QED
            BY <1>1, <1>5, <3>1 DEF StageWrites, Last, SessionType
    <2>2. /\ t \in SessionType
          /\ t.pc = s.pc /\ t.line = s.line /\ t.stage = i /\ t.child = s.child
          /\ t.client = s.client /\ t.held = s.held /\ t.fds = s.fds /\ t.input = s.input
          /\ t.pipe = s.pipe /\ t.delivered = s.delivered + 1 /\ t.typed = s.typed
          /\ t.owed = s.owed - 1
        <3>1. s.owed - 1 \in Nat /\ s.delivered + 1 \in Nat
            BY <1>1, <1>3
        <3>2. QED
            BY <1>1, <3>1 DEF SessionType
    <2> HIDE DEF t
    <2>3. Emitted(t) = Emitted(s) + 1
        <3>1. ~(i < n)
            BY <1>2, <1>5
        <3>2. QED
            BY <2>2, <3>1 DEF Emitted
    <2>4. Accounted(t)
        BY <1>4, <2>2, <2>3
    <2>5. SessionInv(t)
        <3>1. ~(i < n)
            BY <1>2, <1>5
        <3>2. QED
            BY <1>1, <2>2, <2>4, <3>1, DataStepKeepsSessionInv, PipesOfStage
    <2>6. QED
        BY <1>1, <2>1, <2>2, <2>5, OneSessionKeepsShellInv
<1>6. CASE i < n
    <2> DEFINE pipe == [s.pipe EXCEPT ![i] = s.pipe[i] + 1]
               t == [s EXCEPT !.owed = s.owed - 1, !.pipe = pipe]
    <2>1. session' = [session EXCEPT ![k] = t] /\ s.pipe[i] < Capacity
        <3>1. i # n
            BY <1>2, <1>6
        <3>2. QED
            BY <1>1, <3>1 DEF StageWrites, Last, Room, SessionType
    <2>2. /\ pipe \in Seq(Nat) /\ Len(pipe) = Len(s.pipe)
          /\ pipe[i] = s.pipe[i] + 1
          /\ \A j \in 1..Len(s.pipe) : j # i => pipe[j] = s.pipe[j]
        <3> DEFINE q == s.pipe
                   more == q[i] + 1
        <3>1. i \in 1..Len(q) /\ q \in Seq(Nat) /\ q[i] \in Nat
            BY <1>3, <1>6
        <3>2. more \in Nat
            <4>1. \A x \in Nat : x + 1 \in Nat
                OBVIOUS
            <4>2. QED
                BY <3>1, <4>1
        <3> HIDE DEF q, more
        <3>3. /\ [q EXCEPT ![i] = more] \in Seq(Nat) /\ Len([q EXCEPT ![i] = more]) = Len(q)
              /\ \A j \in 1..Len(q) : [q EXCEPT ![i] = more][j] = IF j = i THEN more ELSE q[j]
            BY <3>1, <3>2, ExceptSeq
        <3>4. pipe = [q EXCEPT ![i] = more]
            BY DEF q, more
        <3> HIDE DEF pipe
        <3>5. /\ pipe \in Seq(Nat) /\ Len(pipe) = Len(q) /\ pipe[i] = more
              /\ \A j \in 1..Len(q) : j # i => pipe[j] = q[j]
            BY <3>1, <3>3, <3>4
        <3>6. QED
            BY <3>5 DEF q, more
    <2> HIDE DEF pipe
    <2>4. /\ t \in SessionType
          /\ t.pc = s.pc /\ t.line = s.line /\ t.stage = i /\ t.child = s.child
          /\ t.client = s.client /\ t.held = s.held /\ t.fds = s.fds /\ t.input = s.input
          /\ t.pipe = pipe /\ t.delivered = s.delivered /\ t.typed = s.typed
          /\ t.owed = s.owed - 1
        <3>1. s.owed - 1 \in Nat
            BY <1>1, <1>3
        <3>2. QED
            BY <1>1, <2>2, <3>1 DEF SessionType
    <2> HIDE DEF t
    <2>5. Emitted(t) = Emitted(s) + 1
        BY <1>6, <2>2, <2>4 DEF Emitted
    <2>6. Accounted(t)
        <3>1. i > 1 => t.pipe[i - 1] = s.pipe[i - 1]
            <4>1. i - 1 # i
                BY <1>2
            <4>2. QED
                BY <1>3, <2>2, <2>4, <4>1
        <3>2. QED
            BY <1>4, <2>4, <2>5, <3>1
    <2>7. SessionInv(t)
        <3>1. s.pc # "alone"
            <4>1. n = 1 => ~(i < n)
                BY <1>2
            <4>2. QED
                BY <1>2, <1>6, <4>1 DEF OnlyStage
        <3>2. /\ Len(s.pipe) = n - 1 /\ Capacity \in Nat
              /\ \A j \in 1..n - 1 : s.pipe[j] <= Capacity /\ (j > i => s.pipe[j] = 0)
            BY <1>1, <3>1, PipesOfStage, ShellAssumption
        <3>3. \A j \in 1..n - 1 : t.pipe[j] <= Capacity /\ (j > i => t.pipe[j] = 0)
            <4>1. s.pipe[i] + 1 <= Capacity /\ ~(i > i)
                <5>1. \A x, y \in Nat : x < y => x + 1 <= y /\ ~(x > x)
                    OBVIOUS
                <5>2. i \in Nat /\ s.pipe[i] \in Nat /\ Capacity \in Nat
                    BY <1>2, <1>3, <1>6, ShellAssumption
                <5>3. ~(i > i)
                    BY <5>2
                <5>4. QED
                    BY <2>1, <5>1, <5>2, <5>3
            <4>2. ASSUME NEW j \in 1..n - 1 PROVE t.pipe[j] <= Capacity /\ (j > i => t.pipe[j] = 0)
                <5>1. CASE j = i
                    BY <2>2, <2>4, <4>1, <5>1
                <5>2. CASE j # i
                    BY <2>2, <2>4, <3>2, <5>2
                <5>3. QED
                    BY <5>1, <5>2
            <4>3. QED
                BY <4>2
        <3>4. QED
            BY <1>1, <2>2, <2>4, <2>6, <3>3, DataStepKeepsSessionInv
    <2>8. QED
        BY <1>1, <2>1, <2>4, <2>7, OneSessionKeepsShellInv
<1>7. QED
    BY <1>2, <1>5, <1>6

(* Only a stage that writes to a client that has left breaks: there is always a reader of *)
(* the pipe behind another one.                                                           *)
LEMMA StageBreaksKeepsShellInv ==
    ASSUME ShellInv, NEW k \in Sessions, StageBreaks(k)
    PROVE  ShellInv'
<1> DEFINE s == session[k]
           i == s.stage
           n == Len(s.line)
<1>1. /\ s \in SessionType /\ SessionInv(s) /\ session \in [Sessions -> SessionType]
      /\ s.child = "running" /\ UNCHANGED serverVars
    BY DEF ShellInv, StageBreaks
<1>2. /\ Running(s) /\ i \in 1..n /\ n \in Nat
      /\ \/ s.pc = "alone" /\ OnlyStage(s)
         \/ s.pc \in {"close", "wait"} /\ InPipeline(s)
    BY <1>1, RunningStage
<1>3. i = n /\ s.client = "gone"
    <2>1. SUFFICES ASSUME i # n PROVE FALSE
        BY <1>1 DEF StageBreaks, Last, Here, SessionType
    <2>2. i < n /\ s.fds = FdsOf(i, n) /\ InPipeline(s)
        <3>1. i < n
            BY <1>2, <2>1
        <3>2. ~OnlyStage(s)
            BY <2>1 DEF OnlyStage
        <3>3. QED
            BY <1>2, <3>1, <3>2 DEF Running
    <2>3. s.held \in {HeldBefore(i, n), HeldBefore(i + 1, n)}
        BY <2>2 DEF InPipeline
    <2>4. <<i, "r">> \in s.held \cup s.fds
        BY <1>2, <2>2, <2>3, EndsOfStage
    <2>5. QED
        BY <2>1, <2>4 DEF StageBreaks, Last, Open
<1>4. CASE Alone(k)
    <2>1. session' = [session EXCEPT ![k] = Session("ended")]
        BY <1>4 DEF StageBreaks
    <2>2. Session("ended") \in SessionType /\ SessionInv(Session("ended")) /\ Session("ended").pc = "ended"
        BY NewSession DEF Session
    <2>3. QED
        BY <1>1, <2>1, <2>2, OneSessionKeepsShellInv
<1>5. CASE ~Alone(k)
    <2> DEFINE t == [s EXCEPT !.child = "exited", !.fds = {}, !.owed = 0]
    <2>1. session' = [session EXCEPT ![k] = t] /\ s.pc \in {"close", "wait"} /\ InPipeline(s)
        BY <1>2, <1>5 DEF StageBreaks, Alone
    <2>2. /\ t \in SessionType
          /\ t.pc = s.pc /\ t.line = s.line /\ t.stage = i /\ t.child = "exited"
          /\ t.client = s.client /\ t.held = s.held /\ t.fds = {}
          /\ t.pipe = s.pipe /\ t.delivered = s.delivered /\ t.typed = s.typed
        BY <1>1 DEF SessionType
    <2> HIDE DEF t
    <2>3. \A j : Out(t, j) = Out(s, j)
        BY <2>2 DEF Out
    <2>4. InPipeline(t)
        BY <2>1, <2>2, <2>3 DEF InPipeline
    <2>5. StageDone(t)
        BY <1>3, <2>1, <2>2 DEF StageDone
    <2>6. SessionInv(t)
        BY <1>1, <2>1, <2>2, <2>4, <2>5 DEF SessionInv
    <2>7. QED
        BY <1>1, <2>1, <2>2, <2>6, OneSessionKeepsShellInv
<1>6. QED
    BY <1>4, <1>5

(* A stage that has read all and written all has printed what its command prints. *)
LEMMA StageExitsKeepsShellInv ==
    ASSUME ShellInv, NEW k \in Sessions, StageExits(k)
    PROVE  ShellInv'
<1> DEFINE s == session[k]
           i == s.stage
           n == Len(s.line)
           c == s.line[i]
<1>1. /\ s \in SessionType /\ SessionInv(s) /\ session \in [Sessions -> SessionType]
      /\ s.child = "running" /\ s.input = "ended" /\ s.owed = 0 /\ UNCHANGED serverVars
    BY DEF ShellInv, StageExits
<1>2. /\ Accounted(s) /\ c.cmd \in Commands /\ i \in 1..n /\ n \in Nat /\ s.line \in Lines
      /\ \/ s.pc = "alone" /\ OnlyStage(s)
         \/ s.pc \in {"close", "wait"} /\ InPipeline(s)
    BY <1>1, RunningStage DEF Running
<1>3. Emitted(s) = Out(s, i)
    <2>1. s.line \in Seq([cmd : Commands, size : Nat]) /\ s.typed \in Nat
        BY <1>1, <1>2, LinesTyped DEF SessionType
    <2>2. /\ c.cmd = "print" => Out(s, i) = c.size
          /\ c.cmd = "cat" => Out(s, i) = Out(s, i - 1)
          /\ c.cmd = "wc" => Out(s, i) = 1
        BY <1>2, <2>1, PrintedSteps DEF Out
    <2>3. Emitted(s) \in Nat
        BY <1>1, EmittedIsAmount
    <2>4. /\ c.cmd = "print" => 0 + Emitted(s) = c.size
          /\ c.cmd = "cat" => 0 + Emitted(s) + 0 = Out(s, i - 1)
          /\ c.cmd = "wc" => 0 + Emitted(s) = 1
        BY <1>1, <1>2 DEF Accounted
    <2>5. c.cmd \in {"print", "cat", "wc"}
        BY <1>2 DEF Commands
    <2>6. QED
        BY <2>2, <2>3, <2>4, <2>5
<1>4. CASE Alone(k)
    <2> DEFINE t == [s EXCEPT !.pc = "prompt", !.child = "none"]
    <2>1. session' = [session EXCEPT ![k] = t] /\ OnlyStage(s)
        BY <1>2, <1>4 DEF StageExits, Alone
    <2>2. s.fds = {}
        BY <1>1, <2>1, FdsOfOnly DEF SessionInv, Running, OnlyStage
    <2>3. /\ t \in SessionType
          /\ t.pc = "prompt" /\ t.line = s.line /\ t.child = "none"
          /\ t.client = s.client /\ t.held = s.held /\ t.fds = s.fds
          /\ t.delivered = s.delivered /\ t.typed = s.typed
        BY <1>1 DEF SessionType, SessionPC
    <2> HIDE DEF t
    <2>4. t.delivered = Out(t, Len(t.line))
        <3>1. n = 1 /\ i = 1 /\ ~(i < n)
            BY <1>2, <2>1 DEF OnlyStage
        <3>2. s.delivered = Out(s, n)
            BY <1>3, <3>1 DEF Emitted
        <3>3. QED
            BY <2>3, <3>2 DEF Out
    <2>5. Fits(t.line, t.typed)
        <3>1. 1..Len(t.line) - 1 = {}
            <4>1. Len(t.line) = 1 /\ 1..1 - 1 = {}
                BY <2>1, <2>3 DEF OnlyStage
            <4>2. QED
                BY <4>1
        <3>2. QED
            BY <3>1 DEF Fits
    <2>6. SessionInv(t)
        BY <2>1, <2>2, <2>3, <2>4, <2>5 DEF SessionInv, AtPrompt, OnlyStage
    <2>7. QED
        BY <1>1, <1>4, <2>1, <2>3, <2>6, OneSessionKeepsShellInv DEF Alone
<1>5. CASE ~Alone(k)
    <2> DEFINE t == [s EXCEPT !.child = "exited", !.fds = {}]
    <2>1. session' = [session EXCEPT ![k] = t] /\ s.pc \in {"close", "wait"} /\ InPipeline(s)
        BY <1>2, <1>5 DEF StageExits, Alone
    <2>2. /\ t \in SessionType
          /\ t.pc = s.pc /\ t.line = s.line /\ t.stage = i /\ t.child = "exited"
          /\ t.client = s.client /\ t.held = s.held /\ t.fds = {}
          /\ t.pipe = s.pipe /\ t.delivered = s.delivered /\ t.typed = s.typed
        BY <1>1 DEF SessionType
    <2> HIDE DEF t
    <2>3. Emitted(t) = Emitted(s) /\ \A j : Out(t, j) = Out(s, j)
        BY <2>2 DEF Emitted, Out
    <2>4. InPipeline(t)
        BY <2>1, <2>2, <2>3 DEF InPipeline
    <2>5. StageDone(t)
        BY <1>3, <2>1, <2>2, <2>3 DEF StageDone
    <2>6. SessionInv(t)
        BY <1>1, <2>1, <2>2, <2>4, <2>5 DEF SessionInv
    <2>7. QED
        BY <1>1, <2>1, <2>2, <2>6, OneSessionKeepsShellInv
<1>6. QED
    BY <1>4, <1>5

----------------------------------------------------------------------------
(* Theorems *)

(* Every step keeps the invariant. *)
LEMMA NextKeepsShellInv == ShellInv /\ [Next]_vars => ShellInv'
<1> SUFFICES ASSUME ShellInv, [Next]_vars PROVE ShellInv'
    OBVIOUS
<1>1. CASE Accept \/ ServerStep
    BY <1>1, ServerKeepsShellInv
<1>2. CASE \E k \in Sessions : \E l \in Lines : Ask(k, l) \/ AskAlone(k, l)
    BY <1>2, AskKeepsShellInv, AskAloneKeepsShellInv
<1>3. CASE \E k \in Sessions : AskExit(k) \/ Leave(k)
    BY <1>3, EndKeepsShellInv, LeaveKeepsShellInv
<1>4. CASE \E k \in Sessions : Typed(k) \/ TypingEnds(k)
    BY <1>4, KeyboardKeepsShellInv
<1>5. CASE \E k \in Sessions : SessionStep(k)
    BY <1>5, EndKeepsShellInv, ForkStageKeepsShellInv, CloseEndsKeepsShellInv, WaitStageKeepsShellInv
       DEF SessionStep
<1>6. CASE \E k \in Sessions : StageStep(k)
    BY <1>6, StageReadsKeepsShellInv, StageSeesEndKeepsShellInv, StageWritesKeepsShellInv,
       StageBreaksKeepsShellInv, StageExitsKeepsShellInv
       DEF StageStep
<1>7. CASE UNCHANGED vars
    BY <1>7 DEF vars, ShellInv, ServerInv
<1>8. QED
    BY <1>1, <1>2, <1>3, <1>4, <1>5, <1>6, <1>7 DEF Next

(* In every reachable state each session holds exactly the pipe ends that its later stages *)
(* need, and accounts for the data of the stage that runs (main of shell.c).               *)
THEOREM ShellInvariant == Spec => []ShellInv
BY InitShellInv, NextKeepsShellInv, PTL DEF Spec

(* A session that has run a line is at the prompt. *)
LEMMA FinishedAtPrompt ==
    ASSUME ShellInv, NEW k \in Sessions, Finished(k)
    PROVE  AtPrompt(session[k]) /\ session[k].line # <<>> /\ session[k].typed \in Nat
BY DEF ShellInv, SessionInv, SessionType, Finished

(* A client that stays gets from its pipeline what the commands make of each other's       *)
(* output, for lines of any length and pipes of any capacity: no stage misses an end of    *)
(* file or loses its reader (the loop over the stages in main).                            *)
THEOREM ShellDelivers == Spec => []PipelineDelivers
<1>1. ShellInv => PipelineDelivers
    <2> SUFFICES ASSUME ShellInv, NEW k \in Sessions, Finished(k), Here(k)
                 PROVE  session[k].delivered = Printed(session[k].line, session[k].typed)[Last(k)]
        BY DEF PipelineDelivers
    <2>1. QED
        BY FinishedAtPrompt DEF AtPrompt, Here, Out, Last
<1>2. QED
    BY <1>1, ShellInvariant, PTL

(* A pipeline whose intermediate output is more than a pipe holds never comes back to the  *)
(* prompt: main waits for each stage before it forks the next one.                         *)
THEOREM ShellEndsOnlyIfItFits == Spec => []EndsOnlyIfItFits
<1>1. ShellInv => EndsOnlyIfItFits
    BY FinishedAtPrompt DEF EndsOnlyIfItFits, AtPrompt
<1>2. QED
    BY <1>1, ShellInvariant, PTL

(* When the session is back at the prompt it has closed every end of every pipe that it    *)
(* created for the line.                                                                   *)
THEOREM ShellGivesEndsBack == Spec => []EndsGivenBack
<1>1. ShellInv => EndsGivenBack
    BY DEF EndsGivenBack, ShellInv, SessionInv, AtPrompt
<1>2. QED
    BY <1>1, ShellInvariant, PTL

(* main returns after a q only when every session it ever forked has ended. *)
THEOREM ShellExitsLast == Spec => []ServerExitsLast
<1>1. ShellInv => ServerExitsLast
    <2> SUFFICES ASSUME ShellInv, server = "exited", NEW k \in Sessions
                 PROVE  session[k].pc \in {"none", "ended"}
        BY DEF ServerExitsLast
    <2>1. reaped = MAX_CONNECTION /\ (k < reaped => session[k].pc \in {"none", "ended"})
        BY DEF ShellInv, ServerInv
    <2>2. k < MAX_CONNECTION
        BY ShellAssumption DEF Sessions
    <2>3. QED
        BY <2>1, <2>2
<1>2. QED
    BY <1>1, ShellInvariant, PTL
==============================================================================
