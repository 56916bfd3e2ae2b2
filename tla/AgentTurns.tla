----------------------------- MODULE AgentTurns -----------------------------
(***************************************************************************)
(* The turns of an agent's threads (tulip.agent.agent and runtime_loop):   *)
(* run(), resume() and continue_turn(), pauses held in memory and in the   *)
(* thread's checkpoint, cancellation, and a process that may die between   *)
(* any two steps.                                                          *)
(*                                                                         *)
(* A conversation is the model's last reply that had tool calls, what was  *)
(* folded into the messages for each of its calls, and whether the model   *)
(* has answered since.  A thread has one segment at a time: its caller     *)
(* drives or closes a segment's generator before it starts another.  An    *)
(* operator named Mut... is a wrong variant of the one after it.           *)
(***************************************************************************)
EXTENDS Naturals, Sequences, FiniteSets

CONSTANTS
    Threads,
    None,           \* no conversation, no call
    Batches,        \* the replies of the model: sequences of kinds of calls
    Longest,        \* bound: the calls of a reply
    MaxReplies,     \* bound, per thread: replies with calls
    MaxSegments     \* bound: segments that are started

Kinds == {"plain", "gated", "ask"}

Answers == {"none", "result", "text", "cancelled", "unknown"}
Conversation == [reply: Nat, answers: Seq(Answers), over: BOOLEAN]
Fresh == [reply |-> 0, answers |-> << >>, over |-> FALSE]

ASSUME TurnsAssumption ==
    /\ Batches \subseteq Seq(Kinds) \ {<< >>}
    /\ Longest \in Nat /\ \A b \in Batches : Len(b) <= Longest
    /\ MaxReplies \in [Threads -> Nat] /\ MaxSegments \in Nat
    /\ None \notin Conversation

VARIABLES
    checkpoint, \* per thread: the latest checkpoint
    parked,     \* per thread: _interrupts, the paused conversation in memory
    segment,    \* per thread: the run in progress
    signal,     \* _cancel_signal
    approved,   \* the held calls that were approved and not performed since
    denied,     \* the held calls that were denied
    filed,      \* the gated calls the approval store was asked about
    started,    \* segments so far
    replied,    \* history variable, per thread: the model's replies with calls
    asked,      \* history variable, per thread: the call of the pause that an
                \* InterruptEvent announced and that is not answered, or None
    told,       \* history variable: the threads whose run in progress was cancelled
    ran,        \* history variable, per call: how often it took effect
    settled,    \* history variable: the calls a checkpoint had an answer to
    mislaid     \* history variable: the threads whose run went on although it was paused

turnVars == <<checkpoint, parked, segment, signal, approved, denied, filed, started,
              replied, asked, told, ran, settled, mislaid>>

Stages == {"none", "folding", "loop", "model", "tools", "pausing", "paused", "stopped", "ending"}
Segment == [at: Stages, batch: BOOLEAN, state: Conversation, results: Seq(Answers),
            perform: BOOLEAN, cancel: BOOLEAN, pause: Nat]
NoSegment == [at |-> "none", batch |-> FALSE, state |-> Fresh, results |-> << >>,
              perform |-> FALSE, cancel |-> FALSE, pause |-> 0]

\* The calls a reply of thread t can have; a model never gives an id twice.
CallIds == UNION {{<<t, r, i>> : r \in 1 .. MaxReplies[t], i \in 1 .. Longest} : t \in Threads}
KindOf(c) == replied[c[1]][c[2]][c[3]]

TurnsTypeOK ==
    /\ checkpoint \in [Threads -> Conversation \cup {None}]
    /\ parked \in [Threads -> Conversation \cup {None}]
    /\ segment \in [Threads -> Segment]
    /\ signal \in BOOLEAN
    /\ approved \subseteq CallIds /\ denied \subseteq CallIds /\ filed \subseteq CallIds
    /\ settled \subseteq CallIds
    /\ started \in Nat /\ asked \in [Threads -> CallIds \cup {None}]
    /\ replied \in [Threads -> Seq(Batches)]
    /\ told \subseteq Threads /\ mislaid \subseteq Threads
    /\ ran \in [CallIds -> Nat]
    /\ \A t \in Threads :
          /\ segment[t].state.reply <= Len(replied[t])
          /\ segment[t].state.reply > 0 =>
                Len(segment[t].state.answers) = Len(replied[t][segment[t].state.reply])

Unanswered(s) == {i \in DOMAIN s.answers : s.answers[i] = "none"}
First(S) == {i \in S : \A j \in S : i <= j}
Call(t, s, i) == <<t, s.reply, i>>

\* close_unfinished_calls()
Closed(s) == [s EXCEPT !.answers = [i \in DOMAIN @ |-> IF @[i] = "none" THEN "unknown" ELSE @[i]]]

Init ==
    /\ checkpoint = [t \in Threads |-> None] /\ parked = [t \in Threads |-> None]
    /\ segment = [t \in Threads |-> NoSegment]
    /\ signal = FALSE
    /\ approved = {} /\ denied = {} /\ filed = {} /\ settled = {} /\ told = {} /\ mislaid = {}
    /\ started = 0 /\ asked = [t \in Threads |-> None]
    /\ replied = [t \in Threads |-> << >>]
    /\ ran = [c \in CallIds |-> 0]

Goes(t, seg) == segment' = [segment EXCEPT ![t] = seg]
At(t, stage) == Goes(t, [segment[t] EXCEPT !.at = stage])
Saved(t, s) ==
    /\ checkpoint' = [checkpoint EXCEPT ![t] = s]
    /\ settled' = settled \cup {Call(t, s, i) : i \in DOMAIN s.answers \ Unanswered(s)}
\* checkpointer.save() may raise, with or without the checkpoint written.
MaySave(t, s) == Saved(t, s) \/ UNCHANGED <<checkpoint, settled>>
Effects(calls) == ran' = [c \in CallIds |-> ran[c] + (IF c \in calls THEN 1 ELSE 0)]

\* _begin_run() for a segment that goes on from s.
Starts(t, stage, s, batch, perform) ==
    /\ segment[t].at = "none" /\ started < MaxSegments
    /\ started' = started + 1
    /\ Goes(t, [NoSegment EXCEPT !.at = stage, !.state = s, !.batch = batch, !.perform = perform])
    /\ UNCHANGED <<checkpoint, signal, approved, denied, filed, replied, told, ran, settled, mislaid>>

\* _create_initial_state(): the loaded conversation with the calls of a turn that was
\* cut short closed, and the new message after it.
MutForgets(s) == Fresh
NewTurn(s) == IF s = None THEN Fresh ELSE [Closed(s) EXCEPT !.over = FALSE]

\* run(): a new turn, which supersedes a pause.  A hook that raises before the loop
\* ends it there.
MutKeepsPause(t) ==
    /\ Starts(t, "loop", NewTurn(checkpoint[t]), TRUE, FALSE)
    /\ asked' = [asked EXCEPT ![t] = None]
    /\ UNCHANGED parked
Run(t) ==
    /\ Starts(t, "loop", NewTurn(checkpoint[t]), TRUE, FALSE)
    /\ parked' = [parked EXCEPT ![t] = None]
    /\ asked' = [asked EXCEPT ![t] = None]
FailsToRun(t) ==
    /\ segment[t].at = "none" /\ started < MaxSegments
    /\ started' = started + 1
    /\ parked' = [parked EXCEPT ![t] = None]
    /\ asked' = [asked EXCEPT ![t] = None]
    /\ UNCHANGED <<checkpoint, segment, signal, approved, denied, filed, replied, told, ran, settled, mislaid>>

\* resume(): the caller answers a pause that was announced to it, or that it finds in
\* pending_interrupts().
Resume(t, perform) ==
    /\ parked[t] # None \/ (asked[t] # None /\ checkpoint[t] # None)
    /\ Starts(t, "folding", IF parked[t] # None THEN parked[t] ELSE checkpoint[t], FALSE, perform)
    /\ parked' = [parked EXCEPT ![t] = None]
    /\ UNCHANGED asked

\* continue_turn(): after a crash, with the outcome of open calls unknown.
ContinueTurn(t) ==
    /\ parked[t] = None /\ checkpoint[t] # None
    /\ ~checkpoint[t].over
    /\ Starts(t, "loop", Closed(checkpoint[t]), FALSE, FALSE)
    /\ asked' = [asked EXCEPT ![t] = None]
    /\ UNCHANGED parked

-----------------------------------------------------------------------------
\* Executing call i of s: it is held, or it ends in a result, with its effect or, for
\* a gated call that was denied, without.
Held(t, s, i) == LET c == Call(t, s, i)
                 IN  KindOf(c) = "ask" \/ (KindOf(c) = "gated" /\ c \notin approved \cup denied)
MutKeepsApproval(t, s, i) ==
    LET c == Call(t, s, i) IN ~Held(t, s, i) /\ UNCHANGED approved /\ Effects({c} \ denied)
Performs(t, s, i) ==
    LET c == Call(t, s, i)
    IN  /\ ~Held(t, s, i)
        /\ approved' = approved \ {c}
        /\ Effects({c} \ denied)
Nothing == UNCHANGED <<approved, ran>>
\* A gated call that is held has a record in the approval store.
Files(t, s, S) == filed' = filed \cup {c \in {Call(t, s, i) : i \in S} : KindOf(c) = "gated"}

\* _fold_resume_response(): the unanswered call that the answer is for, an ask_user
\* before any other.
Asks(t, s) == {i \in Unanswered(s) : KindOf(Call(t, s, i)) = "ask"}
Dangling(t, s) == First(IF Asks(t, s) # {} THEN Asks(t, s) ELSE Unanswered(s))
Answered(t, i, answer) ==
    Goes(t, [segment[t] EXCEPT !.at = "loop", !.perform = FALSE, !.state.answers[i] = answer])

\* The answer is folded as text, as a note when no call is open, or as what the held
\* call returns or a hook says in its place.
Fold(t) == LET s == segment[t].state IN
    /\ segment[t].at = "folding"
    /\ \/ /\ Unanswered(s) = {} /\ Nothing
          /\ Goes(t, [segment[t] EXCEPT !.at = "loop", !.perform = FALSE])
       \/ \E i \in Dangling(t, s) :
             LET performed == segment[t].perform /\ i \notin Asks(t, s)
             IN  \/ ~performed /\ Answered(t, i, "text") /\ Nothing
                 \/ performed /\ Answered(t, i, "cancelled") /\ Nothing
                 \/ performed /\ Performs(t, s, i) /\ Answered(t, i, "result")
    /\ UNCHANGED <<checkpoint, parked, signal, denied, filed, started, replied, asked, told, settled, mislaid>>

\* The call is held again: the thread is left as it was, and the caller still asked.
HeldAgain(t) == LET s == segment[t].state IN
    /\ segment[t].at = "folding" /\ segment[t].perform
    /\ Asks(t, s) = {} /\ \E i \in Dangling(t, s) : Held(t, s, i) /\ Files(t, s, {i})
    /\ parked' = [parked EXCEPT ![t] = s]
    /\ Goes(t, NoSegment)
    /\ told' = told \ {t}
    /\ UNCHANGED <<checkpoint, signal, approved, denied, started, replied, asked, ran, settled, mislaid>>

\* A hook raises before the performed call, or after it: the pause is in the checkpoint
\* only.
HookRaises(t) == LET s == segment[t].state IN
    /\ segment[t].at = "folding"
    /\ \/ Nothing
       \/ /\ segment[t].perform /\ Asks(t, s) = {}
          /\ \E i \in Dangling(t, s) : Performs(t, s, i)
    /\ Goes(t, NoSegment)
    /\ told' = told \ {t}
    /\ UNCHANGED <<checkpoint, parked, signal, denied, filed, started, replied, asked, settled, mislaid>>

-----------------------------------------------------------------------------
\* The loop, from one boundary of an iteration to the next.  Unless it is cancelled the
\* run asks the model, or stops: a budget, a termination condition, an error.
Stays == UNCHANGED <<checkpoint, parked, signal, approved, denied, filed, started, replied, told, ran, settled, mislaid>>
Stops(t) == Goes(t, [segment[t] EXCEPT !.at = "stopped", !.results = << >>]) /\ asked' = [asked EXCEPT ![t] = None]

Cancelled(t) == segment[t].cancel \/ signal

Top(t) ==
    /\ segment[t].at = "loop"
    /\ \/ Stops(t)
       \/ ~Cancelled(t) /\ At(t, "model") /\ UNCHANGED asked
    /\ Stays

\* The model answers, fails, or has its answer sent back.
Answer(t) ==
    /\ segment[t].at = "model"
    /\ \/ /\ Goes(t, [segment[t] EXCEPT !.at = "stopped", !.state.over = TRUE])
          /\ asked' = [asked EXCEPT ![t] = None]
       \/ Stops(t)
       \/ At(t, "loop") /\ UNCHANGED asked
    /\ Stays

\* The model replies with calls.
Reply(t) == \E b \in Batches :
    /\ segment[t].at = "model" /\ Len(replied[t]) < MaxReplies[t]
    /\ replied' = [replied EXCEPT ![t] = Append(@, b)]
    /\ LET open == [i \in DOMAIN b |-> "none"]
       IN  Goes(t, [segment[t] EXCEPT !.at = "tools", !.results = open,
                    !.state = [reply |-> Len(replied[t]) + 1, answers |-> open, over |-> FALSE]])
    /\ UNCHANGED <<checkpoint, parked, signal, approved, denied, filed, started, asked, told, ran, settled, mislaid>>

\* _checkpoint_iteration(), when this iteration is due one.  When it raises the run stops.
IterationEnds(t, s) ==
    /\ \E at \in {"loop", "stopped"} :
          /\ Goes(t, [segment[t] EXCEPT !.at = at, !.state = s, !.results = << >>])
          /\ asked' = IF at = "stopped" THEN [asked EXCEPT ![t] = None] ELSE asked
    /\ MaySave(t, s)
    /\ UNCHANGED <<parked, signal, approved, denied, filed, started, replied, told, ran, mislaid>>

\* _park_interrupt()
Parks(t, i, results) ==
    /\ parked' = [parked EXCEPT ![t] = segment[t].state]
    /\ Goes(t, [segment[t] EXCEPT !.at = "pausing", !.pause = i, !.results = results])

\* run() executes a reply's calls together.  The first to be held pauses the run and
\* cancels those in flight, some of which have taken effect.
Waiting(t) == {i \in DOMAIN segment[t].results : segment[t].results[i] = "none"}
InBatch(t, i) == segment[t].at = "tools" /\ segment[t].batch /\ i \in Waiting(t)
Executes(t, i) ==
    /\ InBatch(t, i)
    /\ \/ /\ Performs(t, segment[t].state, i)
          /\ Goes(t, [segment[t] EXCEPT !.results[i] = "result"])
       \/ /\ Nothing
          /\ Goes(t, [segment[t] EXCEPT !.results[i] = "cancelled"])
    /\ UNCHANGED <<checkpoint, parked, signal, denied, filed, started, replied, asked, told, settled, mislaid>>
Interrupts(t, i) == LET s == segment[t].state IN
    /\ InBatch(t, i) /\ Held(t, s, i)
    /\ \E reached \in SUBSET (Waiting(t) \ {i}) :
          /\ Effects({Call(t, s, j) : j \in {k \in reached : KindOf(Call(t, s, k)) = "plain"}})
          /\ Files(t, s, reached \cup {i})
    /\ Parks(t, i, [j \in DOMAIN s.answers |->
                       IF j = i THEN "text"
                       ELSE IF j \in Waiting(t) THEN "cancelled" ELSE segment[t].results[j]])
    /\ UNCHANGED <<checkpoint, signal, approved, denied, started, replied, asked, told, settled, mislaid>>
FoldBatch(t) ==
    /\ segment[t].at = "tools" /\ segment[t].batch /\ Waiting(t) = {}
    /\ IterationEnds(t, [segment[t].state EXCEPT !.answers = segment[t].results])

\* A resumed or continued run executes them in order, and folds each result at once.
InOrder(t) == LET s == segment[t].state IN
    /\ segment[t].at = "tools" /\ ~segment[t].batch
    /\ \E i \in First(Unanswered(s)) :
          \/ /\ Performs(t, s, i) /\ UNCHANGED <<parked, filed>>
             /\ Goes(t, [segment[t] EXCEPT !.state.answers[i] = "result"])
          \/ /\ Nothing /\ UNCHANGED <<parked, filed>>
             /\ Goes(t, [segment[t] EXCEPT !.state.answers[i] = "cancelled"])
          \/ Held(t, s, i) /\ Nothing /\ Files(t, s, {i}) /\ Parks(t, i, << >>)
    /\ UNCHANGED <<checkpoint, signal, denied, started, replied, asked, told, settled, mislaid>>
AllInOrder(t) ==
    /\ segment[t].at = "tools" /\ ~segment[t].batch /\ Unanswered(segment[t].state) = {}
    /\ IterationEnds(t, segment[t].state)

\* An error among the calls: what was not folded is lost.
Fails(t) ==
    /\ segment[t].at = "tools"
    /\ Stops(t) /\ Stays

-----------------------------------------------------------------------------
\* A pause is in memory, then in the checkpoint, and only then is the caller told.
Pause(t) ==
    /\ segment[t].at = "pausing"
    /\ Saved(t, segment[t].state)
    /\ asked' = [asked EXCEPT ![t] = Call(t, segment[t].state, segment[t].pause)]
    /\ Goes(t, [segment[t] EXCEPT !.at = "paused", !.results = << >>])
    /\ UNCHANGED <<parked, signal, approved, denied, filed, started, replied, told, ran, mislaid>>

\* The save raises: the run stops with an error, and the pause stays in memory.
PauseFails(t) ==
    /\ segment[t].at = "pausing"
    /\ MaySave(t, segment[t].state)
    /\ Stops(t)
    /\ UNCHANGED <<parked, signal, approved, denied, filed, started, replied, told, ran, mislaid>>

\* In run() a ValueError or KeyError of the save is taken for one of the held call's
\* result, which is folded like any other: the run goes on, and the pause stays in memory.
PauseMislaid(t) ==
    /\ segment[t].at = "pausing" /\ segment[t].batch
    /\ MaySave(t, segment[t].state)
    /\ At(t, "tools")
    /\ mislaid' = mislaid \cup {t}
    /\ UNCHANGED <<parked, signal, approved, denied, filed, started, replied, asked, told, ran>>

\* The finally of a segment that stopped, or that its caller leaves when it is paused.
Clear(t) ==
    /\ segment[t].at \in {"stopped", "paused"}
    /\ signal' = FALSE
    /\ At(t, "ending")
    /\ UNCHANGED <<checkpoint, parked, approved, denied, filed, started, replied, asked, told, ran, settled, mislaid>>
EndRun(t) ==
    /\ segment[t].at = "ending"
    /\ MaySave(t, segment[t].state)
    /\ Goes(t, NoSegment)
    /\ told' = told \ {t}
    /\ UNCHANGED <<parked, signal, approved, denied, filed, started, replied, asked, ran, mislaid>>

-----------------------------------------------------------------------------
\* cancel(), from any thread of the process: the runs on one thread, or every run in
\* progress and, through the signal, the next to start.
Registered == {t \in Threads : segment[t].at # "none"}
Signalled(threads) ==
    /\ segment' = [t \in Threads |-> IF t \in threads THEN [segment[t] EXCEPT !.cancel = TRUE]
                                     ELSE segment[t]]
    /\ told' = told \cup threads
    /\ UNCHANGED <<checkpoint, parked, approved, denied, filed, started, replied, asked, ran, settled, mislaid>>
Cancel(t) == t \in Registered /\ Signalled({t}) /\ UNCHANGED signal

MutArmsOnly ==
    /\ signal' = TRUE
    /\ told' = told \cup Registered
    /\ UNCHANGED <<checkpoint, parked, segment, approved, denied, filed, started, replied, asked, ran, settled, mislaid>>
CancelAll == signal' = TRUE /\ Signalled(Registered)

\* A person decides about a call that is or was held, whether its run was told or not.
\* When a call is held again although it took effect (a hook raised after it), that is a
\* new record; a second approval is left out.
Decide == \E c \in filed :
    /\ ran[c] = 0 /\ c \notin denied
    /\ \/ approved' = approved \cup {c} /\ UNCHANGED denied
       \/ c \notin approved /\ denied' = denied \cup {c} /\ UNCHANGED approved
    /\ UNCHANGED <<checkpoint, parked, segment, signal, filed, started, replied, asked, told, ran,
                   settled, mislaid>>

\* The process dies.  What is on disk stays: checkpoints, and the approval store.
Crash ==
    /\ segment' = [t \in Threads |-> NoSegment]
    /\ parked' = [t \in Threads |-> None]
    /\ signal' = FALSE /\ told' = {}
    /\ UNCHANGED <<checkpoint, approved, denied, filed, started, replied, asked, ran, settled, mislaid>>

Step(t) ==
    \/ Run(t) \/ FailsToRun(t) \/ (\E perform \in BOOLEAN : Resume(t, perform)) \/ ContinueTurn(t)
    \/ Fold(t) \/ HeldAgain(t) \/ HookRaises(t)
    \/ Top(t) \/ Answer(t) \/ Reply(t)
    \/ (\E i \in DOMAIN segment[t].results : Executes(t, i) \/ Interrupts(t, i))
    \/ FoldBatch(t) \/ InOrder(t) \/ AllInOrder(t) \/ Fails(t)
    \/ Pause(t) \/ PauseFails(t) \/ PauseMislaid(t) \/ Clear(t) \/ EndRun(t)
    \/ Cancel(t)
Next == (\E t \in Threads : Step(t)) \/ CancelAll \/ Decide \/ Crash

Spec == Init /\ [][Next]_turnVars

-----------------------------------------------------------------------------
\* A conversation has an answer to a call, or has gone on since.
Ahead(s, c) == s.reply > c[2] \/ (s.reply = c[2] /\ s.answers[c[3]] # "none")

\* A pause in memory between segments has every answer that a checkpoint of its thread
\* had, or belongs to a later reply, so answering it takes nothing back.  (Not when its
\* run went on.)
PauseIsNotStale ==
    \A c \in settled :
       LET t == c[1]
       IN  t \notin mislaid /\ segment[t].at = "none" /\ parked[t] # None => Ahead(parked[t], c)

\* A call that a checkpoint has an answer to does not take effect again, whatever
\* crashed or was answered since: "every call whose result is in the checkpoint stays
\* done", and one closed with its outcome unknown is "never re-run".
SettledCallsStaySettled ==
    [][\A c \in settled : c[1] \notin mislaid => ran'[c] = ran[c]]_turnVars

\* A checkpoint does not go back: a call that a checkpoint of the thread had an answer to
\* is answered in the latest one, or belongs to an earlier reply than its last.
CheckpointsGoForward == \A c \in settled : c[1] \notin mislaid => Ahead(checkpoint[c[1]], c)

\* A call takes effect once at the most, by one decision about it, unless a later call of
\* its reply was held: the pause then forgets the results of the ones before it.
Forgotten(c) == \E j \in DOMAIN replied[c[1]][c[2]] : j > c[3] /\ replied[c[1]][c[2]][j] # "plain"
RunsOnce == \A c \in CallIds : ran[c] > 1 => Forgotten(c)

\* A run that was cancelled while it was in progress does not ask the model again,
\* whichever other runs end or begin in between.
CancelledRunsStop == [][\A t \in told : segment[t].at = "loop" => segment'[t].at # "model"]_turnVars

\* The answer to a pause goes to the call that was held, and to no other.
AnswerReachesTheHeldCall ==
    [][\A t \in Threads :
          segment[t].at = "folding" /\ segment'[t].at = "loop"
          /\ asked[t] # None /\ segment[t].state.reply = asked[t][2]
          => segment'[t].state.answers[asked[t][3]] # "none"]_turnVars
=============================================================================
